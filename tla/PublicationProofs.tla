------------------------- MODULE PublicationProofs -------------------------
(***************************************************************************)
(* Proofs about Publication for every set of requests and every bound.     *)
(* Five invariants, together inductive (IndInv), lead to the safety        *)
(* properties and to the refinement of SnapshotStore:                      *)
(*   TypeOK      the variables have their types;                           *)
(*   LockInv     who is inside which critical section;                     *)
(*   PublishInv  a publisher past its check holds what is published;       *)
(*   VersionInv  nothing held or published is newer than its source;       *)
(*   JobInv      what each publisher holds still fits the snapshot it      *)
(*               would replace, or the generation check will tell.         *)
(***************************************************************************)
EXTENDS Publication, TLAPS

\* The empty values that reset a job are of its type.
LEMMA EmptyTypes ==
    /\ NoSnapshot \in Snapshots
    /\ NoRefreshJob \in RefreshJobs
    /\ NoAuthJob \in AuthJobs
    /\ NoConfigJob \in ConfigJobs
BY DEF NoSnapshot, NoRefreshJob, NoAuthJob, NoConfigJob, Snapshots, Catalogs, Clients, Tokens,
       RefreshJobs, AuthJobs, ConfigJobs, Configs, AllSourceKinds

\* The initial state is well-typed.
LEMMA InitTypes == Init => TypeOK
<1>1. Store!FirstSnapshot \in Snapshots /\ Store!FirstSnapshot.tokens \in Tokens
      /\ Store!FirstSnapshot.client \in Clients
  BY DEF Store!FirstSnapshot, Snapshots, Catalogs, Clients, Tokens
<1>2. ASSUME Init PROVE DataTypeOK
  <2>1. source \in Configs /\ external \in [version : Nat, kind : AllExternalKinds]
        /\ keyFile \in [version : Nat, readable : BOOLEAN]
    BY <1>2 DEF Init, Configs, AllSourceKinds, AllExternalKinds
  <2>2. QED BY <1>1, <1>2, <2>1, EmptyTypes DEF Init, DataTypeOK
<1>3. Init => PCTypeOK
  BY RequestsAssumption
  DEF Init, PCTypeOK, Threads, Publishers, Refreshers, Refresher, RefreshLabels, RefresherLabels,
      ShowLabels, TokensLabels, ConfigLabels, RunLabels
<1>4. QED BY <1>2, <1>3 DEF TypeOK

\* A step keeps the data typed; where the goroutines are plays no part.
LEMMA DataTypes == ASSUME DataTypeOK, [Next]_vars PROVE DataTypeOK'
<1> USE EmptyTypes DEF DataTypeOK
<1> USE DEF published, stopping, publishing, refreshing, tokenReload, configReload, requests,
            environment
<1>1. CASE RefreshTimer \/ RefresherExits \/ MissWindowPasses
  BY <1>1, ZenonT(60) DEF RefreshTimer, RefresherExits, MissWindowPasses, besideRefresh
<1>2. ASSUME NEW t \in Refreshers, Refresh(t) PROVE DataTypeOK'
  <2> USE DEF besideRefresh, RefreshReturns, LeavePublish
  <2>0. t \in Publishers BY <1>2 DEF Publishers
  <2>1. CASE RefreshSkips(t) BY <2>1 DEF RefreshSkips
  <2>2. CASE RefreshBegins(t) BY <2>2, ZenonT(60) DEF RefreshBegins, RefreshJobs, Snapshots
  <2>3. CASE RefreshDiscovers(t) BY <2>3 DEF RefreshDiscovers, RefreshJobs
  <2>4. CASE RefreshFails(t) BY <2>4 DEF RefreshFails
  <2>5. CASE RefreshRechecks(t) BY <2>5 DEF RefreshRechecks
  <2>6. CASE RefreshEnters(t) BY <2>0, <2>6 DEF RefreshEnters, EnterPublish
  <2>7. CASE RefreshDrops(t) BY <2>7 DEF RefreshDrops
  <2>8. CASE RefreshPublishes(t)
    <3>1. [client |-> refreshJob[t].client, listing |-> refreshJob[t].listing] \in Catalogs
      BY <1>2 DEF Catalogs, RefreshJobs
    <3>2. latest[t] \in Snapshots BY <2>0
    <3>3. active' \in Snapshots BY <2>8, <3>1, <3>2 DEF RefreshPublishes, Snapshots
    <3>4. QED BY <2>8, <3>3 DEF RefreshPublishes
  <2>9. CASE RefreshLoaded(t) BY <2>9 DEF RefreshLoaded
  <2>10. CASE RefreshCompares(t) BY <2>10 DEF RefreshCompares
  <2>11. QED BY <1>2, <2>1, <2>2, <2>3, <2>4, <2>5, <2>6, <2>7, <2>8, <2>9, <2>10 DEF Refresh
<1>3. CASE TokensWake \/ TokensExit \/ ReloadTokens
  <2> USE DEF besideTokens, TokensReturn, LeavePublish, Publishers
  <2>1. CASE TokensWake \/ TokensExit BY <2>1 DEF TokensWake, TokensExit
  <2>2. CASE TokensSkip \/ TokensBegin
    <3>1. [authJob EXCEPT !.gen = active.gen, !.auth = active.auth] \in AuthJobs
      BY DEF AuthJobs, Snapshots
    <3>2. QED BY <2>2, <3>1 DEF TokensSkip, TokensBegin
  <2>3. CASE TokensLoad
    <3>1. source.auth \in Nat BY DEF Configs
    <3>2. \E auth, inline \in {authJob.auth, source.auth, 0} :
            authJob' = [authJob EXCEPT !.auth = auth, !.inline = inline]
      BY <2>3 DEF TokensLoad
    <3>3. PICK auth, inline \in {authJob.auth, source.auth, 0} :
            authJob' = [authJob EXCEPT !.auth = auth, !.inline = inline]
      BY <3>2
    <3>4. auth \in Nat /\ inline \in Nat BY <3>1 DEF AuthJobs
    <3>5. authJob' \in AuthJobs BY <3>3, <3>4 DEF AuthJobs
    <3>6. QED BY <2>3, <3>5 DEF TokensLoad
  <2>4. CASE TokensRead BY <2>4 DEF TokensRead, Effective, AuthJobs, Tokens
  <2>5. CASE TokensRejected BY <2>5 DEF TokensRejected
  <2>6. CASE TokensEnter BY <2>6 DEF TokensEnter, EnterPublish
  <2>7. CASE TokensDrop BY <2>7 DEF TokensDrop
  <2>8. CASE TokensPublish
    BY <2>8 DEF TokensPublish, Store!Seen, AuthJobs, Tokens, Snapshots
  <2>9. CASE TokensWakeConfig BY <2>9 DEF TokensWakeConfig
  <2>10. CASE TokensCompare BY <2>10 DEF TokensCompare
  <2>11. QED BY <1>3, <2>1, <2>2, <2>3, <2>4, <2>5, <2>6, <2>7, <2>8, <2>9, <2>10
         DEF ReloadTokens
<1>4. CASE ConfigWakes \/ ConfigExits \/ ReloadConfig
  <2> USE DEF besideConfig, ConfigGivesUp, LeavePublish, Publishers
  <2>1. CASE ConfigWakes \/ ConfigExits
    <3>1. [configJob EXCEPT !.gen = active.gen, !.cfg = active.cfg, !.key = active.key,
                            !.client = active.client] \in ConfigJobs
      BY DEF ConfigJobs, Snapshots
    <3>2. QED BY <2>1, <3>1 DEF ConfigWakes, ConfigExits
  <2>2. CASE ConfigLoads BY <2>2 DEF ConfigLoads, ConfigJobs
  <2>3. CASE ConfigReadsKey BY <2>3 DEF ConfigReadsKey, ConfigJobs, Configs, Clients
  <2>4. CASE ConfigDiscovers BY <2>4, ZenonT(60) DEF ConfigDiscovers, ConfigJobs, Configs
  <2>5. CASE ConfigFails BY <2>5 DEF ConfigFails
  <2>6. CASE ConfigRechecksSource BY <2>6 DEF ConfigRechecksSource
  <2>7. CASE ConfigRechecksKey BY <2>7 DEF ConfigRechecksKey
  <2>8. CASE ConfigLocks BY <2>8 DEF ConfigLocks
  <2>9. CASE ConfigEnters BY <2>9 DEF ConfigEnters, EnterPublish
  <2>10. CASE ConfigDrops BY <2>10 DEF ConfigDrops
  <2>11. CASE ConfigPublishes
    <3>1. NewClient \in Clients BY DEF NewClient, Clients, ConfigJobs, Configs
    <3>2. latest["config"] \in Snapshots OBVIOUS
    <3>3. active' \in Snapshots
      BY <2>11, <3>1, <3>2 DEF ConfigPublishes, Snapshots, Catalogs, ConfigJobs, Configs
    <3>4. QED BY <2>11, <3>3 DEF ConfigPublishes
  <2>12. CASE ConfigLoaded BY <2>12 DEF ConfigLoaded
  <2>13. CASE ConfigCompares BY <2>13 DEF ConfigCompares
  <2>14. QED BY <1>4, <2>1, <2>2, <2>3, <2>4, <2>5, <2>6, <2>7, <2>8, <2>9, <2>10, <2>11, <2>12,
                <2>13
         DEF ReloadConfig
<1>5. CASE RunStops \/ Run
  BY <1>5, ZenonT(60) DEF RunStops, Run, RunLocks, RunDrains, RunCancels, besideRun
<1>6. ASSUME NEW r \in Requests, Show(r) PROVE DataTypeOK'
  BY <1>6 DEF Show, ShowCaptures, ShowResolves, ShowRecaptures, Answers, besideShow
<1>7. CASE Environment
  <2> USE DEF beforeFiles
  <2>1. CASE EditSource BY <2>1, KindsAssumption DEF EditSource, Configs
  <2>2. CASE EditExternal BY <2>2, KindsAssumption DEF EditExternal
  <2>3. CASE EditKey
    <3>1. keyFile.version + 1 \in Nat OBVIOUS
    <3>2. keyFile' \in [version : Nat, readable : BOOLEAN] BY <2>3, <3>1 DEF EditKey
    <3>3. QED BY <2>3, <3>2 DEF EditKey
  <2>4. CASE ListingChanges BY <2>4 DEF ListingChanges
  <2>5. CASE UpstreamToggles
    <3>1. upstreamUp' \in BOOLEAN BY <2>5 DEF UpstreamToggles
    <3>2. QED BY <2>5, <3>1 DEF UpstreamToggles
  <2>6. QED BY <1>7, <2>1, <2>2, <2>3, <2>4, <2>5 DEF Environment
<1>8. CASE UNCHANGED vars
  BY <1>8 DEF vars
<1>9. QED BY <1>1, <1>2, <1>3, <1>4, <1>5, <1>6, <1>7, <1>8 DEF Next

\* A step keeps every goroutine at one of its own labels.
LEMMA PCTypes == ASSUME PCTypeOK, [Next]_vars PROVE PCTypeOK'
<1> USE RequestsAssumption
    DEF PCTypeOK, Threads, Publishers, Refreshers, Refresher, RefreshLabels, RefresherLabels,
        ShowLabels, TokensLabels, ConfigLabels, RunLabels, Goto, At
<1>1. CASE RefreshTimer \/ RefresherExits \/ MissWindowPasses
  BY <1>1, ZenonT(60) DEF RefreshTimer, RefresherExits, MissWindowPasses
<1>2. ASSUME NEW t \in Refreshers, Refresh(t) PROVE PCTypeOK'
  <2>1. CASE RefreshSkips(t) \/ RefreshBegins(t) \/ RefreshDiscovers(t) \/ RefreshFails(t)
    BY <2>1 DEF RefreshSkips, RefreshBegins, RefreshDiscovers, RefreshFails, RefreshReturns
  <2>2. CASE RefreshRechecks(t)
    <3>1. At(t, "recheck") /\ (Goto(t, IF t = Refresher THEN "idle" ELSE "recapture")
                               \/ Goto(t, "publish"))
      BY <2>2 DEF RefreshRechecks, RefreshReturns
    <3>2. CASE Goto(t, IF t = Refresher THEN "idle" ELSE "recapture") BY <3>2
    <3>3. CASE Goto(t, "publish") BY <3>3
    <3>4. QED BY <3>1, <3>2, <3>3
  <2>3. CASE RefreshEnters(t) BY <2>3 DEF RefreshEnters, EnterPublish
  <2>4. CASE RefreshDrops(t)
    <3>1. At(t, "compare") /\ Goto(t, IF t = Refresher THEN "idle" ELSE "recapture")
      BY <2>4 DEF RefreshDrops, RefreshReturns
    <3>2. QED BY <3>1
  <2>5. CASE RefreshCompares(t) \/ RefreshPublishes(t) \/ RefreshLoaded(t)
    BY <2>5 DEF RefreshCompares, Passes, RefreshPublishes, RefreshLoaded, RefreshReturns
  <2>6. QED BY <1>2, <2>1, <2>2, <2>3, <2>4, <2>5 DEF Refresh
<1>3. CASE TokensWake \/ TokensExit \/ ReloadTokens
  BY <1>3 DEF TokensWake, TokensExit, ReloadTokens, TokensSkip, TokensBegin, TokensLoad,
              TokensRead, TokensRejected, TokensEnter, TokensDrop, TokensCompare,
              Passes, TokensPublish, TokensWakeConfig, TokensReturn, EnterPublish
<1>4. CASE ConfigWakes \/ ConfigExits \/ ReloadConfig
  BY <1>4 DEF ConfigWakes, ConfigExits, ReloadConfig, ConfigLoads, ConfigReadsKey,
              ConfigDiscovers, ConfigFails, ConfigRechecksSource, ConfigRechecksKey, ConfigLocks,
              ConfigEnters, ConfigDrops, ConfigCompares, Passes, ConfigPublishes, ConfigLoaded, ConfigGivesUp,
              EnterPublish
<1>5. CASE RunStops \/ Run
  <2>1. \E label \in RunLabels : Goto("main", label)
    BY <1>5 DEF RunStops, Run, RunLocks, RunDrains, RunCancels
  <2>2. QED BY <2>1
<1>6. ASSUME NEW r \in Requests, Show(r) PROVE PCTypeOK'
  <2>1. CASE ShowCaptures(r) BY <2>1 DEF ShowCaptures
  <2>2. CASE ShowResolves(r)
    <3>1. CASE At(r, "resolve") /\ Goto(r, "lock") BY <3>1
    <3>2. CASE At(r, "resolve") /\ Goto(r, "done") BY <3>2
    <3>3. Misses(view[r]) => At(r, "resolve") /\ Goto(r, "lock") BY <2>2 DEF ShowResolves
    <3>4. ~Misses(view[r]) => At(r, "resolve") /\ Goto(r, "done") BY <2>2 DEF ShowResolves, Answers
    <3>5. QED BY <3>1, <3>2, <3>3, <3>4
  <2>3. CASE ShowRecaptures(r)
    <3>1. At(r, "recapture") /\ Goto(r, "done") BY <2>3 DEF ShowRecaptures, Answers
    <3>2. QED BY <3>1
  <2>4. QED BY <1>6, <2>1, <2>2, <2>3 DEF Show
<1>7. CASE Environment \/ UNCHANGED vars
  BY <1>7 DEF Environment, EditSource, EditExternal, EditKey, ListingChanges, UpstreamToggles,
              beforeFiles, vars
<1>8. QED BY <1>1, <1>2, <1>3, <1>4, <1>5, <1>6, <1>7 DEF Next

\* The variables' values stay well-typed through every step of every goroutine.
THEOREM TypeCorrect == Spec => []TypeOK
<1>1. TypeOK /\ [Next]_vars => TypeOK'
  BY DataTypes, PCTypes DEF TypeOK
<1>2. QED BY InitTypes, <1>1, PTL DEF Spec
----------------------------------------------------------------------------
Refreshing == {"discover", "recheck", "publish", "compare", "store", "loaded"}
TokenReading == {"load", "read", "publish", "compare", "store"}
Publishing == {"compare", "store", "loaded"}

\* Each mutex is held by exactly the goroutine inside its critical section.
LockInv ==
    /\ \A t \in Refreshers : refreshMu = t <=> pc[t] \in Refreshing
    /\ authMu = "auth" <=> pc["auth"] \in TokenReading
    /\ authMu = "config" <=> pc["config"] \in {"publish", "compare", "store", "loaded"}
    /\ \A t \in Publishers : publishMu = t <=> pc[t] \in Publishing
    /\ publishMu = "main" <=> pc["main"] = "set"

LEMMA LocksInit == Init => LockInv
BY RequestsAssumption
DEF Init, LockInv, Threads, Publishers, Refreshers, Refresher, None, Refreshing, TokenReading,
    Publishing

LEMMA LocksStep == ASSUME TypeOK, LockInv, [Next]_vars PROVE LockInv'
<1> USE RequestsAssumption
    DEF TypeOK, DataTypeOK, PCTypeOK, LockInv, Refreshing, TokenReading, Publishing, Threads,
        Publishers, Refreshers, Refresher, None, Goto, At
<1> USE DEF publishing, stopping, refreshing
<1>1. CASE RefreshTimer \/ RefresherExits \/ MissWindowPasses
  BY <1>1 DEF RefreshTimer, RefresherExits, MissWindowPasses, besideRefresh
<1>2. ASSUME NEW t \in Refreshers, Refresh(t) PROVE LockInv'
  <2> USE DEF besideRefresh, RefreshReturns, LeavePublish
  <2>1. CASE RefreshSkips(t) BY <2>1 DEF RefreshSkips
  <2>2. CASE RefreshBegins(t) BY <2>2 DEF RefreshBegins
  <2>3. CASE RefreshDiscovers(t) BY <2>3 DEF RefreshDiscovers
  <2>4. CASE RefreshFails(t) BY <2>4 DEF RefreshFails
  <2>5. CASE RefreshRechecks(t)
    <3>1. CASE draining BY <2>5, <3>1 DEF RefreshRechecks
    <3>2. CASE ~draining BY <2>5, <3>2 DEF RefreshRechecks
    <3>3. QED BY <3>1, <3>2
  <2>6. CASE RefreshEnters(t) BY <2>6 DEF RefreshEnters, EnterPublish
  <2>7. CASE RefreshDrops(t) BY <2>7 DEF RefreshDrops
  <2>8. CASE RefreshCompares(t) BY <2>8 DEF RefreshCompares, Passes
  <2>9. CASE RefreshPublishes(t) BY <2>9 DEF RefreshPublishes
  <2>10. CASE RefreshLoaded(t) BY <2>10 DEF RefreshLoaded
  <2>11. QED BY <1>2, <2>1, <2>2, <2>3, <2>4, <2>5, <2>6, <2>7, <2>8, <2>9, <2>10 DEF Refresh
<1>3. CASE TokensWake \/ TokensExit \/ ReloadTokens
  <2> USE DEF besideTokens, TokensReturn, LeavePublish
  <2>1. CASE TokensWake \/ TokensExit BY <2>1 DEF TokensWake, TokensExit
  <2>2. CASE TokensSkip \/ TokensBegin BY <2>2 DEF TokensSkip, TokensBegin
  <2>3. CASE TokensLoad BY <2>3 DEF TokensLoad
  <2>4. CASE TokensRead BY <2>4 DEF TokensRead
  <2>5. CASE TokensRejected BY <2>5 DEF TokensRejected
  <2>6. CASE TokensEnter BY <2>6 DEF TokensEnter, EnterPublish
  <2>7. CASE TokensDrop BY <2>7 DEF TokensDrop
  <2>8. CASE TokensCompare BY <2>8 DEF TokensCompare, Passes
  <2>9. CASE TokensPublish BY <2>9 DEF TokensPublish
  <2>10. CASE TokensWakeConfig BY <2>10 DEF TokensWakeConfig
  <2>11. QED BY <1>3, <2>1, <2>2, <2>3, <2>4, <2>5, <2>6, <2>7, <2>8, <2>9, <2>10
         DEF ReloadTokens
<1>4. CASE ConfigWakes \/ ConfigExits \/ ReloadConfig
  <2> USE DEF besideConfig, ConfigGivesUp, LeavePublish
  <2>1. CASE ConfigWakes \/ ConfigExits BY <2>1 DEF ConfigWakes, ConfigExits
  <2>2. CASE ConfigLoads BY <2>2 DEF ConfigLoads
  <2>3. CASE ConfigReadsKey BY <2>3 DEF ConfigReadsKey
  <2>4. CASE ConfigDiscovers \/ ConfigFails BY <2>4 DEF ConfigDiscovers, ConfigFails
  <2>5. CASE ConfigRechecksSource BY <2>5 DEF ConfigRechecksSource
  <2>6. CASE ConfigRechecksKey BY <2>6 DEF ConfigRechecksKey
  <2>7. CASE ConfigLocks BY <2>7 DEF ConfigLocks
  <2>8. CASE ConfigEnters BY <2>8 DEF ConfigEnters, EnterPublish
  <2>9. CASE ConfigDrops BY <2>9 DEF ConfigDrops
  <2>10. CASE ConfigCompares BY <2>10 DEF ConfigCompares, Passes
  <2>11. CASE ConfigPublishes BY <2>11 DEF ConfigPublishes
  <2>12. CASE ConfigLoaded BY <2>12 DEF ConfigLoaded
  <2>13. QED BY <1>4, <2>1, <2>2, <2>3, <2>4, <2>5, <2>6, <2>7, <2>8, <2>9, <2>10, <2>11, <2>12
         DEF ReloadConfig
<1>5. CASE RunStops \/ Run
  <2> USE DEF besideRun
  <2>1. CASE RunStops BY <2>1 DEF RunStops
  <2>2. CASE RunLocks BY <2>2 DEF RunLocks
  <2>3. CASE RunDrains BY <2>3 DEF RunDrains
  <2>4. CASE RunCancels BY <2>4 DEF RunCancels
  <2>5. QED BY <1>5, <2>1, <2>2, <2>3, <2>4 DEF Run
<1>6. ASSUME NEW r \in Requests, Show(r) PROVE LockInv'
  <2>1. CASE ShowCaptures(r) BY <2>1 DEF ShowCaptures, besideShow
  <2>2. CASE ShowResolves(r) BY <2>2 DEF ShowResolves, Answers, besideShow
  <2>3. CASE ShowRecaptures(r) BY <2>3 DEF ShowRecaptures, Answers, besideShow
  <2>4. QED BY <1>6, <2>1, <2>2, <2>3 DEF Show
<1>7. CASE Environment \/ UNCHANGED vars
  BY <1>7 DEF Environment, EditSource, EditExternal, EditKey, ListingChanges, UpstreamToggles,
              beforeFiles, vars
<1>8. QED BY <1>1, <1>2, <1>3, <1>4, <1>5, <1>6, <1>7 DEF Next
----------------------------------------------------------------------------
\* Between its check and its store a publisher holds what is published, and
\* draining has not begun.
PublishInv ==
    \A t \in Publishers :
        /\ pc[t] \in {"compare", "store"} => latest[t] = active
        /\ pc[t] = "store" => ~draining

LEMMA PublishInit == Init => PublishInv
BY RequestsAssumption
DEF Init, PublishInv, Threads, Publishers, Refreshers, Refresher

LEMMA PublishStep == ASSUME TypeOK, LockInv, PublishInv, [Next]_vars PROVE PublishInv'
<1> USE RequestsAssumption
    DEF TypeOK, DataTypeOK, PCTypeOK, LockInv, PublishInv, Publishing, Threads, Publishers,
        Refreshers, Refresher, None, Goto, At
<1> USE DEF published, publishing, stopping
<1>1. CASE RefreshTimer \/ RefresherExits \/ MissWindowPasses
  BY <1>1 DEF RefreshTimer, RefresherExits, MissWindowPasses, besideRefresh
<1>2. ASSUME NEW t \in Refreshers, Refresh(t) PROVE PublishInv'
  <2> USE DEF besideRefresh, RefreshReturns, LeavePublish
  <2>1. CASE RefreshSkips(t) BY <2>1 DEF RefreshSkips
  <2>2. CASE RefreshBegins(t) BY <2>2 DEF RefreshBegins
  <2>3. CASE RefreshDiscovers(t) BY <2>3 DEF RefreshDiscovers
  <2>4. CASE RefreshFails(t) BY <2>4 DEF RefreshFails
  <2>5. CASE RefreshRechecks(t)
    <3>1. CASE draining BY <2>5, <3>1 DEF RefreshRechecks
    <3>2. CASE ~draining BY <2>5, <3>2 DEF RefreshRechecks
    <3>3. QED BY <3>1, <3>2
  <2>6. CASE RefreshEnters(t) BY <2>6 DEF RefreshEnters, EnterPublish
  <2>7. CASE RefreshDrops(t) BY <2>7 DEF RefreshDrops
  <2>8. CASE RefreshCompares(t) BY <2>8 DEF RefreshCompares, Passes, MayPublish
  <2>9. CASE RefreshPublishes(t) BY <2>9 DEF RefreshPublishes
  <2>10. CASE RefreshLoaded(t) BY <2>10 DEF RefreshLoaded
  <2>11. QED BY <1>2, <2>1, <2>2, <2>3, <2>4, <2>5, <2>6, <2>7, <2>8, <2>9, <2>10 DEF Refresh
<1>3. CASE TokensWake \/ TokensExit \/ ReloadTokens
  <2> USE DEF besideTokens, TokensReturn, LeavePublish
  <2>1. CASE TokensWake \/ TokensExit BY <2>1 DEF TokensWake, TokensExit
  <2>2. CASE TokensSkip \/ TokensBegin BY <2>2 DEF TokensSkip, TokensBegin
  <2>3. CASE TokensLoad BY <2>3 DEF TokensLoad
  <2>4. CASE TokensRead BY <2>4 DEF TokensRead
  <2>5. CASE TokensRejected BY <2>5 DEF TokensRejected
  <2>6. CASE TokensEnter BY <2>6 DEF TokensEnter, EnterPublish
  <2>7. CASE TokensDrop BY <2>7 DEF TokensDrop
  <2>8. CASE TokensCompare BY <2>8 DEF TokensCompare, Passes, MayPublish
  <2>9. CASE TokensPublish BY <2>9 DEF TokensPublish
  <2>10. CASE TokensWakeConfig BY <2>10 DEF TokensWakeConfig
  <2>11. QED BY <1>3, <2>1, <2>2, <2>3, <2>4, <2>5, <2>6, <2>7, <2>8, <2>9, <2>10
         DEF ReloadTokens
<1>4. CASE ConfigWakes \/ ConfigExits \/ ReloadConfig
  <2> USE DEF besideConfig, ConfigGivesUp, LeavePublish
  <2>1. CASE ConfigWakes \/ ConfigExits BY <2>1 DEF ConfigWakes, ConfigExits
  <2>2. CASE ConfigLoads BY <2>2 DEF ConfigLoads
  <2>3. CASE ConfigReadsKey BY <2>3 DEF ConfigReadsKey
  <2>4. CASE ConfigDiscovers \/ ConfigFails BY <2>4 DEF ConfigDiscovers, ConfigFails
  <2>5. CASE ConfigRechecksSource BY <2>5 DEF ConfigRechecksSource
  <2>6. CASE ConfigRechecksKey BY <2>6 DEF ConfigRechecksKey
  <2>7. CASE ConfigLocks BY <2>7 DEF ConfigLocks
  <2>8. CASE ConfigEnters BY <2>8 DEF ConfigEnters, EnterPublish
  <2>9. CASE ConfigDrops BY <2>9 DEF ConfigDrops
  <2>10. CASE ConfigCompares BY <2>10 DEF ConfigCompares, Passes, MayPublish
  <2>11. CASE ConfigPublishes BY <2>11 DEF ConfigPublishes
  <2>12. CASE ConfigLoaded BY <2>12 DEF ConfigLoaded
  <2>13. QED BY <1>4, <2>1, <2>2, <2>3, <2>4, <2>5, <2>6, <2>7, <2>8, <2>9, <2>10, <2>11, <2>12
         DEF ReloadConfig
<1>5. CASE RunStops \/ Run
  <2> USE DEF besideRun
  <2>1. CASE RunStops BY <2>1 DEF RunStops
  <2>2. CASE RunLocks BY <2>2 DEF RunLocks
  <2>3. CASE RunDrains BY <2>3 DEF RunDrains
  <2>4. CASE RunCancels BY <2>4 DEF RunCancels
  <2>5. QED BY <1>5, <2>1, <2>2, <2>3, <2>4 DEF Run
<1>6. ASSUME NEW r \in Requests, Show(r) PROVE PublishInv'
  <2>1. CASE ShowCaptures(r) BY <2>1 DEF ShowCaptures, besideShow
  <2>2. CASE ShowResolves(r) BY <2>2 DEF ShowResolves, Answers, besideShow
  <2>3. CASE ShowRecaptures(r) BY <2>3 DEF ShowRecaptures, Answers, besideShow
  <2>4. QED BY <1>6, <2>1, <2>2, <2>3 DEF Show
<1>7. CASE Environment \/ UNCHANGED vars
  BY <1>7 DEF Environment, EditSource, EditExternal, EditKey, ListingChanges, UpstreamToggles,
              beforeFiles, vars
<1>8. QED BY <1>1, <1>2, <1>3, <1>4, <1>5, <1>6, <1>7 DEF Next

\* The three invariants hold together.
LEMMA PublishInvariant == Spec => [](TypeOK /\ LockInv /\ PublishInv)
<1>1. Init => TypeOK /\ LockInv /\ PublishInv
  BY InitTypes, LocksInit, PublishInit
<1>2. TypeOK /\ LockInv /\ PublishInv /\ [Next]_vars => (TypeOK /\ LockInv /\ PublishInv)'
  BY DataTypes, PCTypes, LocksStep, PublishStep DEF TypeOK
<1>3. QED BY <1>1, <1>2, PTL DEF Spec

\* Only three actions replace the published snapshot.
LEMMA WhoPublishes ==
    ASSUME [Next]_vars
    PROVE  \/ UNCHANGED active
           \/ \E t \in Refreshers : RefreshPublishes(t)
           \/ TokensPublish
           \/ ConfigPublishes
<1> DEFINE Published == \/ UNCHANGED active
                        \/ \E t \in Refreshers : RefreshPublishes(t)
                        \/ TokensPublish
                        \/ ConfigPublishes
<1> USE DEF published
<1>1. ASSUME NEW t \in Refreshers, Refresh(t) PROVE Published
  BY <1>1 DEF Refresh, RefreshSkips, RefreshBegins, RefreshDiscovers, RefreshFails,
              RefreshRechecks, RefreshEnters, RefreshDrops, RefreshCompares, RefreshLoaded
<1>2. CASE ReloadTokens
  BY <1>2 DEF ReloadTokens, TokensSkip, TokensBegin, TokensLoad, TokensRead, TokensRejected,
              TokensEnter, TokensDrop, TokensCompare, TokensWakeConfig
<1>3. CASE ReloadConfig
  BY <1>3 DEF ReloadConfig, ConfigLoads, ConfigReadsKey, ConfigDiscovers, ConfigFails,
              ConfigRechecksSource, ConfigRechecksKey, ConfigLocks, ConfigEnters, ConfigDrops,
              ConfigCompares, ConfigLoaded
<1>4. CASE RefreshTimer \/ RefresherExits \/ MissWindowPasses \/ TokensWake \/ TokensExit
           \/ ConfigWakes \/ ConfigExits
  BY <1>4 DEF RefreshTimer, RefresherExits, MissWindowPasses, TokensWake, TokensExit,
              ConfigWakes, ConfigExits
<1>5. CASE RunStops \/ Run
  BY <1>5 DEF RunStops, Run, RunLocks, RunDrains, RunCancels, besideRun
<1>6. ASSUME NEW r \in Requests, Show(r) PROVE Published
  BY <1>6 DEF Show, ShowCaptures, ShowResolves, ShowRecaptures, besideShow
<1>7. CASE Environment \/ UNCHANGED vars
  BY <1>7 DEF Environment, EditSource, EditExternal, EditKey, ListingChanges, UpstreamToggles,
              beforeFiles, vars
<1>8. QED BY <1>1, <1>2, <1>3, <1>4, <1>5, <1>6, <1>7 DEF Next

\* No publisher stores a snapshot once draining is set.
THEOREM NothingPublishedAfterDrain == Spec => NothingAfterDrain
<1>1. PublishInv /\ [Next]_vars => [draining => UNCHANGED active]_vars
  <2> SUFFICES ASSUME PublishInv, [Next]_vars, draining PROVE UNCHANGED active
    OBVIOUS
  <2>1. ~TokensPublish /\ ~ConfigPublishes
    BY DEF TokensPublish, ConfigPublishes, PublishInv, Publishers, At
  <2>2. ASSUME NEW t \in Refreshers PROVE ~RefreshPublishes(t)
    BY DEF RefreshPublishes, PublishInv, Publishers, At
  <2>3. QED BY <2>1, <2>2, WhoPublishes
<1>2. QED BY PublishInvariant, <1>1, PTL DEF Spec, NothingAfterDrain
----------------------------------------------------------------------------
\* What is published or held is never newer than the file or list it came from.
VersionInv ==
    /\ active.cfg <= source.cfg /\ active.auth <= source.auth
    /\ active.key <= keyFile.version /\ active.catalog.listing <= listing
    /\ listing > 0
    /\ newest.inline <= source.auth /\ newest.external <= external.version
    /\ authState.inline <= source.auth /\ authState.external <= external.version
    /\ authJob.auth <= source.auth /\ authJob.inline <= source.auth
    /\ authJob.tokens.inline <= source.auth /\ authJob.tokens.external <= external.version
    /\ configJob.candidate.cfg <= source.cfg /\ configJob.listing <= listing
    /\ configJob.key <= keyFile.version /\ configJob.newKey <= keyFile.version
    /\ \A t \in Refreshers : refreshJob[t].listing <= listing

LEMMA VersionInit == Init => VersionInv
BY DEF Init, VersionInv, Store!FirstSnapshot, NoAuthJob, NoConfigJob, NoRefreshJob, NoSnapshot

LEMMA VersionStep == ASSUME TypeOK, PublishInv, VersionInv, [Next]_vars PROVE VersionInv'
<1> USE DEF TypeOK, DataTypeOK, VersionInv, Snapshots, Catalogs, Tokens, Configs, RefreshJobs,
            AuthJobs, ConfigJobs, NoAuthJob, NoConfigJob, NoRefreshJob, NoSnapshot
<1> USE DEF published, tokenReload, configReload, refreshing, environment
<1>1. CASE RefreshTimer \/ RefresherExits \/ MissWindowPasses
  BY <1>1 DEF RefreshTimer, RefresherExits, MissWindowPasses, besideRefresh
<1>2. ASSUME NEW t \in Refreshers, Refresh(t) PROVE VersionInv'
  <2> USE DEF besideRefresh, RefreshReturns
  <2>1. CASE RefreshSkips(t) BY <2>1 DEF RefreshSkips
  <2>2. CASE RefreshBegins(t) BY <2>2 DEF RefreshBegins
  <2>3. CASE RefreshDiscovers(t) BY <2>3 DEF RefreshDiscovers
  <2>4. CASE RefreshFails(t) BY <2>4 DEF RefreshFails
  <2>5. CASE RefreshRechecks(t) BY <2>5 DEF RefreshRechecks
  <2>6. CASE RefreshEnters(t) BY <2>6 DEF RefreshEnters
  <2>7. CASE RefreshDrops(t) BY <2>7 DEF RefreshDrops
  <2>8. CASE RefreshCompares(t) BY <2>8 DEF RefreshCompares
  <2>9. CASE RefreshPublishes(t)
    <3>1. latest[t] = active BY <2>9 DEF RefreshPublishes, PublishInv, Publishers, At
    <3>2. QED BY <2>9, <3>1 DEF RefreshPublishes
  <2>10. CASE RefreshLoaded(t) BY <2>10 DEF RefreshLoaded
  <2>11. QED BY <1>2, <2>1, <2>2, <2>3, <2>4, <2>5, <2>6, <2>7, <2>8, <2>9, <2>10 DEF Refresh
<1>3. CASE TokensWake \/ TokensExit \/ ReloadTokens
  <2> USE DEF besideTokens, TokensReturn
  <2>1. CASE TokensWake \/ TokensExit BY <2>1 DEF TokensWake, TokensExit
  <2>2. CASE TokensSkip BY <2>2 DEF TokensSkip
  <2>3. CASE TokensBegin BY <2>3 DEF TokensBegin
  <2>4. CASE TokensLoad BY <2>4 DEF TokensLoad
  <2>5. CASE TokensRead BY <2>5 DEF TokensRead, Effective
  <2>6. CASE TokensRejected BY <2>6 DEF TokensRejected
  <2>7. CASE TokensEnter BY <2>7 DEF TokensEnter
  <2>8. CASE TokensDrop BY <2>8 DEF TokensDrop
  <2>9. CASE TokensCompare BY <2>9 DEF TokensCompare
  <2>10. CASE TokensPublish
    <3>1. latest["auth"] = active BY <2>10 DEF TokensPublish, PublishInv, Publishers, At
    <3>2. QED BY <2>10, <3>1 DEF TokensPublish, Store!Seen
  <2>11. CASE TokensWakeConfig BY <2>11 DEF TokensWakeConfig
  <2>12. QED BY <1>3, <2>1, <2>2, <2>3, <2>4, <2>5, <2>6, <2>7, <2>8, <2>9, <2>10, <2>11
         DEF ReloadTokens
<1>4. CASE ConfigWakes \/ ConfigExits \/ ReloadConfig
  <2> USE DEF besideConfig, ConfigGivesUp
  <2>1. CASE ConfigWakes
    <3>1. UNCHANGED <<published, authState, authJob, refreshing, environment>>
      BY <2>1 DEF ConfigWakes
    <3>2. CASE UNCHANGED configJob BY <3>1, <3>2
    <3>3. CASE configJob' = [configJob EXCEPT !.gen = active.gen, !.cfg = active.cfg,
                                              !.key = active.key, !.client = active.client]
      <4>1. /\ configJob'.candidate = configJob.candidate /\ configJob'.listing = configJob.listing
            /\ configJob'.key = active.key /\ configJob'.newKey = configJob.newKey
        BY <3>3
      <4>2. QED BY <3>1, <4>1
    <3>4. QED BY <2>1, <3>2, <3>3 DEF ConfigWakes
  <2>2. CASE ConfigExits BY <2>2 DEF ConfigExits
  <2>3. CASE ConfigLoads
    <3>1. UNCHANGED <<published, authState, authJob, refreshing, environment>>
      BY <2>3 DEF ConfigLoads
    <3>2. CASE configJob' = NoConfigJob BY <3>1, <3>2
    <3>3. CASE configJob' = [configJob EXCEPT !.candidate = source]
      <4>1. /\ configJob'.candidate = source /\ configJob'.listing = configJob.listing
            /\ configJob'.key = configJob.key /\ configJob'.newKey = configJob.newKey
        BY <3>3
      <4>2. QED BY <3>1, <4>1
    <3>4. QED BY <2>3, <3>2, <3>3 DEF ConfigLoads
  <2>4. CASE ConfigReadsKey
    <3>1. UNCHANGED <<published, authState, authJob, refreshing, environment>>
      BY <2>4 DEF ConfigReadsKey
    <3>2. CASE configJob' = NoConfigJob BY <3>1, <3>2
    <3>3. ASSUME NEW key \in {keyFile.version, configJob.key},
                 configJob' = [configJob EXCEPT !.newKey = key]
          PROVE  VersionInv'
      <4>1. /\ configJob'.candidate = configJob.candidate /\ configJob'.listing = configJob.listing
            /\ configJob'.key = configJob.key /\ configJob'.newKey = key
        BY <3>3
      <4>2. QED BY <3>1, <4>1
    <3>4. QED BY <2>4, <3>2, <3>3 DEF ConfigReadsKey
  <2>5. CASE ConfigDiscovers BY <2>5 DEF ConfigDiscovers
  <2>6. CASE ConfigFails BY <2>6 DEF ConfigFails
  <2>7. CASE ConfigRechecksSource BY <2>7 DEF ConfigRechecksSource
  <2>8. CASE ConfigRechecksKey BY <2>8 DEF ConfigRechecksKey
  <2>9. CASE ConfigLocks BY <2>9 DEF ConfigLocks
  <2>10. CASE ConfigEnters BY <2>10 DEF ConfigEnters
  <2>11. CASE ConfigDrops BY <2>11 DEF ConfigDrops
  <2>12. CASE ConfigCompares BY <2>12 DEF ConfigCompares
  <2>13. CASE ConfigPublishes
    <3>1. latest["config"] = active BY <2>13 DEF ConfigPublishes, PublishInv, Publishers, At
    <3>2. QED BY <2>13, <3>1 DEF ConfigPublishes
  <2>14. CASE ConfigLoaded BY <2>14 DEF ConfigLoaded
  <2>15. QED BY <1>4, <2>1, <2>2, <2>3, <2>4, <2>5, <2>6, <2>7, <2>8, <2>9, <2>10, <2>11, <2>12,
                <2>13, <2>14
         DEF ReloadConfig
<1>5. CASE RunStops \/ Run
  <2> USE DEF besideRun
  <2>1. CASE RunStops BY <2>1 DEF RunStops
  <2>2. CASE RunLocks BY <2>2 DEF RunLocks
  <2>3. CASE RunDrains BY <2>3 DEF RunDrains
  <2>4. CASE RunCancels BY <2>4 DEF RunCancels
  <2>5. QED BY <1>5, <2>1, <2>2, <2>3, <2>4 DEF Run
<1>6. ASSUME NEW r \in Requests, Show(r) PROVE VersionInv'
  BY <1>6 DEF Show, ShowCaptures, ShowResolves, ShowRecaptures, besideShow
<1>7. CASE Environment
  <2> USE DEF beforeFiles
  <2>1. CASE EditSource
    <3>1. source'.cfg >= source.cfg /\ source'.auth >= source.auth
          /\ source'.cfg \in Nat /\ source'.auth \in Nat
      BY <2>1 DEF EditSource
    <3>2. QED BY <2>1, <3>1 DEF EditSource
  <2>2. CASE EditExternal BY <2>2 DEF EditExternal
  <2>3. CASE EditKey
    <3>1. keyFile'.version = keyFile.version + 1 BY <2>3 DEF EditKey
    <3>2. QED BY <2>3, <3>1 DEF EditKey
  <2>4. CASE ListingChanges BY <2>4 DEF ListingChanges
  <2>5. CASE UpstreamToggles BY <2>5 DEF UpstreamToggles
  <2>6. QED BY <1>7, <2>1, <2>2, <2>3, <2>4, <2>5 DEF Environment
<1>8. CASE UNCHANGED vars BY <1>8 DEF vars
<1>9. QED BY <1>1, <1>2, <1>3, <1>4, <1>5, <1>6, <1>7, <1>8 DEF Next
----------------------------------------------------------------------------
(* Each publisher's job belongs to the publisher: other steps leave it and  *)
(* its place alone.                                                         *)

Alone(t) == \A u \in Threads \ {t} : pc'[u] = pc[u]
RefreshFrame(t) ==
    /\ Refresh(t) /\ Alone(t)
    /\ \A u \in Refreshers \ {t} : refreshJob'[u] = refreshJob[u]
    /\ UNCHANGED <<authJob, authState, newest, configJob>>
TokensFrame ==
    /\ TokensWake \/ TokensExit \/ ReloadTokens
    /\ Alone("auth") /\ UNCHANGED <<refreshJob, configJob>>
ConfigFrame ==
    /\ ConfigWakes \/ ConfigExits \/ ReloadConfig
    /\ Alone("config") /\ UNCHANGED <<refreshJob, authJob, authState, newest>>
OutsideFrame ==
    /\ UNCHANGED <<active, refreshJob, authJob, authState, newest, configJob>>
    /\ pc'["auth"] = pc["auth"] /\ pc'["config"] = pc["config"]
    /\ \A t \in Refreshers : pc'[t] \in Refreshing => pc'[t] = pc[t]

\* A goroutine's move leaves the other goroutines where they are.
LEMMA GotoAlone == ASSUME PCTypeOK, NEW t \in Threads, NEW label, Goto(t, label)
                   PROVE  Alone(t)
BY DEF PCTypeOK, Goto, Alone

LEMMA Frames ==
    ASSUME TypeOK, [Next]_vars
    PROVE  (\E t \in Refreshers : RefreshFrame(t)) \/ TokensFrame \/ ConfigFrame \/ OutsideFrame
<1> USE DEF published, tokenReload, configReload, refreshing
<1>1. ASSUME NEW t \in Refreshers, Refresh(t) PROVE RefreshFrame(t)
  <2>1. UNCHANGED <<authJob, authState, newest, configJob>>
    BY <1>1 DEF Refresh, RefreshSkips, RefreshBegins, RefreshDiscovers, RefreshFails,
                RefreshRechecks, RefreshEnters, RefreshDrops, RefreshCompares, RefreshPublishes,
                RefreshLoaded, besideRefresh
  <2>2. \E label : Goto(t, label)
    BY <1>1 DEF Refresh, RefreshSkips, RefreshBegins, RefreshDiscovers, RefreshFails,
                RefreshRechecks, RefreshEnters, RefreshDrops, RefreshCompares, RefreshPublishes,
                RefreshLoaded, RefreshReturns, EnterPublish, Passes
  <2>3. Alone(t) BY <2>2, GotoAlone DEF TypeOK, Threads, Publishers
  <2>4. refreshJob' = refreshJob \/ \E job : refreshJob' = [refreshJob EXCEPT ![t] = job]
    BY <1>1 DEF Refresh, RefreshSkips, RefreshBegins, RefreshDiscovers, RefreshFails,
                RefreshRechecks, RefreshEnters, RefreshDrops, RefreshCompares, RefreshPublishes,
                RefreshLoaded, RefreshReturns
  <2>5. \A u \in Refreshers \ {t} : refreshJob'[u] = refreshJob[u]
    BY <2>4 DEF TypeOK, DataTypeOK
  <2>6. QED BY <1>1, <2>1, <2>3, <2>5 DEF RefreshFrame
<1>2. ASSUME TokensWake \/ TokensExit \/ ReloadTokens PROVE TokensFrame
  <2>1. UNCHANGED <<refreshJob, configJob>>
    BY <1>2 DEF TokensWake, TokensExit, ReloadTokens, TokensSkip, TokensBegin, TokensLoad,
                TokensRead, TokensRejected, TokensEnter, TokensDrop, TokensCompare,
                TokensPublish, TokensWakeConfig, besideTokens
  <2>2. \E label : Goto("auth", label)
    BY <1>2 DEF TokensWake, TokensExit, ReloadTokens, TokensSkip, TokensBegin, TokensLoad,
                TokensRead, TokensRejected, TokensEnter, TokensDrop, TokensCompare,
                TokensPublish, TokensWakeConfig, TokensReturn, EnterPublish, Passes
  <2>3. Alone("auth") BY <2>2, GotoAlone DEF TypeOK, Threads, Publishers
  <2>4. QED BY <1>2, <2>1, <2>3 DEF TokensFrame
<1>3. ASSUME ConfigWakes \/ ConfigExits \/ ReloadConfig PROVE ConfigFrame
  <2>1. UNCHANGED <<refreshJob, authJob, authState, newest>>
    BY <1>3 DEF ConfigWakes, ConfigExits, ReloadConfig, ConfigLoads, ConfigReadsKey,
                ConfigDiscovers, ConfigFails, ConfigRechecksSource, ConfigRechecksKey,
                ConfigLocks, ConfigEnters, ConfigDrops, ConfigCompares, ConfigPublishes,
                ConfigLoaded, besideConfig
  <2>2. UNCHANGED pc \/ \E label : Goto("config", label)
    BY <1>3 DEF ConfigWakes, ConfigExits, ReloadConfig, ConfigLoads, ConfigReadsKey,
                ConfigDiscovers, ConfigFails, ConfigRechecksSource, ConfigRechecksKey,
                ConfigLocks, ConfigEnters, ConfigDrops, ConfigCompares, ConfigPublishes,
                ConfigLoaded, ConfigGivesUp, EnterPublish, Passes
  <2>3. Alone("config") BY <2>2, GotoAlone DEF TypeOK, Threads, Publishers, Alone
  <2>4. QED BY <1>3, <2>1, <2>3 DEF ConfigFrame
<1>4. CASE RefreshTimer \/ RefresherExits \/ MissWindowPasses
  <2>1. UNCHANGED <<active, refreshJob, authJob, authState, newest, configJob>>
    BY <1>4 DEF RefreshTimer, RefresherExits, MissWindowPasses, besideRefresh
  <2>2. UNCHANGED pc \/ Goto(Refresher, "lock") \/ Goto(Refresher, "exited")
    BY <1>4 DEF RefreshTimer, RefresherExits, MissWindowPasses
  <2>3. OutsideFrame
    BY <2>1, <2>2, RequestsAssumption
    DEF OutsideFrame, TypeOK, PCTypeOK, Goto, Refreshing, Threads, Publishers, Refreshers, Refresher
  <2>4. QED BY <2>3
<1>5. CASE RunStops \/ Run
  <2>1. UNCHANGED <<active, refreshJob, authJob, authState, newest, configJob>>
    BY <1>5 DEF RunStops, Run, RunLocks, RunDrains, RunCancels, besideRun
  <2>2. \E label : Goto("main", label)
    BY <1>5 DEF RunStops, Run, RunLocks, RunDrains, RunCancels
  <2>3. Alone("main") BY <2>2, GotoAlone DEF TypeOK, Threads
  <2>4. OutsideFrame
    BY <2>1, <2>3, RequestsAssumption
    DEF OutsideFrame, Alone, Threads, Publishers, Refreshers, Refresher
  <2>5. QED BY <2>4
<1>6. ASSUME NEW r \in Requests, Show(r) PROVE OutsideFrame
  <2>1. UNCHANGED <<active, refreshJob, authJob, authState, newest, configJob>>
    BY <1>6 DEF Show, ShowCaptures, ShowResolves, ShowRecaptures, besideShow
  <2>2. \E label \in {"resolve", "lock", "done"} : Goto(r, label)
    BY <1>6 DEF Show, ShowCaptures, ShowResolves, ShowRecaptures, Answers
  <2>3. Alone(r) BY <2>2, GotoAlone DEF TypeOK, Threads, Publishers, Refreshers
  <2>4. pc'[r] \notin Refreshing
    BY <2>2 DEF Goto, Refreshing, TypeOK, PCTypeOK, Threads, Publishers, Refreshers
  <2>5. QED
    BY <2>1, <2>3, <2>4, RequestsAssumption
    DEF OutsideFrame, Alone, Threads, Publishers, Refreshers
<1>7. CASE Environment \/ UNCHANGED vars
  BY <1>7 DEF Environment, EditSource, EditExternal, EditKey, ListingChanges, UpstreamToggles,
              beforeFiles, vars, OutsideFrame
<1>8. QED BY <1>1, <1>2, <1>3, <1>4, <1>5, <1>6, <1>7 DEF Next
----------------------------------------------------------------------------
(* What the publishers hold fits what is published.                         *)

RefreshWorking == {"discover", "recheck", "publish", "compare", "store"}
ConfigWorking == {"load", "key", "discover", "source", "keyAgain", "lock", "publish", "compare",
                  "store"}

\* What a refresher took before discovery is the published generation's, or older,
\* in which case the generations tell.
RefreshJobOK(t) ==
    /\ pc[t] \in RefreshWorking => refreshJob[t].gen <= active.gen
    /\ pc[t] \in RefreshWorking /\ refreshJob[t].gen = active.gen =>
            refreshJob[t].client = active.client
    /\ pc[t] \in RefreshWorking \ {"discover"} /\ refreshJob[t].gen = active.gen =>
            refreshJob[t].listing >= active.catalog.listing
    /\ pc[t] \in RefreshWorking \ {"discover"} => refreshJob[t].listing > 0
    /\ pc[t] = "store" => refreshJob[t].gen = active.gen

\* While authMu is held no generation opens, and nothing read is a revoked version.
TokensJobOK ==
    /\ pc["auth"] \in TokenReading => authJob.gen = active.gen /\ authJob.auth >= active.auth
    /\ pc["auth"] \in TokenReading \ {"load"} => Store!NotRevived(authJob.inline, newest.inline)
    /\ pc["auth"] \in {"publish", "compare", "store"} =>
            /\ Store!NotRevived(authJob.tokens.inline, newest.inline)
            /\ Store!NotRevived(authJob.tokens.external, newest.external)

\* Only the configuration reloader replaces configuration, key and client.
ConfigJobOK ==
    /\ pc["config"] \in ConfigWorking =>
            /\ configJob.gen = active.gen /\ configJob.client = active.client
            /\ configJob.cfg = active.cfg /\ configJob.key = active.key
    /\ pc["config"] \in ConfigWorking \ {"load"} => configJob.candidate.cfg >= active.cfg
    /\ pc["config"] \in ConfigWorking \ {"load", "key"} =>
            /\ configJob.newKey >= active.key
            /\ configJob.candidate.cfg # active.cfg \/ configJob.newKey # active.key
    /\ pc["config"] \in ConfigWorking \ {"load", "key", "discover"} => configJob.listing > 0

\* A publisher about to store `loaded` has stored a catalog.
ReadyOK ==
    loaded \/ (\E t \in Publishers : pc[t] = "loaded") => active.catalog.listing > 0

PublishedOK == Coherent(active) /\ RevokedStayRevoked /\ AuthStatePublished

JobInv ==
    /\ \A t \in Refreshers : RefreshJobOK(t)
    /\ TokensJobOK /\ ConfigJobOK /\ PublishedOK /\ ReadyOK

LEMMA JobsInit == Init => JobInv
<1> SUFFICES ASSUME Init PROVE JobInv
  OBVIOUS
<1>1. /\ \A t \in Refreshers : pc[t] \in {"lock", "new"}
      /\ pc["auth"] = "idle" /\ pc["config"] = "idle" /\ ~loaded
  BY RequestsAssumption DEF Init, Threads, Publishers, Refreshers, Refresher
<1>2. PublishedOK
  BY DEF Init, PublishedOK, Coherent, RevokedStayRevoked, AuthStatePublished, Store!FirstSnapshot
<1>3. \A t \in Refreshers : RefreshJobOK(t)
  BY <1>1 DEF RefreshJobOK, RefreshWorking
<1>4. TokensJobOK /\ ConfigJobOK
  BY <1>1 DEF TokensJobOK, ConfigJobOK, TokenReading, ConfigWorking
<1>5. ReadyOK BY <1>1 DEF ReadyOK, Publishers
<1>6. QED BY <1>2, <1>3, <1>4, <1>5 DEF JobInv

\* A publication changes only its own part of the published snapshot.
LEMMA Effects ==
    ASSUME TypeOK, PublishInv
    PROVE  /\ \A t \in Refreshers : RefreshPublishes(t) =>
                 active' = [active EXCEPT !.catalog = [client  |-> refreshJob[t].client,
                                                       listing |-> refreshJob[t].listing]]
           /\ TokensPublish =>
                 active' = [active EXCEPT !.auth = authJob.auth, !.tokens = authJob.tokens]
           /\ ConfigPublishes =>
                 active' = [cfg     |-> configJob.candidate.cfg,
                            key     |-> configJob.newKey,
                            auth    |-> active.auth,
                            tokens  |-> active.tokens,
                            client  |-> NewClient,
                            catalog |-> [client |-> NewClient, listing |-> configJob.listing],
                            gen     |-> active.gen + 1]
BY DEF PublishInv, Publishers, RefreshPublishes, TokensPublish, ConfigPublishes, At

\* The parts of the snapshot each publication leaves alone.
LEMMA Kept ==
    ASSUME TypeOK, PublishInv
    PROVE  /\ \A t \in Refreshers : RefreshPublishes(t) =>
                 /\ active'.gen = active.gen /\ active'.client = active.client
                 /\ active'.cfg = active.cfg /\ active'.key = active.key
                 /\ active'.auth = active.auth /\ active'.tokens = active.tokens
           /\ TokensPublish =>
                 /\ active'.gen = active.gen /\ active'.client = active.client
                 /\ active'.cfg = active.cfg /\ active'.key = active.key
                 /\ active'.catalog = active.catalog
                 /\ active'.auth = authJob.auth /\ active'.tokens = authJob.tokens
           /\ ConfigPublishes =>
                 /\ active'.gen = active.gen + 1
                 /\ active'.auth = active.auth /\ active'.tokens = active.tokens
<1>1. active \in Snapshots BY DEF TypeOK, DataTypeOK
<1>2. ASSUME NEW t \in Refreshers, RefreshPublishes(t)
      PROVE  /\ active'.gen = active.gen /\ active'.client = active.client
             /\ active'.cfg = active.cfg /\ active'.key = active.key
             /\ active'.auth = active.auth /\ active'.tokens = active.tokens
  <2>1. active' = [active EXCEPT !.catalog = [client  |-> refreshJob[t].client,
                                              listing |-> refreshJob[t].listing]]
    BY <1>2, Effects
  <2>2. QED BY <1>1, <2>1 DEF Snapshots
<1>3. ASSUME TokensPublish
      PROVE  /\ active'.gen = active.gen /\ active'.client = active.client
             /\ active'.cfg = active.cfg /\ active'.key = active.key
             /\ active'.catalog = active.catalog
             /\ active'.auth = authJob.auth /\ active'.tokens = authJob.tokens
  <2>1. active' = [active EXCEPT !.auth = authJob.auth, !.tokens = authJob.tokens]
    BY <1>3, Effects
  <2>2. QED BY <1>1, <2>1 DEF Snapshots
<1>4. ConfigPublishes => /\ active'.gen = active.gen + 1
                         /\ active'.auth = active.auth /\ active'.tokens = active.tokens
  BY Effects
<1>5. QED BY <1>2, <1>3, <1>4

\* A refresher's own step keeps its job right, given that nothing was published.
LEMMA OwnRefreshStep ==
    ASSUME TypeOK, PublishInv, VersionInv, NEW t \in Refreshers, RefreshJobOK(t), Refresh(t),
           UNCHANGED active
    PROVE  RefreshJobOK(t)'
<1> USE DEF RefreshJobOK, RefreshWorking, At, Goto
<1>0. /\ active \in Snapshots /\ refreshJob \in [Refreshers -> RefreshJobs]
      /\ pc \in [Threads -> RefresherLabels \cup ShowLabels \cup TokensLabels \cup ConfigLabels
                            \cup RunLabels]
      /\ t \in Threads /\ t \in Publishers /\ listing \in Nat
  BY DEF TypeOK, DataTypeOK, PCTypeOK, Threads, Publishers
<1>1. CASE RefreshSkips(t) \/ RefreshFails(t) \/ RefreshDrops(t) \/ RefreshLoaded(t)
  <2>1. pc'[t] \in {"idle", "recapture"}
    BY <1>0, <1>1 DEF RefreshSkips, RefreshFails, RefreshDrops, RefreshLoaded, RefreshReturns
  <2>2. QED BY <2>1
<1>2. CASE RefreshBegins(t)
  <2>1. pc'[t] = "discover" BY <1>0, <1>2 DEF RefreshBegins
  <2>2. refreshJob'[t].gen = active.gen /\ refreshJob'[t].client = active.client
    BY <1>0, <1>2 DEF RefreshBegins, RefreshJobs
  <2>3. QED BY <1>0, <2>1, <2>2 DEF Snapshots
<1>3. CASE RefreshDiscovers(t)
  <2>1. pc[t] = "discover" /\ pc'[t] = "recheck" BY <1>0, <1>3 DEF RefreshDiscovers
  <2>2. /\ refreshJob'[t].gen = refreshJob[t].gen /\ refreshJob'[t].client = refreshJob[t].client
        /\ refreshJob'[t].listing = listing
    BY <1>0, <1>3 DEF RefreshDiscovers, RefreshJobs
  <2>3. listing >= active.catalog.listing /\ listing > 0
    BY <1>0 DEF VersionInv, Snapshots, Catalogs
  <2>4. QED BY <2>1, <2>2, <2>3
<1>4. CASE RefreshRechecks(t)
  <2>1. pc[t] = "recheck" /\ (\/ pc'[t] = "publish" /\ UNCHANGED refreshJob
                              \/ pc'[t] \in {"idle", "recapture"})
    BY <1>0, <1>4 DEF RefreshRechecks, RefreshReturns
  <2>2. QED BY <2>1
<1>5. CASE RefreshEnters(t)
  <2>1. pc[t] = "publish" /\ pc'[t] = "compare" /\ UNCHANGED refreshJob
    BY <1>0, <1>5 DEF RefreshEnters, EnterPublish, refreshing
  <2>2. QED BY <2>1
<1>6. CASE RefreshCompares(t)
  <2>1. pc[t] = "compare" /\ pc'[t] = "store" /\ UNCHANGED refreshJob
    BY <1>0, <1>6 DEF RefreshCompares, Passes, refreshing
  <2>2. refreshJob[t].gen = active.gen
    BY <1>0, <1>6, <2>1 DEF RefreshCompares, Passes, MayPublish, PublishInv
  <2>3. QED BY <2>1, <2>2
<1>7. CASE RefreshPublishes(t)
  <2>1. pc'[t] = "loaded" BY <1>0, <1>7 DEF RefreshPublishes
  <2>2. QED BY <2>1
<1>8. QED BY <1>1, <1>2, <1>3, <1>4, <1>5, <1>6, <1>7 DEF Refresh

LEMMA RefreshJobStep ==
    ASSUME TypeOK, LockInv, PublishInv, VersionInv, JobInv, [Next]_vars, NEW t \in Refreshers
    PROVE  RefreshJobOK(t)'
<1>0. RefreshJobOK(t) /\ active \in Snapshots /\ refreshJob[t] \in RefreshJobs
      /\ t \in Threads /\ t \in Publishers
  BY DEF JobInv, TypeOK, DataTypeOK, Threads, Publishers
<1> USE DEF RefreshJobOK, RefreshWorking
<1>1. ASSUME NEW u \in Refreshers, RefreshPublishes(u) PROVE RefreshJobOK(t)'
  <2>1. Goto(u, "loaded") /\ UNCHANGED refreshJob /\ pc[u] = "store"
    BY <1>1 DEF RefreshPublishes, refreshing, At
  <2>2. CASE u = t
    <3>1. pc'[t] = "loaded" BY <1>0, <2>1, <2>2 DEF Goto, TypeOK, PCTypeOK
    <3>2. QED BY <3>1
  <2>3. CASE u # t
    <3>1. pc'[t] = pc[t] BY <2>1, <2>3 DEF Goto, TypeOK, PCTypeOK
    <3>2. pc[t] \notin Refreshing BY <2>1, <2>3 DEF LockInv, Refreshing
    <3>3. QED BY <3>1, <3>2 DEF Refreshing
  <2>4. QED BY <2>2, <2>3
<1>2. CASE TokensPublish
  <2>1. Goto("auth", "wake") /\ UNCHANGED refreshJob
    BY <1>2 DEF TokensPublish, TokensReturn, besideTokens, refreshing
  <2>2. pc'[t] = pc[t]
    BY <2>1, RequestsAssumption DEF Goto, TypeOK, PCTypeOK, Refreshers, Refresher
  <2>3. /\ active'.gen = active.gen /\ active'.client = active.client
        /\ active'.catalog = active.catalog
    BY <1>2, Kept
  <2>4. QED BY <1>0, <2>1, <2>2, <2>3
<1>3. CASE ConfigPublishes
  <2>1. Goto("config", "loaded") /\ UNCHANGED refreshJob /\ pc["config"] = "store"
    BY <1>3 DEF ConfigPublishes, besideConfig, refreshing, At
  <2>2. pc'[t] = pc[t] /\ t # "config"
    BY <2>1, RequestsAssumption DEF Goto, TypeOK, PCTypeOK, Refreshers, Refresher
  <2>3. active'.gen = active.gen + 1 BY <1>3, Kept
  <2>4. pc[t] # "store"
    BY <1>0, <2>1, <2>2 DEF LockInv, Publishing, Publishers
  <2>5. active.gen \in Nat /\ refreshJob[t].gen \in Nat BY <1>0 DEF Snapshots, RefreshJobs
  <2>6. QED BY <1>0, <2>1, <2>2, <2>3, <2>4, <2>5
<1>4. CASE UNCHANGED active
  <2>1. CASE RefreshFrame(t) BY <1>0, <1>4, <2>1, OwnRefreshStep DEF RefreshFrame
  <2>2. ASSUME refreshJob'[t] = refreshJob[t], pc'[t] \in Refreshing => pc'[t] = pc[t]
        PROVE  RefreshJobOK(t)'
    BY <1>0, <1>4, <2>2 DEF Refreshing
  <2>3. ASSUME NEW u \in Refreshers, u # t, RefreshFrame(u) PROVE RefreshJobOK(t)'
    BY <1>0, <2>2, <2>3 DEF RefreshFrame, Alone
  <2>4. CASE TokensFrame \/ ConfigFrame
    <3>1. t # "auth" /\ t # "config" BY RequestsAssumption DEF Refreshers, Refresher
    <3>2. QED BY <1>0, <2>2, <2>4, <3>1 DEF TokensFrame, ConfigFrame, Alone
  <2>5. CASE OutsideFrame BY <2>2, <2>5 DEF OutsideFrame
  <2>6. QED BY <2>1, <2>3, <2>4, <2>5, Frames
<1>5. QED BY <1>1, <1>2, <1>3, <1>4, WhoPublishes

\* A token reload's own step keeps what it read usable.
LEMMA OwnTokensStep ==
    ASSUME TypeOK, PublishInv, VersionInv, JobInv, TokensWake \/ TokensExit \/ ReloadTokens
    PROVE  TokensJobOK'
<1> USE DEF TokensJobOK, TokenReading, At, Goto
<1>0. /\ active \in Snapshots /\ authJob \in AuthJobs /\ newest \in Tokens
      /\ authState \in Tokens /\ source \in Configs
      /\ external \in [version : Nat, kind : AllExternalKinds]
      /\ pc \in [Threads -> RefresherLabels \cup ShowLabels \cup TokensLabels \cup ConfigLabels
                            \cup RunLabels]
      /\ "auth" \in Threads /\ "auth" \in Publishers
  BY DEF TypeOK, DataTypeOK, PCTypeOK, Threads, Publishers
<1>1. TokensJobOK BY DEF JobInv
<1>2. CASE TokensWake \/ TokensExit \/ TokensSkip \/ TokensRejected \/ TokensDrop
           \/ TokensPublish \/ TokensWakeConfig
  <2>1. pc'["auth"] \in {"lock", "exited", "wake", "idle"}
    BY <1>0, <1>2 DEF TokensWake, TokensExit, TokensSkip, TokensRejected, TokensDrop,
                      TokensPublish, TokensWakeConfig, TokensReturn
  <2>2. QED BY <2>1
<1>3. CASE TokensBegin
  <2>1. pc'["auth"] = "load" /\ UNCHANGED active BY <1>0, <1>3 DEF TokensBegin, published
  <2>2. authJob'.gen = active.gen /\ authJob'.auth = active.auth
    BY <1>0, <1>3 DEF TokensBegin, AuthJobs
  <2>3. QED BY <1>0, <2>1, <2>2 DEF Snapshots
<1>4. CASE TokensLoad
  <2>1. pc["auth"] = "load" /\ pc'["auth"] = "read" /\ UNCHANGED <<active, newest>>
    BY <1>0, <1>4 DEF TokensLoad, published
  <2>2. /\ authJob'.gen = authJob.gen /\ authJob'.auth \in {authJob.auth, source.auth}
        /\ authJob'.inline \in {source.auth, 0}
    BY <1>0, <1>4 DEF TokensLoad, AuthJobs
  <2>3. source.auth >= active.auth /\ source.auth >= newest.inline
    BY <1>0 DEF VersionInv, Configs, Snapshots, Tokens
  <2>4. QED BY <1>1, <2>1, <2>2, <2>3 DEF Store!NotRevived
<1>5. CASE TokensRead
  <2>1. pc["auth"] = "read" /\ pc'["auth"] = "publish" /\ UNCHANGED <<active, newest>>
    BY <1>0, <1>5 DEF TokensRead, published
  <2>2. PICK i \in Effective(authState.inline, authJob.inline, authJob.inline # 0),
             e \in Effective(authState.external, external.version, external.kind = "good") :
          authJob' = [authJob EXCEPT !.tokens = [inline |-> i, external |-> e]]
    BY <1>5 DEF TokensRead
  <2>3. /\ authJob'.gen = authJob.gen /\ authJob'.auth = authJob.auth
        /\ authJob'.inline = authJob.inline
        /\ authJob'.tokens.inline = i /\ authJob'.tokens.external = e
    BY <1>0, <2>2 DEF AuthJobs
  <2>4. authState.inline \in {0, newest.inline} /\ authState.external \in {0, newest.external}
    BY DEF JobInv, PublishedOK, RevokedStayRevoked, AuthStatePublished
  <2>5. Store!NotRevived(i, newest.inline)
    BY <1>0, <1>1, <2>1, <2>4 DEF Effective, Store!NotRevived, Tokens
  <2>6. external.version >= newest.external BY <1>0 DEF VersionInv, Tokens
  <2>7. Store!NotRevived(e, newest.external)
    BY <1>0, <2>4, <2>6 DEF Effective, Store!NotRevived, Tokens
  <2>8. QED BY <1>1, <2>1, <2>3, <2>5, <2>7
<1>6. CASE TokensEnter \/ TokensCompare
  <2>1. /\ pc["auth"] \in {"publish", "compare"} /\ pc'["auth"] \in {"compare", "store"}
        /\ UNCHANGED <<active, newest, authJob>>
    BY <1>0, <1>6 DEF TokensEnter, TokensCompare, EnterPublish, Passes, published, tokenReload
  <2>2. QED BY <1>1, <2>1
<1>7. QED BY <1>2, <1>3, <1>4, <1>5, <1>6 DEF ReloadTokens

LEMMA TokensJobStep ==
    ASSUME TypeOK, LockInv, PublishInv, VersionInv, JobInv, [Next]_vars
    PROVE  TokensJobOK'
<1>0. TokensJobOK /\ active \in Snapshots BY DEF JobInv, TypeOK, DataTypeOK
<1>1. CASE TokensFrame BY <1>1, OwnTokensStep DEF TokensFrame
<1>2. ASSUME UNCHANGED <<authJob, newest>>, pc'["auth"] = pc["auth"],
             pc["auth"] \in TokenReading => active'.gen = active.gen /\ active'.auth = active.auth
      PROVE  TokensJobOK'
  <2>1. CASE pc["auth"] \in TokenReading BY <1>0, <1>2, <2>1 DEF TokensJobOK
  <2>2. CASE pc["auth"] \notin TokenReading BY <1>2, <2>2 DEF TokensJobOK, TokenReading
  <2>3. QED BY <2>1, <2>2
<1>3. ASSUME NEW t \in Refreshers, RefreshFrame(t) PROVE TokensJobOK'
  <2>1. t # "auth" /\ "auth" \in Threads
    BY RequestsAssumption DEF Refreshers, Refresher, Threads, Publishers
  <2>2. UNCHANGED <<authJob, newest>> /\ pc'["auth"] = pc["auth"]
    BY <1>3, <2>1 DEF RefreshFrame, Alone
  <2>3. ~TokensPublish /\ ~ConfigPublishes
    <3>1. TokensPublish => pc'["auth"] # pc["auth"]
      BY DEF TokensPublish, TokensReturn, Goto, At, TypeOK, PCTypeOK, Threads, Publishers
    <3>2. ConfigPublishes => pc'["config"] # pc["config"]
      BY DEF ConfigPublishes, Goto, At, TypeOK, PCTypeOK, Threads, Publishers
    <3>3. pc'["config"] = pc["config"]
      BY <1>3, RequestsAssumption
      DEF RefreshFrame, Alone, Refreshers, Refresher, Threads, Publishers
    <3>4. QED BY <2>2, <3>1, <3>2, <3>3
  <2>4. active'.gen = active.gen /\ active'.auth = active.auth BY <2>3, WhoPublishes, Kept
  <2>5. QED BY <1>2, <2>2, <2>4
<1>4. CASE ConfigFrame
  <2>1. UNCHANGED <<authJob, newest>> /\ pc'["auth"] = pc["auth"]
    BY <1>4 DEF ConfigFrame, Alone, Threads, Publishers
  <2>2. ~TokensPublish
    BY <2>1 DEF TokensPublish, TokensReturn, Goto, At, TypeOK, PCTypeOK, Threads, Publishers
  <2>3. ConfigPublishes => pc["auth"] \notin TokenReading
    BY DEF ConfigPublishes, At, LockInv
  <2>4. CASE ConfigPublishes BY <1>2, <2>1, <2>3, <2>4
  <2>5. CASE ~ConfigPublishes BY <1>2, <2>1, <2>2, <2>5, WhoPublishes, Kept
  <2>6. QED BY <2>4, <2>5
<1>5. CASE OutsideFrame BY <1>2, <1>5 DEF OutsideFrame
<1>6. QED BY <1>1, <1>3, <1>4, <1>5, Frames

\* A configuration reload's own step keeps its candidate ahead of what is published.
LEMMA OwnConfigStep ==
    ASSUME TypeOK, PublishInv, VersionInv, JobInv, ConfigWakes \/ ConfigExits \/ ReloadConfig
    PROVE  ConfigJobOK'
<1> USE DEF ConfigJobOK, ConfigWorking, At, Goto
<1>0. /\ active \in Snapshots /\ configJob \in ConfigJobs /\ source \in Configs
      /\ keyFile \in [version : Nat, readable : BOOLEAN]
      /\ pc \in [Threads -> RefresherLabels \cup ShowLabels \cup TokensLabels \cup ConfigLabels
                            \cup RunLabels]
      /\ "config" \in Threads /\ "config" \in Publishers
  BY DEF TypeOK, DataTypeOK, PCTypeOK, Threads, Publishers
<1>1. ConfigJobOK BY DEF JobInv
<1>2. ASSUME pc'["config"] \notin ConfigWorking PROVE ConfigJobOK'
  BY <1>2
<1>3. CASE ConfigExits \/ ConfigFails \/ ConfigDrops \/ ConfigLoaded \/ ConfigPublishes
  <2>1. pc'["config"] \in {"exited", "idle", "loaded"}
    BY <1>0, <1>3 DEF ConfigExits, ConfigFails, ConfigDrops, ConfigLoaded, ConfigPublishes,
                      ConfigGivesUp
  <2>2. QED BY <1>2, <2>1
<1>4. CASE ConfigWakes
  <2>1. CASE ctxDone \/ draining
    <3>1. pc["config"] = "idle" /\ UNCHANGED pc BY <1>4, <2>1 DEF ConfigWakes
    <3>2. QED BY <1>2, <3>1
  <2>2. CASE ~(ctxDone \/ draining)
    <3>1. pc'["config"] = "load" /\ UNCHANGED active BY <1>0, <1>4, <2>2 DEF ConfigWakes, published
    <3>2. /\ configJob'.gen = active.gen /\ configJob'.client = active.client
          /\ configJob'.cfg = active.cfg /\ configJob'.key = active.key
      BY <1>0, <1>4, <2>2 DEF ConfigWakes, ConfigJobs
    <3>3. QED BY <3>1, <3>2
  <2>3. QED BY <2>1, <2>2
<1>5. CASE ConfigLoads
  <2>1. pc["config"] = "load" /\ UNCHANGED active BY <1>5 DEF ConfigLoads, published
  <2>2. CASE source.kind \in {"unreadable", "badConfig"}
    BY <1>0, <1>2, <1>5, <2>2 DEF ConfigLoads, ConfigGivesUp
  <2>3. CASE source.kind \notin {"unreadable", "badConfig"}
    <3>1. pc'["config"] = "key" /\ configJob' = [configJob EXCEPT !.candidate = source]
      BY <1>0, <1>5, <2>3 DEF ConfigLoads
    <3>2. /\ configJob'.gen = configJob.gen /\ configJob'.client = configJob.client
          /\ configJob'.cfg = configJob.cfg /\ configJob'.key = configJob.key
          /\ configJob'.candidate = source
      BY <1>0, <3>1 DEF ConfigJobs
    <3>3. source.cfg >= active.cfg BY <1>0 DEF VersionInv, Configs, Snapshots
    <3>4. QED BY <1>1, <2>1, <3>1, <3>2, <3>3
  <2>4. QED BY <2>2, <2>3
<1>6. CASE ConfigReadsKey
  <2> DEFINE key == IF keyFile.readable THEN keyFile.version ELSE configJob.key
  <2>1. pc["config"] = "key" /\ UNCHANGED active BY <1>6 DEF ConfigReadsKey, published
  <2>2. key >= active.key
    BY <1>0, <1>1, <2>1 DEF VersionInv, Snapshots, ConfigJobs
  <2>3. CASE configJob.candidate.cfg = configJob.cfg /\ key = configJob.key
    BY <1>0, <1>2, <1>6, <2>3 DEF ConfigReadsKey, ConfigGivesUp
  <2>4. CASE ~(configJob.candidate.cfg = configJob.cfg /\ key = configJob.key)
    <3>1. pc'["config"] = "discover" /\ configJob' = [configJob EXCEPT !.newKey = key]
      BY <1>0, <1>6, <2>4 DEF ConfigReadsKey
    <3>2. /\ configJob'.gen = configJob.gen /\ configJob'.client = configJob.client
          /\ configJob'.cfg = configJob.cfg /\ configJob'.key = configJob.key
          /\ configJob'.candidate = configJob.candidate /\ configJob'.newKey = key
      BY <1>0, <3>1 DEF ConfigJobs
    <3>3. QED BY <1>1, <2>1, <2>2, <2>4, <3>1, <3>2
  <2>5. QED BY <2>3, <2>4
<1>7. CASE ConfigDiscovers
  <2>1. pc["config"] = "discover" /\ pc'["config"] = "source" /\ UNCHANGED active
    BY <1>0, <1>7 DEF ConfigDiscovers, published
  <2>2. /\ configJob'.gen = configJob.gen /\ configJob'.client = configJob.client
        /\ configJob'.cfg = configJob.cfg /\ configJob'.key = configJob.key
        /\ configJob'.candidate = configJob.candidate /\ configJob'.newKey = configJob.newKey
        /\ configJob'.listing > 0
    BY <1>0, <1>7 DEF ConfigDiscovers, ConfigJobs, VersionInv
  <2>3. QED BY <1>1, <2>1, <2>2
<1>8. CASE ConfigRechecksSource \/ ConfigRechecksKey
  <2>1. /\ pc["config"] \in {"source", "keyAgain"} /\ UNCHANGED active
        /\ \/ pc'["config"] \in {"keyAgain", "lock"} /\ UNCHANGED configJob
           \/ pc'["config"] = "idle"
    BY <1>0, <1>8 DEF ConfigRechecksSource, ConfigRechecksKey, ConfigGivesUp, published,
                      configReload
  <2>2. QED BY <1>1, <1>2, <2>1
<1>9. CASE ConfigLocks \/ ConfigEnters \/ ConfigCompares
  <2>1. /\ pc["config"] \in {"lock", "publish", "compare"} /\ UNCHANGED <<active, configJob>>
        /\ pc'["config"] \in {"publish", "compare", "store"}
    BY <1>0, <1>9 DEF ConfigLocks, ConfigEnters, ConfigCompares, EnterPublish, Passes, published,
                      configReload
  <2>2. QED BY <1>1, <2>1
<1>10. QED BY <1>3, <1>4, <1>5, <1>6, <1>7, <1>8, <1>9 DEF ReloadConfig

LEMMA ConfigJobStep ==
    ASSUME TypeOK, LockInv, PublishInv, VersionInv, JobInv, [Next]_vars
    PROVE  ConfigJobOK'
<1>0. ConfigJobOK /\ active \in Snapshots BY DEF JobInv, TypeOK, DataTypeOK
<1>1. CASE ConfigFrame BY <1>1, OwnConfigStep DEF ConfigFrame
<1>2. ASSUME UNCHANGED configJob, pc'["config"] = pc["config"],
             active'.gen = active.gen, active'.client = active.client,
             active'.cfg = active.cfg, active'.key = active.key
      PROVE  ConfigJobOK'
  BY <1>0, <1>2 DEF ConfigJobOK
<1>3. ASSUME UNCHANGED configJob, pc'["config"] = pc["config"] PROVE ConfigJobOK'
  <2>1. ~ConfigPublishes
    BY <1>3 DEF ConfigPublishes, Goto, At, TypeOK, PCTypeOK, Threads, Publishers
  <2>2. /\ active'.gen = active.gen /\ active'.client = active.client
        /\ active'.cfg = active.cfg /\ active'.key = active.key
    BY <2>1, WhoPublishes, Kept
  <2>3. QED BY <1>2, <1>3, <2>2
<1>4. ASSUME NEW t \in Refreshers, RefreshFrame(t) PROVE ConfigJobOK'
  <2>1. t # "config" /\ "config" \in Threads
    BY RequestsAssumption DEF Refreshers, Refresher, Threads, Publishers
  <2>2. QED BY <1>3, <1>4, <2>1 DEF RefreshFrame, Alone
<1>5. CASE TokensFrame
  BY <1>3, <1>5 DEF TokensFrame, Alone, Threads, Publishers
<1>6. CASE OutsideFrame BY <1>3, <1>6 DEF OutsideFrame
<1>7. QED BY <1>1, <1>4, <1>5, <1>6, Frames

\* What is published stays coherent, never revives a token, and agrees with authState.
LEMMA PublishedStep ==
    ASSUME TypeOK, LockInv, PublishInv, VersionInv, JobInv, [Next]_vars
    PROVE  PublishedOK'
<1> USE DEF PublishedOK, Coherent, RevokedStayRevoked, AuthStatePublished
<1>0. PublishedOK /\ active \in Snapshots /\ newest \in Tokens BY DEF JobInv, TypeOK, DataTypeOK
<1>1. ASSUME NEW t \in Refreshers, RefreshPublishes(t) PROVE PublishedOK'
  <2>1. UNCHANGED <<newest, authState>> /\ pc[t] = "store"
    BY <1>1 DEF RefreshPublishes, besideRefresh, tokenReload, At
  <2>2. refreshJob[t].client = active.client
    BY <2>1 DEF JobInv, RefreshJobOK, RefreshWorking
  <2>3. active' = [active EXCEPT !.catalog = [client  |-> refreshJob[t].client,
                                              listing |-> refreshJob[t].listing]]
    BY <1>1, Effects
  <2>4. active'.catalog.client = active.client BY <1>0, <2>2, <2>3 DEF Snapshots
  <2>5. /\ active'.client = active.client /\ active'.cfg = active.cfg
        /\ active'.key = active.key /\ active'.tokens = active.tokens
    BY <1>1, Kept
  <2>6. QED BY <1>0, <2>1, <2>4, <2>5
<1>2. CASE TokensPublish
  <2>1. /\ newest' = [inline   |-> Store!Seen(authJob.tokens.inline, newest.inline),
                      external |-> Store!Seen(authJob.tokens.external, newest.external)]
        /\ authState' = authJob.tokens
    BY <1>2 DEF TokensPublish
  <2>2. newest'.inline = Store!Seen(authJob.tokens.inline, newest.inline)
        /\ newest'.external = Store!Seen(authJob.tokens.external, newest.external)
    BY <2>1
  <2>3. /\ active'.client = active.client /\ active'.cfg = active.cfg
        /\ active'.key = active.key /\ active'.catalog = active.catalog
        /\ active'.tokens = authJob.tokens
    BY <1>2, Kept
  <2>4. QED BY <1>0, <2>1, <2>2, <2>3 DEF Store!Seen
<1>3. CASE ConfigPublishes
  <2>1. UNCHANGED <<newest, authState>> BY <1>3 DEF ConfigPublishes, besideConfig
  <2>2. /\ active'.cfg = configJob.candidate.cfg /\ active'.key = configJob.newKey
        /\ active'.tokens = active.tokens /\ active'.client = NewClient
        /\ active'.catalog.client = NewClient
    BY <1>3, Effects
  <2>3. QED BY <1>0, <2>1, <2>2 DEF NewClient
<1>4. CASE UNCHANGED active
  <2>1. UNCHANGED <<newest, authState>> \/ TokensPublish
    <3>1. CASE TokensFrame
      BY <3>1 DEF TokensFrame, TokensWake, TokensExit, ReloadTokens, TokensSkip, TokensBegin,
                  TokensLoad, TokensRead, TokensRejected, TokensEnter, TokensDrop, TokensCompare,
                  TokensWakeConfig, published, tokenReload
    <3>2. QED BY <3>1, Frames DEF RefreshFrame, ConfigFrame, OutsideFrame
  <2>2. QED BY <1>0, <1>2, <1>4, <2>1
<1>5. QED BY <1>1, <1>2, <1>3, <1>4, WhoPublishes

\* Only a publisher at its own "loaded" sets `loaded`.
LEMMA WhoSetsLoaded ==
    ASSUME [Next]_vars
    PROVE  UNCHANGED loaded \/ (loaded' = TRUE /\ \E t \in Publishers : pc[t] = "loaded")
<1> DEFINE Set == UNCHANGED loaded \/ (loaded' = TRUE /\ \E t \in Publishers : pc[t] = "loaded")
<1> USE DEF published, Publishers
<1>1. ASSUME NEW t \in Refreshers, Refresh(t) PROVE Set
  BY <1>1 DEF Refresh, RefreshSkips, RefreshBegins, RefreshDiscovers, RefreshFails,
              RefreshRechecks, RefreshEnters, RefreshDrops, RefreshCompares, RefreshPublishes,
              RefreshLoaded, At
<1>2. CASE TokensWake \/ TokensExit \/ ReloadTokens
  BY <1>2 DEF TokensWake, TokensExit, ReloadTokens, TokensSkip, TokensBegin, TokensLoad,
              TokensRead, TokensRejected, TokensEnter, TokensDrop, TokensCompare,
              TokensPublish, TokensWakeConfig
<1>3. CASE ConfigWakes \/ ConfigExits \/ ReloadConfig
  BY <1>3 DEF ConfigWakes, ConfigExits, ReloadConfig, ConfigLoads, ConfigReadsKey,
              ConfigDiscovers, ConfigFails, ConfigRechecksSource, ConfigRechecksKey,
              ConfigLocks, ConfigEnters, ConfigDrops, ConfigCompares, ConfigPublishes,
              ConfigLoaded, At
<1>4. CASE RefreshTimer \/ RefresherExits \/ MissWindowPasses \/ RunStops \/ Run
  BY <1>4 DEF RefreshTimer, RefresherExits, MissWindowPasses, RunStops, Run, RunLocks,
              RunDrains, RunCancels, besideRun
<1>5. ASSUME NEW r \in Requests, Show(r) PROVE Set
  BY <1>5 DEF Show, ShowCaptures, ShowResolves, ShowRecaptures, besideShow
<1>6. CASE Environment \/ UNCHANGED vars
  BY <1>6 DEF Environment, EditSource, EditExternal, EditKey, ListingChanges, UpstreamToggles,
              beforeFiles, vars
<1>7. QED BY <1>1, <1>2, <1>3, <1>4, <1>5, <1>6 DEF Next

\* Only by storing a snapshot does a publisher come to its "loaded".
LEMMA WhoLoads ==
    ASSUME TypeOK, [Next]_vars
    PROVE  \/ \E t \in Refreshers : RefreshPublishes(t)
           \/ ConfigPublishes
           \/ \A t \in Publishers : pc'[t] = "loaded" => pc[t] = "loaded"
<1> DEFINE Same == \A t \in Publishers : pc'[t] = "loaded" => pc[t] = "loaded"
<1>0. pc \in [Threads -> RefresherLabels \cup ShowLabels \cup TokensLabels \cup ConfigLabels
                          \cup RunLabels]
      /\ Publishers \subseteq Threads
  BY DEF TypeOK, PCTypeOK, Threads
<1>1. ASSUME UNCHANGED pc \/ \E t \in Threads : \E label : label # "loaded" /\ Goto(t, label)
      PROVE  Same
  BY <1>0, <1>1 DEF Goto
<1>2. ASSUME NEW t \in Refreshers, Refresh(t), ~RefreshPublishes(t) PROVE Same
  <2>1. (IF t = Refresher THEN "idle" ELSE "recapture") # "loaded" OBVIOUS
  <2>2. \E label : label # "loaded" /\ Goto(t, label)
    BY <1>2, <2>1 DEF Refresh, RefreshSkips, RefreshBegins, RefreshDiscovers, RefreshFails,
                      RefreshRechecks, RefreshEnters, RefreshDrops, RefreshCompares,
                      RefreshLoaded, RefreshReturns, EnterPublish, Passes
  <2>3. QED BY <1>1, <2>2 DEF Threads, Publishers
<1>3. CASE TokensWake \/ TokensExit \/ ReloadTokens
  <2>1. \E label : label # "loaded" /\ Goto("auth", label)
    BY <1>3 DEF TokensWake, TokensExit, ReloadTokens, TokensSkip, TokensBegin, TokensLoad,
                TokensRead, TokensRejected, TokensEnter, TokensDrop, TokensCompare,
                TokensPublish, TokensWakeConfig, TokensReturn, EnterPublish, Passes
  <2>2. QED BY <1>1, <2>1 DEF Threads, Publishers
<1>4. ASSUME ConfigWakes \/ ConfigExits \/ ReloadConfig, ~ConfigPublishes PROVE Same
  <2>1. UNCHANGED pc \/ \E label : label # "loaded" /\ Goto("config", label)
    BY <1>4 DEF ConfigWakes, ConfigExits, ReloadConfig, ConfigLoads, ConfigReadsKey,
                ConfigDiscovers, ConfigFails, ConfigRechecksSource, ConfigRechecksKey,
                ConfigLocks, ConfigEnters, ConfigDrops, ConfigCompares, ConfigLoaded,
                ConfigGivesUp, EnterPublish, Passes
  <2>2. QED BY <1>1, <2>1 DEF Threads, Publishers
<1>5. CASE RefreshTimer \/ RefresherExits \/ MissWindowPasses
  <2>1. Refresher \in Threads BY DEF Threads, Publishers, Refreshers
  <2>2. QED BY <1>1, <1>5, <2>1 DEF RefreshTimer, RefresherExits, MissWindowPasses
<1>6. CASE RunStops \/ Run
  <2>1. \E label : label # "loaded" /\ Goto("main", label)
    BY <1>6 DEF RunStops, Run, RunLocks, RunDrains, RunCancels
  <2>2. QED BY <1>1, <2>1 DEF Threads
<1>7. ASSUME NEW r \in Requests, Show(r) PROVE Same
  <2>1. \E label : label # "loaded" /\ Goto(r, label)
    BY <1>7 DEF Show, ShowCaptures, ShowResolves, ShowRecaptures, Answers
  <2>2. QED BY <1>1, <2>1 DEF Threads, Publishers, Refreshers
<1>8. CASE Environment \/ UNCHANGED vars
  BY <1>1, <1>8 DEF Environment, EditSource, EditExternal, EditKey, ListingChanges,
                    UpstreamToggles, beforeFiles, vars
<1>9. QED BY <1>2, <1>3, <1>4, <1>5, <1>6, <1>7, <1>8 DEF Next

\* A server that is ready, or about to be, has published a catalog.
LEMMA ReadyStep ==
    ASSUME TypeOK, PublishInv, JobInv, [Next]_vars
    PROVE  ReadyOK'
<1>0. active \in Snapshots /\ ReadyOK BY DEF TypeOK, DataTypeOK, JobInv
<1>1. ASSUME NEW t \in Refreshers, RefreshPublishes(t) PROVE ReadyOK'
  <2>1. active' = [active EXCEPT !.catalog = [client  |-> refreshJob[t].client,
                                              listing |-> refreshJob[t].listing]]
    BY <1>1, Effects
  <2>2. refreshJob[t].listing > 0
    BY <1>1 DEF RefreshPublishes, At, JobInv, RefreshJobOK, RefreshWorking
  <2>3. active'.catalog.listing = refreshJob[t].listing BY <1>0, <2>1 DEF Snapshots
  <2>4. QED BY <2>2, <2>3 DEF ReadyOK
<1>2. CASE ConfigPublishes
  <2>1. active'.catalog.listing = configJob.listing BY <1>2, Effects
  <2>2. configJob.listing > 0
    BY <1>2 DEF ConfigPublishes, At, JobInv, ConfigJobOK, ConfigWorking
  <2>3. QED BY <2>1, <2>2 DEF ReadyOK
<1>3. ASSUME \A t \in Publishers : pc'[t] = "loaded" => pc[t] = "loaded",
             \A t \in Refreshers : ~RefreshPublishes(t), ~ConfigPublishes
      PROVE  ReadyOK'
  <2>1. active'.catalog = active.catalog BY <1>3, WhoPublishes, Kept
  <2>2. QED BY <1>0, <1>3, <2>1, WhoSetsLoaded DEF ReadyOK
<1>4. QED BY <1>1, <1>2, <1>3, WhoLoads

IndInv == TypeOK /\ LockInv /\ PublishInv /\ VersionInv /\ JobInv

\* The five invariants hold together in every reachable state.
LEMMA Invariance == Spec => []IndInv
<1>1. Init => IndInv
  BY InitTypes, LocksInit, PublishInit, VersionInit, JobsInit DEF IndInv
<1>2. IndInv /\ [Next]_vars => IndInv'
  <2> SUFFICES ASSUME IndInv, [Next]_vars PROVE IndInv'
    OBVIOUS
  <2>1. TypeOK /\ LockInv /\ PublishInv /\ VersionInv /\ JobInv BY DEF IndInv
  <2>2. TypeOK' BY <2>1, DataTypes, PCTypes DEF TypeOK
  <2>3. LockInv' /\ PublishInv' /\ VersionInv'
    BY <2>1, LocksStep, PublishStep, VersionStep
  <2>4. \A t \in Refreshers : RefreshJobOK(t)' BY <2>1, RefreshJobStep
  <2>5. TokensJobOK' /\ ConfigJobOK' /\ PublishedOK'
    BY <2>1, TokensJobStep, ConfigJobStep, PublishedStep
  <2>6. JobInv' BY <2>1, <2>4, <2>5, ReadyStep DEF JobInv
  <2>7. QED BY <2>2, <2>3, <2>6 DEF IndInv
<1>3. QED BY <1>1, <1>2, PTL DEF Spec
----------------------------------------------------------------------------
\* A token version that a later read replaced is never accepted again, whichever
\* publisher stores last.
THEOREM RevokedNeverReturns == Spec => []RevokedStayRevoked
BY Invariance, PTL DEF IndInv, JobInv, PublishedOK

\* authState and the published tokens, replaced by two assignments, always agree.
THEOREM AuthStateAgrees == Spec => []AuthStatePublished
BY Invariance, PTL DEF IndInv, JobInv, PublishedOK

\* /readyz is satisfied by `loaded` only once requests start from a catalog.
THEOREM ReadyHasCatalog == Spec => []ReadyMeansCatalog
<1>1. IndInv => ReadyMeansCatalog BY DEF IndInv, JobInv, ReadyOK, ReadyMeansCatalog
<1>2. QED BY Invariance, <1>1, PTL

\* The generation check never discards a token reload.
THEOREM NoTokenReloadLost == Spec => []TokenReloadKept
<1>1. IndInv => TokenReloadKept
  BY DEF IndInv, PublishInv, JobInv, TokensJobOK, TokenReloadKept, At, TokenReading, Publishers
<1>2. QED BY Invariance, <1>1, PTL

\* A request's snapshot is one that was published.
LEMMA Views ==
    ASSUME TypeOK, [Next]_vars
    PROVE  UNCHANGED view \/ \E r \in Requests : view' = [view EXCEPT ![r] = active]
<1> DEFINE Taken == UNCHANGED view \/ \E r \in Requests : view' = [view EXCEPT ![r] = active]
<1> USE DEF requests
<1>1. CASE RefreshTimer \/ RefresherExits \/ MissWindowPasses
  BY <1>1 DEF RefreshTimer, RefresherExits, MissWindowPasses, besideRefresh
<1>2. ASSUME NEW t \in Refreshers, Refresh(t) PROVE Taken
  BY <1>2 DEF Refresh, RefreshSkips, RefreshBegins, RefreshDiscovers, RefreshFails,
              RefreshRechecks, RefreshEnters, RefreshDrops, RefreshCompares, RefreshPublishes,
              RefreshLoaded, besideRefresh
<1>3. CASE TokensWake \/ TokensExit \/ ReloadTokens
  BY <1>3 DEF TokensWake, TokensExit, ReloadTokens, TokensSkip, TokensBegin, TokensLoad,
              TokensRead, TokensRejected, TokensEnter, TokensDrop, TokensCompare, TokensPublish,
              TokensWakeConfig, besideTokens
<1>4. CASE ConfigWakes \/ ConfigExits \/ ReloadConfig
  BY <1>4 DEF ConfigWakes, ConfigExits, ReloadConfig, ConfigLoads, ConfigReadsKey,
              ConfigDiscovers, ConfigFails, ConfigRechecksSource, ConfigRechecksKey, ConfigLocks,
              ConfigEnters, ConfigDrops, ConfigCompares, ConfigPublishes, ConfigLoaded,
              besideConfig
<1>5. CASE RunStops \/ Run
  BY <1>5 DEF RunStops, Run, RunLocks, RunDrains, RunCancels, besideRun
<1>6. ASSUME NEW r \in Requests, Show(r) PROVE Taken
  BY <1>6 DEF Show, ShowCaptures, ShowResolves, ShowRecaptures
<1>7. CASE Environment \/ UNCHANGED vars
  BY <1>7 DEF Environment, EditSource, EditExternal, EditKey, ListingChanges, UpstreamToggles,
              beforeFiles, vars
<1>8. QED BY <1>1, <1>2, <1>3, <1>4, <1>5, <1>6, <1>7 DEF Next

\* Neither the published snapshot nor one a request works with mixes generations.
THEOREM SnapshotsCoherent == Spec => []SnapshotCoherent
<1> DEFINE ViewInv == \A r \in Requests : Coherent(view[r])
<1>1. Init => ViewInv
  <2>1. Coherent(NoSnapshot) BY DEF Coherent, NoSnapshot
  <2>2. QED BY <2>1 DEF Init
<1>2. IndInv /\ ViewInv /\ [Next]_vars => ViewInv'
  <2> SUFFICES ASSUME IndInv, ViewInv, [Next]_vars, NEW r \in Requests PROVE Coherent(view'[r])
    BY DEF Coherent
  <2>1. Coherent(active) /\ Coherent(view[r]) /\ view \in [Requests -> Snapshots]
    BY DEF IndInv, JobInv, PublishedOK, TypeOK, DataTypeOK
  <2>2. UNCHANGED view \/ \E u \in Requests : view' = [view EXCEPT ![u] = active]
    BY Views DEF IndInv
  <2>3. view'[r] \in {view[r], active} BY <2>1, <2>2
  <2>4. QED BY <2>1, <2>3
<1>3. IndInv /\ ViewInv => SnapshotCoherent
  BY DEF IndInv, JobInv, PublishedOK, SnapshotCoherent
<1>4. QED BY Invariance, <1>1, <1>2, <1>3, PTL DEF Spec

\* Only the configuration reloader touches its candidate, its place and the clients.
LEMMA OthersLeaveCandidate ==
    ASSUME TypeOK, [Next]_vars, ~(ConfigWakes \/ ConfigExits \/ ReloadConfig)
    PROVE  UNCHANGED <<clients, configJob>> /\ pc'["config"] = pc["config"]
<1>1. UNCHANGED clients
  <2> USE DEF configReload
  <2>1. ASSUME NEW t \in Refreshers, Refresh(t) PROVE UNCHANGED clients
    BY <2>1 DEF Refresh, RefreshSkips, RefreshBegins, RefreshDiscovers, RefreshFails,
                RefreshRechecks, RefreshEnters, RefreshDrops, RefreshCompares, RefreshPublishes,
                RefreshLoaded, besideRefresh
  <2>2. CASE TokensWake \/ TokensExit \/ ReloadTokens
    BY <2>2 DEF TokensWake, TokensExit, ReloadTokens, TokensSkip, TokensBegin, TokensLoad,
                TokensRead, TokensRejected, TokensEnter, TokensDrop, TokensCompare,
                TokensPublish, TokensWakeConfig, besideTokens
  <2>3. CASE RefreshTimer \/ RefresherExits \/ MissWindowPasses \/ RunStops \/ Run
    BY <2>3 DEF RefreshTimer, RefresherExits, MissWindowPasses, besideRefresh, RunStops, Run,
                RunLocks, RunDrains, RunCancels, besideRun
  <2>4. ASSUME NEW r \in Requests, Show(r) PROVE UNCHANGED clients
    BY <2>4 DEF Show, ShowCaptures, ShowResolves, ShowRecaptures, besideShow
  <2>5. CASE Environment \/ UNCHANGED vars
    BY <2>5 DEF Environment, EditSource, EditExternal, EditKey, ListingChanges, UpstreamToggles,
                beforeFiles, vars
  <2>6. QED BY <2>1, <2>2, <2>3, <2>4, <2>5 DEF Next
<1>2. UNCHANGED configJob /\ pc'["config"] = pc["config"]
  <2>1. ASSUME NEW t \in Refreshers, RefreshFrame(t) PROVE pc'["config"] = pc["config"]
    BY <2>1, RequestsAssumption
    DEF RefreshFrame, Alone, Refreshers, Refresher, Threads, Publishers
  <2>2. TokensFrame => pc'["config"] = pc["config"]
    BY DEF TokensFrame, Alone, Threads, Publishers
  <2>3. ~ConfigFrame BY DEF ConfigFrame
  <2>4. QED BY <2>1, <2>2, <2>3, Frames DEF RefreshFrame, TokensFrame, OutsideFrame
<1>3. QED BY <1>1, <1>2

\* Edits only raise the versions of the configuration and of the key file.
LEMMA VersionsGrow ==
    ASSUME TypeOK, [Next]_vars
    PROVE  source'.cfg >= source.cfg /\ keyFile'.version >= keyFile.version
<1>0. source.cfg \in Nat /\ keyFile.version \in Nat BY DEF TypeOK, DataTypeOK, Configs
<1> USE DEF environment
<1>1. ASSUME UNCHANGED <<source, keyFile>>
      PROVE  source'.cfg >= source.cfg /\ keyFile'.version >= keyFile.version
  BY <1>0, <1>1
<1>2. ASSUME NEW t \in Refreshers, Refresh(t) PROVE UNCHANGED <<source, keyFile>>
  BY <1>2 DEF Refresh, RefreshSkips, RefreshBegins, RefreshDiscovers, RefreshFails,
              RefreshRechecks, RefreshEnters, RefreshDrops, RefreshCompares, RefreshPublishes,
              RefreshLoaded, besideRefresh
<1>3. TokensWake \/ TokensExit \/ ReloadTokens => UNCHANGED <<source, keyFile>>
  BY DEF TokensWake, TokensExit, ReloadTokens, TokensSkip, TokensBegin, TokensLoad, TokensRead,
         TokensRejected, TokensEnter, TokensDrop, TokensCompare, TokensPublish, TokensWakeConfig,
         besideTokens
<1>4. ConfigWakes \/ ConfigExits \/ ReloadConfig => UNCHANGED <<source, keyFile>>
  BY DEF ConfigWakes, ConfigExits, ReloadConfig, ConfigLoads, ConfigReadsKey, ConfigDiscovers,
         ConfigFails, ConfigRechecksSource, ConfigRechecksKey, ConfigLocks, ConfigEnters,
         ConfigDrops, ConfigCompares, ConfigPublishes, ConfigLoaded, besideConfig
<1>5. RefreshTimer \/ RefresherExits \/ MissWindowPasses \/ RunStops \/ Run
        => UNCHANGED <<source, keyFile>>
  BY DEF RefreshTimer, RefresherExits, MissWindowPasses, besideRefresh, RunStops, Run, RunLocks,
         RunDrains, RunCancels, besideRun
<1>6. ASSUME NEW r \in Requests, Show(r) PROVE UNCHANGED <<source, keyFile>>
  BY <1>6 DEF Show, ShowCaptures, ShowResolves, ShowRecaptures, besideShow
<1>7. EditSource => source'.cfg >= source.cfg /\ UNCHANGED keyFile
  BY <1>0 DEF EditSource
<1>8. EditKey => keyFile'.version >= keyFile.version /\ UNCHANGED source
  <2> SUFFICES ASSUME EditKey PROVE keyFile'.version >= keyFile.version /\ UNCHANGED source
    OBVIOUS
  <2>1. keyFile'.version = keyFile.version + 1 BY DEF EditKey
  <2>2. QED BY <1>0, <2>1 DEF EditKey
<1>9. EditExternal \/ ListingChanges \/ UpstreamToggles \/ UNCHANGED vars
        => UNCHANGED <<source, keyFile>>
  BY DEF EditExternal, ListingChanges, UpstreamToggles, vars
<1>10. QED BY <1>0, <1>1, <1>2, <1>3, <1>4, <1>5, <1>6, <1>7, <1>8, <1>9 DEF Next, Environment

\* What a candidate is compared with on its way: the versions its discovery saw.
SeenInv ==
    /\ pc["config"] \in {"source", "keyAgain", "lock", "publish", "compare", "store"} =>
            configJob.seen <= source.cfg /\ configJob.seenKey <= keyFile.version
    /\ pc["config"] \in {"keyAgain", "lock", "publish", "compare", "store"} =>
            configJob.candidate.cfg >= configJob.seen
    /\ pc["config"] \in {"lock", "publish", "compare", "store"} =>
            configJob.newKey >= configJob.seenKey \/ configJob.newKey = configJob.key

LEMMA SeenStep == ASSUME TypeOK, SeenInv, [Next]_vars PROVE SeenInv'
<1> USE DEF SeenInv, At, Goto
<1>0. /\ configJob \in ConfigJobs /\ source \in Configs
      /\ keyFile \in [version : Nat, readable : BOOLEAN]
      /\ pc \in [Threads -> RefresherLabels \cup ShowLabels \cup TokensLabels \cup ConfigLabels
                            \cup RunLabels]
      /\ "config" \in Threads
  BY DEF TypeOK, DataTypeOK, PCTypeOK, Threads, Publishers
<1>1. ASSUME UNCHANGED configJob, pc'["config"] = pc["config"] PROVE SeenInv'
  <2>1. DataTypeOK' BY DataTypes DEF TypeOK
  <2>2. source'.cfg \in Nat /\ keyFile'.version \in Nat BY <2>1 DEF DataTypeOK, Configs
  <2>3. QED BY <1>0, <1>1, <2>2, VersionsGrow DEF ConfigJobs, Configs
<1>2. ASSUME pc'["config"] \in {"idle", "load", "key", "discover", "loaded", "exited"}
      PROVE  SeenInv'
  BY <1>2
<1>3. CASE ConfigWakes \/ ConfigExits \/ ConfigLoads \/ ConfigReadsKey \/ ConfigFails
           \/ ConfigDrops \/ ConfigPublishes \/ ConfigLoaded
  <2>1. \/ pc'["config"] \in {"idle", "load", "key", "discover", "loaded", "exited"}
        \/ UNCHANGED <<pc, configJob>>
    BY <1>0, <1>3 DEF ConfigWakes, ConfigExits, ConfigLoads, ConfigReadsKey, ConfigFails,
                      ConfigDrops, ConfigPublishes, ConfigLoaded, ConfigGivesUp
  <2>2. QED BY <1>1, <1>2, <2>1
<1>4. CASE ConfigDiscovers
  <2>1. pc'["config"] = "source" /\ UNCHANGED <<source, keyFile>>
    BY <1>0, <1>4 DEF ConfigDiscovers, besideConfig, environment
  <2>2. configJob'.seen = source.cfg /\ configJob'.seenKey = keyFile.version
    BY <1>0, <1>4 DEF ConfigDiscovers, ConfigJobs
  <2>3. QED BY <1>0, <2>1, <2>2 DEF Configs
<1>5. CASE ConfigRechecksSource
  <2>1. pc["config"] = "source" /\ UNCHANGED <<source, keyFile>>
    BY <1>5 DEF ConfigRechecksSource, besideConfig, environment
  <2>2. CASE Superseded
    BY <1>0, <1>2, <1>5, <2>2 DEF ConfigRechecksSource, ConfigGivesUp
  <2>3. CASE ~Superseded
    <3>1. pc'["config"] = "keyAgain" /\ UNCHANGED configJob
      BY <1>0, <1>5, <2>3 DEF ConfigRechecksSource, configReload
    <3>2. configJob.candidate = source BY <2>3 DEF Superseded
    <3>3. QED BY <2>1, <3>1, <3>2
  <2>4. QED BY <2>2, <2>3
<1>6. CASE ConfigRechecksKey
  <2>1. pc["config"] = "keyAgain" /\ UNCHANGED <<source, keyFile>>
    BY <1>6 DEF ConfigRechecksKey, besideConfig, environment
  <2>2. CASE KeySuperseded
    BY <1>0, <1>2, <1>6, <2>2 DEF ConfigRechecksKey, ConfigGivesUp
  <2>3. CASE ~KeySuperseded
    <3>1. pc'["config"] = "lock" /\ UNCHANGED configJob
      BY <1>0, <1>6, <2>3 DEF ConfigRechecksKey, configReload
    <3>2. configJob.newKey = keyFile.version \/ configJob.newKey = configJob.key
      BY <1>0, <2>3 DEF KeySuperseded
    <3>3. QED BY <1>0, <2>1, <3>1, <3>2 DEF ConfigJobs
  <2>4. QED BY <2>2, <2>3
<1>7. CASE ConfigLocks \/ ConfigEnters \/ ConfigCompares
  <2>1. /\ pc["config"] \in {"lock", "publish", "compare"}
        /\ pc'["config"] \in {"publish", "compare", "store"}
        /\ UNCHANGED <<configJob, source, keyFile>>
    BY <1>0, <1>7 DEF ConfigLocks, ConfigEnters, ConfigCompares, EnterPublish, Passes,
                      configReload, besideConfig, environment
  <2>2. QED BY <2>1
<1>8. QED BY <1>1, <1>3, <1>4, <1>5, <1>6, <1>7, OthersLeaveCandidate DEF ReloadConfig

\* No configuration is published that was superseded before its discovery had
\* answered, nor a key other than the file's of that time or the one in force.
THEOREM SupersededNeverPublished == Spec => []NotSuperseded
<1>1. Init => SeenInv
  BY RequestsAssumption DEF Init, SeenInv, Threads, Publishers, Refreshers, Refresher
<1>2. IndInv /\ SeenInv /\ [Next]_vars => SeenInv'
  BY SeenStep DEF IndInv
<1>3. IndInv /\ SeenInv => NotSuperseded
  BY DEF IndInv, JobInv, ConfigJobOK, ConfigWorking, SeenInv, NotSuperseded, At
<1>4. QED BY Invariance, <1>1, <1>2, <1>3, PTL DEF Spec
----------------------------------------------------------------------------
LEMMA ClientsStep == ASSUME IndInv, ClientsAccounted, [Next]_vars PROVE ClientsAccounted'
<1> USE DEF ClientsAccounted, At, Goto
<1> DEFINE Trying == {"discover", "source", "keyAgain", "lock", "publish", "compare", "store"}
<1>0. /\ TypeOK /\ PublishInv /\ ConfigJobOK /\ configJob \in ConfigJobs
      /\ pc \in [Threads -> RefresherLabels \cup ShowLabels \cup TokensLabels \cup ConfigLabels
                            \cup RunLabels]
      /\ "config" \in Threads
  BY DEF IndInv, JobInv, TypeOK, DataTypeOK, PCTypeOK, Threads, Publishers
<1>1. ASSUME ~ConfigPublishes PROVE active'.client = active.client
  BY <1>0, <1>1, WhoPublishes, Kept
<1>2. ASSUME ~(ConfigWakes \/ ConfigExits \/ ReloadConfig) PROVE ClientsAccounted'
  <2>1. active'.client = active.client BY <1>1, <1>2 DEF ReloadConfig
  <2>2. UNCHANGED <<clients, configJob>> /\ pc'["config"] = pc["config"]
    BY <1>0, <1>2, OthersLeaveCandidate
  <2>3. QED BY <2>1, <2>2 DEF NewClient
<1>3. CASE ConfigPublishes
  <2>1. /\ pc["config"] = "store" /\ pc'["config"] = "loaded"
        /\ UNCHANGED <<clients, configJob>>
    BY <1>0, <1>3 DEF ConfigPublishes, configReload
  <2>2. active'.client = NewClient BY <1>0, <1>3, Effects
  <2>3. configJob.client = active.client BY <1>0, <2>1 DEF ConfigJobOK, ConfigWorking
  <2>4. QED BY <2>1, <2>2, <2>3
<1>4. ASSUME UNCHANGED clients, active'.client = active.client,
             pc["config"] \notin Trying, pc["config"] # "loaded"
      PROVE  ClientsAccounted'
  BY <1>4
<1>5. CASE ConfigWakes \/ ConfigExits \/ ConfigLoads
  <2>1. pc["config"] \in {"idle", "load"}
    BY <1>5 DEF ConfigWakes, ConfigExits, ConfigLoads
  <2>2. active'.client = active.client
    BY <1>5 DEF ConfigWakes, ConfigExits, ConfigLoads, published
  <2>3. UNCHANGED clients
    BY <1>5 DEF ConfigWakes, ConfigExits, ConfigLoads, ConfigGivesUp, configReload
  <2>4. QED BY <1>4, <2>1, <2>2, <2>3
<1>6. CASE ConfigReadsKey
  <2> DEFINE key == IF keyFile.readable THEN keyFile.version ELSE configJob.key
  <2>1. pc["config"] = "key" /\ UNCHANGED active BY <1>6 DEF ConfigReadsKey, published
  <2>2. CASE configJob.candidate.cfg = configJob.cfg /\ key = configJob.key
    <3>1. UNCHANGED clients BY <1>6, <2>2 DEF ConfigReadsKey, ConfigGivesUp
    <3>2. QED BY <1>4, <2>1, <3>1
  <2>3. CASE ~(configJob.candidate.cfg = configJob.cfg /\ key = configJob.key)
    <3>1. /\ configJob' = [configJob EXCEPT !.newKey = key]
          /\ clients' = clients \cup {[cfg |-> configJob.candidate.cfg, key |-> key]}
          /\ pc'["config"] = "discover"
      BY <1>0, <1>6, <2>3 DEF ConfigReadsKey
    <3>2. configJob'.candidate = configJob.candidate /\ configJob'.newKey = key
      BY <1>0, <3>1 DEF ConfigJobs
    <3>3. clients \subseteq {active.client} BY <2>1
    <3>4. QED BY <2>1, <3>1, <3>2, <3>3 DEF NewClient
  <2>4. QED BY <2>2, <2>3
<1>7. CASE ConfigDiscovers
  <2>1. /\ pc["config"] = "discover" /\ pc'["config"] = "source"
        /\ UNCHANGED <<active, clients>>
    BY <1>0, <1>7 DEF ConfigDiscovers, published
  <2>2. configJob'.candidate = configJob.candidate /\ configJob'.newKey = configJob.newKey
    BY <1>0, <1>7 DEF ConfigDiscovers, ConfigJobs
  <2>3. QED BY <2>1, <2>2 DEF NewClient
<1>8. ASSUME pc["config"] \in Trying, UNCHANGED active, ConfigGivesUp({NewClient})
      PROVE  ClientsAccounted'
  <2>1. clients' = clients \ {NewClient} /\ pc'["config"] = "idle"
    BY <1>0, <1>8 DEF ConfigGivesUp
  <2>2. QED BY <1>8, <2>1
<1>9. CASE ConfigFails \/ ConfigDrops
  BY <1>8, <1>9 DEF ConfigFails, ConfigDrops, published
<1>10. ASSUME pc["config"] \in Trying, pc'["config"] \in Trying,
              UNCHANGED <<active, clients, configJob>>
       PROVE  ClientsAccounted'
  BY <1>10 DEF NewClient
<1>11. CASE ConfigRechecksSource \/ ConfigRechecksKey
  <2>1. pc["config"] \in Trying /\ UNCHANGED active
    BY <1>11 DEF ConfigRechecksSource, ConfigRechecksKey, published
  <2>2. \/ ConfigGivesUp({NewClient})
        \/ pc'["config"] \in {"keyAgain", "lock"} /\ UNCHANGED <<clients, configJob>>
    BY <1>0, <1>11 DEF ConfigRechecksSource, ConfigRechecksKey, configReload
  <2>3. QED BY <1>8, <1>10, <2>1, <2>2
<1>12. CASE ConfigLocks \/ ConfigEnters \/ ConfigCompares
  <2>1. /\ pc["config"] \in {"lock", "publish", "compare"}
        /\ pc'["config"] \in {"publish", "compare", "store"}
        /\ UNCHANGED <<active, configJob, clients>>
    BY <1>0, <1>12 DEF ConfigLocks, ConfigEnters, ConfigCompares, EnterPublish, Passes,
                       configReload, published
  <2>2. QED BY <1>10, <2>1
<1>13. CASE ConfigLoaded
  <2>1. /\ pc["config"] = "loaded" /\ pc'["config"] = "idle" /\ UNCHANGED active
        /\ clients' = clients \ {configJob.client}
    BY <1>0, <1>13 DEF ConfigLoaded, ConfigGivesUp
  <2>2. QED BY <2>1
<1>14. QED BY <1>2, <1>3, <1>5, <1>6, <1>7, <1>9, <1>11, <1>12, <1>13 DEF ReloadConfig

\* Every upstream client is published, on trial or about to be closed: whatever
\* path a configuration reload leaves by, none is left open for good.
THEOREM NoClientLeaks == Spec => []ClientsAccounted
<1>1. Init => ClientsAccounted
  BY RequestsAssumption
  DEF Init, ClientsAccounted, At, Threads, Publishers, Refreshers, Refresher
<1>2. IndInv /\ ClientsAccounted /\ [Next]_vars => ClientsAccounted'
  BY ClientsStep
<1>3. QED BY Invariance, <1>1, <1>2, PTL DEF Spec
----------------------------------------------------------------------------
\* A request that was let through is done, and keeps the snapshot that let it.
AnswerInv ==
    \A r \in Requests :
        answer[r] \in {"found", "notFound"} => pc[r] = "done" /\ Authorized(view[r])

LEMMA AnswerStep == ASSUME TypeOK, AnswerInv, [Next]_vars PROVE AnswerInv'
<1> USE DEF AnswerInv, At, Goto
<1>0. /\ pc \in [Threads -> RefresherLabels \cup ShowLabels \cup TokensLabels \cup ConfigLabels
                            \cup RunLabels]
      /\ Requests \subseteq Threads /\ Refreshers \subseteq Threads
      /\ {Refresher, "auth", "config", "main"} \subseteq Threads \ Requests
      /\ view \in [Requests -> Snapshots]
      /\ answer \in [Requests -> {None, "unauthorized", "found", "notFound"}]
  BY RequestsAssumption
  DEF TypeOK, DataTypeOK, PCTypeOK, Threads, Publishers, Refreshers, Refresher
<1>1. ASSUME UNCHANGED <<view, answer>>,
             UNCHANGED pc \/ \E t \in Threads : pc[t] # "done" /\ \E label : Goto(t, label)
      PROVE  AnswerInv'
  <2>1. \A r \in Requests : pc[r] = "done" => pc'[r] = "done" BY <1>0, <1>1
  <2>2. QED BY <1>1, <2>1 DEF Authorized
<1>2. ASSUME UNCHANGED <<view, answer>>,
             \E t \in Threads \ Requests : \E label : Goto(t, label)
      PROVE  AnswerInv'
  <2>1. \A r \in Requests : pc'[r] = pc[r] BY <1>0, <1>2
  <2>2. QED BY <1>2, <2>1 DEF Authorized
<1> USE DEF requests
<1>3. ASSUME NEW t \in Refreshers, Refresh(t) PROVE AnswerInv'
  <2>1. UNCHANGED <<view, answer>>
    BY <1>3 DEF Refresh, RefreshSkips, RefreshBegins, RefreshDiscovers, RefreshFails,
                RefreshRechecks, RefreshEnters, RefreshDrops, RefreshCompares, RefreshPublishes,
                RefreshLoaded, besideRefresh
  <2>2. pc[t] # "done"
    BY <1>3 DEF Refresh, RefreshSkips, RefreshBegins, RefreshDiscovers, RefreshFails,
                RefreshRechecks, RefreshEnters, RefreshDrops, RefreshCompares, RefreshPublishes,
                RefreshLoaded, EnterPublish, Passes
  <2>3. \E label : Goto(t, label)
    BY <1>3 DEF Refresh, RefreshSkips, RefreshBegins, RefreshDiscovers, RefreshFails,
                RefreshRechecks, RefreshEnters, RefreshDrops, RefreshCompares, RefreshPublishes,
                RefreshLoaded, RefreshReturns, EnterPublish, Passes
  <2>4. QED BY <1>0, <1>1, <2>1, <2>2, <2>3
<1>4. CASE TokensWake \/ TokensExit \/ ReloadTokens
  <2>1. UNCHANGED <<view, answer>> /\ \E label : Goto("auth", label)
    BY <1>4 DEF TokensWake, TokensExit, ReloadTokens, TokensSkip, TokensBegin, TokensLoad,
                TokensRead, TokensRejected, TokensEnter, TokensDrop, TokensCompare,
                TokensPublish, TokensWakeConfig, besideTokens, TokensReturn, EnterPublish, Passes
  <2>2. QED BY <1>0, <1>2, <2>1
<1>5. CASE ConfigWakes \/ ConfigExits \/ ReloadConfig
  <2>1. UNCHANGED <<view, answer>>
    BY <1>5 DEF ConfigWakes, ConfigExits, ReloadConfig, ConfigLoads, ConfigReadsKey,
                ConfigDiscovers, ConfigFails, ConfigRechecksSource, ConfigRechecksKey,
                ConfigLocks, ConfigEnters, ConfigDrops, ConfigCompares, ConfigPublishes,
                ConfigLoaded, besideConfig
  <2>2. UNCHANGED pc \/ \E label : Goto("config", label)
    BY <1>5 DEF ConfigWakes, ConfigExits, ReloadConfig, ConfigLoads, ConfigReadsKey,
                ConfigDiscovers, ConfigFails, ConfigRechecksSource, ConfigRechecksKey,
                ConfigLocks, ConfigEnters, ConfigDrops, ConfigCompares, ConfigPublishes,
                ConfigLoaded, ConfigGivesUp, EnterPublish, Passes
  <2>3. QED BY <1>0, <1>1, <1>2, <2>1, <2>2
<1>6. CASE RefreshTimer \/ RefresherExits \/ MissWindowPasses
  <2>1. UNCHANGED <<view, answer>> /\ (UNCHANGED pc \/ \E label : Goto(Refresher, label))
    BY <1>6 DEF RefreshTimer, RefresherExits, MissWindowPasses, besideRefresh
  <2>2. QED BY <1>0, <1>1, <1>2, <2>1
<1>7. CASE RunStops \/ Run
  <2>1. UNCHANGED <<view, answer>> /\ \E label : Goto("main", label)
    BY <1>7 DEF RunStops, Run, RunLocks, RunDrains, RunCancels, besideRun
  <2>2. QED BY <1>0, <1>2, <2>1
<1>8. ASSUME NEW u \in Requests, Show(u) PROVE AnswerInv'
  <2> SUFFICES ASSUME NEW r \in Requests, answer'[r] \in {"found", "notFound"}
               PROVE  pc'[r] = "done" /\ Authorized(view'[r])
    BY DEF Authorized
  <2>1. CASE ShowCaptures(u)
    <3>1. u # r BY <2>1 DEF ShowCaptures
    <3>2. QED BY <1>0, <2>1, <3>1 DEF ShowCaptures
  <2>2. CASE ShowResolves(u)
    <3>1. UNCHANGED view /\ pc[u] = "resolve" BY <2>2 DEF ShowResolves
    <3>2. CASE u # r
      BY <1>0, <2>2, <3>1, <3>2 DEF ShowResolves, Answers
    <3>3. CASE u = r
      <4>1. ~Misses(view[r]) BY <2>2, <3>1, <3>3 DEF ShowResolves
      <4>2. Answers(r, view[r]) BY <2>2, <3>3, <4>1 DEF ShowResolves
      <4>3. QED BY <1>0, <3>1, <4>2 DEF Answers
    <3>4. QED BY <3>2, <3>3
  <2>3. CASE ShowRecaptures(u)
    <3>1. Answers(u, active) /\ view' = [view EXCEPT ![u] = active] /\ pc[u] = "recapture"
      BY <2>3 DEF ShowRecaptures
    <3>2. QED BY <1>0, <3>1 DEF Answers
  <2>4. QED BY <1>8, <2>1, <2>2, <2>3 DEF Show
<1>9. CASE Environment \/ UNCHANGED vars
  <2>1. UNCHANGED <<view, answer, pc>>
    BY <1>9 DEF Environment, EditSource, EditExternal, EditKey, ListingChanges, UpstreamToggles,
                beforeFiles, vars
  <2>2. QED BY <1>1, <2>1
<1>10. QED BY <1>3, <1>4, <1>5, <1>6, <1>7, <1>8, <1>9 DEF Next

\* A show request is answered by a snapshot that accepts its token, also when it
\* waited for a refresh and took another snapshot.
THEOREM AnswersAreAuthorized == Spec => []AnswerAuthorized
<1>1. Init => AnswerInv
  BY DEF Init, AnswerInv, None
<1>2. TypeOK /\ AnswerInv /\ [Next]_vars => AnswerInv'
  BY AnswerStep
<1>3. AnswerInv => AnswerAuthorized BY DEF AnswerInv, AnswerAuthorized
<1>4. QED BY TypeCorrect, <1>1, <1>2, <1>3, PTL DEF Spec
----------------------------------------------------------------------------
\* Only Run's draining step changes `draining`.
LEMMA WhoDrains ==
    ASSUME [Next]_vars
    PROVE  UNCHANGED draining \/ RunDrains
<1> USE DEF stopping
<1>1. CASE RefreshTimer \/ RefresherExits \/ MissWindowPasses
  BY <1>1 DEF RefreshTimer, RefresherExits, MissWindowPasses, besideRefresh
<1>2. ASSUME NEW t \in Refreshers, Refresh(t) PROVE UNCHANGED draining
  BY <1>2 DEF Refresh, RefreshSkips, RefreshBegins, RefreshDiscovers, RefreshFails,
              RefreshRechecks, RefreshEnters, RefreshDrops, RefreshCompares, RefreshPublishes,
              RefreshLoaded, besideRefresh
<1>3. CASE TokensWake \/ TokensExit \/ ReloadTokens
  BY <1>3 DEF TokensWake, TokensExit, ReloadTokens, TokensSkip, TokensBegin, TokensLoad,
              TokensRead, TokensRejected, TokensEnter, TokensDrop, TokensCompare, TokensPublish,
              TokensWakeConfig, besideTokens
<1>4. CASE ConfigWakes \/ ConfigExits \/ ReloadConfig
  BY <1>4 DEF ConfigWakes, ConfigExits, ReloadConfig, ConfigLoads, ConfigReadsKey,
              ConfigDiscovers, ConfigFails, ConfigRechecksSource, ConfigRechecksKey, ConfigLocks,
              ConfigEnters, ConfigDrops, ConfigCompares, ConfigPublishes, ConfigLoaded,
              besideConfig
<1>5. CASE RunStops \/ Run
  BY <1>5 DEF RunStops, Run, RunLocks, RunCancels, besideRun
<1>6. ASSUME NEW r \in Requests, Show(r) PROVE UNCHANGED draining
  BY <1>6 DEF Show, ShowCaptures, ShowResolves, ShowRecaptures, besideShow
<1>7. CASE Environment \/ UNCHANGED vars
  BY <1>7 DEF Environment, EditSource, EditExternal, EditKey, ListingChanges, UpstreamToggles,
              beforeFiles, vars
<1>8. QED BY <1>1, <1>2, <1>3, <1>4, <1>5, <1>6, <1>7 DEF Next

\* Every step is a whole step of SnapshotStore or changes nothing it sees.
LEMMA StoreStep ==
    ASSUME IndInv, [Next]_vars
    PROVE  [Store!StoreNext]_(Store!storeVars)
<1>0. /\ TypeOK /\ PublishInv /\ JobInv /\ active \in Snapshots
  BY DEF IndInv, TypeOK, DataTypeOK
<1>1. ASSUME NEW t \in Refreshers, RefreshPublishes(t) PROVE Store!PublishCatalog
  <2>1. pc[t] = "store" /\ UNCHANGED <<newest, authState, loaded, draining>>
    BY <1>1 DEF RefreshPublishes, besideRefresh, stopping, tokenReload, At
  <2>2. ~draining BY <1>0, <2>1 DEF PublishInv, Publishers
  <2>3. active' = [active EXCEPT !.catalog = [client  |-> refreshJob[t].client,
                                              listing |-> refreshJob[t].listing]]
    BY <1>0, <1>1, Effects
  <2>4. /\ refreshJob[t].client = active.client
        /\ refreshJob[t].listing >= active.catalog.listing /\ refreshJob[t].listing > 0
    BY <1>0, <2>1 DEF JobInv, RefreshJobOK, RefreshWorking
  <2>5. /\ active'.catalog.client = active.client
        /\ active'.catalog.listing >= active.catalog.listing /\ active'.catalog.listing > 0
        /\ active' = [active EXCEPT !.catalog = active'.catalog]
    BY <1>0, <2>3, <2>4 DEF Snapshots
  <2>6. QED BY <2>1, <2>2, <2>5 DEF Store!PublishCatalog
<1>2. CASE TokensPublish
  <2>1. pc["auth"] = "store" /\ UNCHANGED <<loaded, draining>> /\ authState' = authJob.tokens
    BY <1>2 DEF TokensPublish, besideTokens, stopping, At
  <2>2. ~draining BY <1>0, <2>1 DEF PublishInv, Publishers
  <2>3. active' = [active EXCEPT !.auth = authJob.auth, !.tokens = authJob.tokens]
    BY <1>0, <1>2, Effects
  <2>4. /\ authJob.auth >= active.auth
        /\ Store!NotRevived(authJob.tokens.inline, newest.inline)
        /\ Store!NotRevived(authJob.tokens.external, newest.external)
    BY <1>0, <2>1 DEF JobInv, TokensJobOK, TokenReading
  <2>5. /\ active'.auth = authJob.auth /\ active'.tokens = authJob.tokens
        /\ active' = [active EXCEPT !.auth = active'.auth, !.tokens = active'.tokens]
    BY <1>0, <2>3 DEF Snapshots
  <2>6. newest' = [inline   |-> Store!Seen(active'.tokens.inline, newest.inline),
                   external |-> Store!Seen(active'.tokens.external, newest.external)]
    BY <1>2, <2>5 DEF TokensPublish
  <2>7. QED BY <2>1, <2>2, <2>4, <2>5, <2>6 DEF Store!PublishTokens, Store!StoreNext
<1>3. CASE ConfigPublishes
  <2>1. pc["config"] = "store" /\ UNCHANGED <<newest, authState, loaded, draining>>
    BY <1>3 DEF ConfigPublishes, besideConfig, stopping, At
  <2>2. ~draining BY <1>0, <2>1 DEF PublishInv, Publishers
  <2>3. active' = [cfg     |-> configJob.candidate.cfg,
                   key     |-> configJob.newKey,
                   auth    |-> active.auth,
                   tokens  |-> active.tokens,
                   client  |-> NewClient,
                   catalog |-> [client |-> NewClient, listing |-> configJob.listing],
                   gen     |-> active.gen + 1]
    BY <1>0, <1>3, Effects
  <2>4. /\ configJob.candidate.cfg >= active.cfg /\ configJob.newKey >= active.key
        /\ configJob.candidate.cfg # active.cfg \/ configJob.newKey # active.key
        /\ configJob.listing > 0
    BY <1>0, <2>1 DEF JobInv, ConfigJobOK, ConfigWorking
  <2>5. /\ active'.cfg = configJob.candidate.cfg /\ active'.key = configJob.newKey
        /\ active'.client = NewClient /\ active'.catalog.client = NewClient
        /\ active'.catalog.listing = configJob.listing
    BY <2>3
  <2>6. /\ active'.auth = active.auth /\ active'.tokens = active.tokens
        /\ active'.gen = active.gen + 1
    BY <2>3
  <2>7. QED BY <2>1, <2>2, <2>4, <2>5, <2>6 DEF Store!PublishConfig, Store!StoreNext, NewClient
<1>4. CASE UNCHANGED active /\ ~TokensPublish
  <2>1. UNCHANGED <<newest, authState>>
    <3>1. CASE TokensFrame
      BY <1>4, <3>1 DEF TokensFrame, TokensWake, TokensExit, ReloadTokens, TokensSkip,
                        TokensBegin, TokensLoad, TokensRead, TokensRejected, TokensEnter,
                        TokensDrop, TokensCompare, TokensWakeConfig, published, tokenReload
    <3>2. QED BY <1>0, <3>1, Frames DEF RefreshFrame, ConfigFrame, OutsideFrame
  <2>2. CASE UNCHANGED draining
    <3>1. CASE UNCHANGED loaded BY <1>4, <2>1, <2>2, <3>1 DEF Store!storeVars
    <3>2. CASE loaded' # loaded
      <4>1. loaded' = TRUE /\ active.catalog.listing > 0
        BY <1>0, <3>2, WhoSetsLoaded DEF JobInv, ReadyOK
      <4>2. QED BY <1>4, <2>1, <2>2, <4>1 DEF Store!StoreNext, Store!BecomeReady
    <3>3. QED BY <3>1, <3>2
  <2>3. CASE RunDrains
    BY <1>4, <2>1, <2>3 DEF RunDrains, Store!StoreNext, Store!CloseStore, besideRun, published
  <2>4. QED BY <2>2, <2>3, WhoDrains
<1>5. QED BY <1>1, <1>2, <1>3, <1>4, WhoPublishes DEF Store!StoreNext

\* Publication implements SnapshotStore.
THEOREM Refinement == Spec => ImplementsStore
<1>1. Init => Store!StoreInit
  BY DEF Init, Store!StoreInit, Store!FirstSnapshot
<1>2. IndInv /\ [Next]_vars => [Store!StoreNext]_(Store!storeVars)
  BY StoreStep
<1>3. QED BY Invariance, <1>1, <1>2, PTL DEF Spec, ImplementsStore, Store!StoreSpec
=============================================================================
