--------------------------- MODULE SnapshotStore ---------------------------
(***************************************************************************)
(* What the server promises about the snapshot every request starts from:  *)
(* one record that changes in whole steps.  A token reload replaces the    *)
(* accepted tokens and nothing else, a catalog refresh replaces the        *)
(* catalog and nothing else, a configuration reload replaces               *)
(* configuration, key, client and catalog together, keeps the tokens and   *)
(* opens a new generation, and after draining has begun nothing changes.   *)
(* What the next token reload falls back on is what is accepted now, and   *)
(* the server is ready once it has a catalog, for good.                    *)
(* Publication, the detailed specification, implements this one.           *)
(*                                                                         *)
(* Each action constrains store' and says which fields it may change: the  *)
(* module is a contract to be implemented, not a program to be executed.   *)
(***************************************************************************)
EXTENDS Naturals

VARIABLES
    store,      \* the published snapshot
    newest,     \* the newest token version ever published, per source
    remembered, \* the token versions a failed read falls back on
    ready,      \* requests have a catalog to start from
    closed      \* draining has begun

storeVars == <<store, newest, remembered, ready, closed>>

FirstSnapshot ==
    LET client == [cfg |-> 1, key |-> 1]
    IN  [cfg |-> 1, key |-> 1, auth |-> 1, tokens |-> [inline |-> 1, external |-> 1],
         client |-> client, catalog |-> [client |-> client, listing |-> 0], gen |-> 1]

StoreInit ==
    /\ store = FirstSnapshot
    /\ newest = [inline |-> 1, external |-> 1]
    /\ remembered = store.tokens
    /\ ready = FALSE /\ closed = FALSE

\* A published token version is none (0), or no older than any published before
\* it: a revoked version never comes back, not even after an expiry.
NotRevived(version, seen) == version = 0 \/ version >= seen

\* The newest version seen once `version` has been published.
Seen(version, seen) == IF version = 0 THEN seen ELSE version

PublishTokens ==
    /\ ~closed
    /\ NotRevived(store'.tokens.inline, newest.inline)
    /\ NotRevived(store'.tokens.external, newest.external)
    /\ store'.auth >= store.auth
    /\ store' = [store EXCEPT !.auth = store'.auth, !.tokens = store'.tokens]
    /\ newest' = [inline   |-> Seen(store'.tokens.inline, newest.inline),
                  external |-> Seen(store'.tokens.external, newest.external)]
    /\ remembered' = store'.tokens
    /\ UNCHANGED <<ready, closed>>

\* A refreshed catalog comes through the published client, and never from an
\* older listing than the catalog it replaces.
PublishCatalog ==
    /\ ~closed
    /\ store'.catalog.client = store.client
    /\ store'.catalog.listing > 0 /\ store'.catalog.listing >= store.catalog.listing
    /\ store' = [store EXCEPT !.catalog = store'.catalog]
    /\ UNCHANGED <<newest, remembered, ready, closed>>

\* Configuration, key, client and catalog change together; the tokens stay, and
\* neither the configuration nor the key goes back to an older one.
PublishConfig ==
    /\ ~closed
    /\ store'.cfg >= store.cfg /\ store'.key >= store.key
    /\ store'.cfg # store.cfg \/ store'.key # store.key
    /\ store'.client = [cfg |-> store'.cfg, key |-> store'.key]
    /\ store'.catalog.client = store'.client /\ store'.catalog.listing > 0
    /\ store'.auth = store.auth /\ store'.tokens = store.tokens
    /\ store'.gen = store.gen + 1
    /\ UNCHANGED <<newest, remembered, ready, closed>>

\* The server is ready once what is published holds a discovered catalog.
BecomeReady ==
    /\ store.catalog.listing > 0
    /\ ready' = TRUE
    /\ UNCHANGED <<store, newest, remembered, closed>>

CloseStore ==
    /\ closed' = TRUE
    /\ UNCHANGED <<store, newest, remembered, ready>>

StoreNext == PublishTokens \/ PublishCatalog \/ PublishConfig \/ BecomeReady \/ CloseStore

StoreSpec == StoreInit /\ [][StoreNext]_storeVars
=============================================================================
