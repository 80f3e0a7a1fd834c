-------------------------- MODULE PrefixRegistry --------------------------
(***************************************************************************)
(* bk/prefix_registry.go: the map from each known ASN to its IPv6 prefixes *)
(* that classification reads.  The process starts with the embedded map; a *)
(* background refresh tries the remote sources in order, fetching manifest *)
(* and snapshot of every ASN concurrently, and publishes a complete map or *)
(* none.  Meanwhile the repository publishes new versions and caches may   *)
(* still serve any earlier one, file by file.                              *)
(***************************************************************************)
EXTENDS Integers, FiniteSets

CONSTANTS
    KnownASNs,   \* knownPrefixASNs
    NumSources,  \* how many sources there are: cdn and raw in the code
    Versions,    \* versions of a snapshot with its manifest
    FirstVersion,
    Embedded,    \* the version compiled into the program
    Invalid,     \* a manifest that is none
    Damaged      \* a snapshot cut short or replaced on the way

ASSUME SourcesAssumption == NumSources \in Nat /\ IsFiniteSet(KnownASNs)
ASSUME VersionsAssumption == /\ FirstVersion \in Versions
                             /\ {Embedded, Invalid, Damaged} \cap Versions = {}
                             /\ Embedded # Damaged /\ Invalid # Damaged

Sources == 1 .. NumSources

VARIABLES
    published,    \* per ASN, the versions the repository has published so far
    embeddedOK,   \* the embedded snapshots agree with the embedded manifests
    active,       \* activeASNPrefixes: where each ASN's list comes from
    started,      \* refreshASNPrefixesOnce has run
    ctxEnded,     \* the 15 seconds of the refresh have passed
    source,       \* the source LoadASNPrefixRegistry tries
    fpc,          \* where the fetch goroutine of each source and ASN is
    fetched,      \* the manifest each of them has fetched
    results,      \* per source, the channel results
    loaded,       \* result of fetchASNPrefixSource, filled as results arrive
    refresh       \* "idle", "collect", "embedded", "stored" or "failed"

fetchVars == <<fpc, fetched>>
vars == <<published, embeddedOK, active, started, ctxEnded, source, fetchVars, results,
          loaded, refresh>>

(* A list of prefixes, by its version and the source it was loaded from.   *)
List == [version : Versions \cup {Embedded, Damaged}, from : 0 .. NumSources]
EmbeddedMap == [a \in KnownASNs |-> [version |-> Embedded, from |-> 0]]
NoList == [version |-> Invalid, from |-> 0]
Result == [asn : KnownASNs, list : List \cup {NoList}]

TypeOK ==
    /\ published \in [KnownASNs -> SUBSET Versions]
    /\ active \in [KnownASNs -> List]
    /\ {embeddedOK, started, ctxEnded} \subseteq BOOLEAN
    /\ source \in 0 .. NumSources
    /\ fpc \in [Sources -> [KnownASNs -> {"idle", "manifest", "snapshot", "done"}]]
    /\ fetched \in [Sources -> [KnownASNs -> Versions \cup {Invalid}]]
    /\ results \in [Sources -> SUBSET Result]
    /\ loaded \in [KnownASNs -> List \cup {NoList}]
    /\ refresh \in {"idle", "collect", "embedded", "stored", "failed"}

Init ==
    /\ published = [a \in KnownASNs |-> {FirstVersion}]
    /\ embeddedOK \in BOOLEAN
    /\ active = EmbeddedMap
    /\ started = FALSE /\ ctxEnded = FALSE /\ source = 0
    /\ fpc = [k \in Sources |-> [a \in KnownASNs |-> "idle"]]
    /\ fetched = [k \in Sources |-> [a \in KnownASNs |-> Invalid]]
    /\ results = [k \in Sources |-> {}]
    /\ loaded = [a \in KnownASNs |-> NoList]
    /\ refresh = "idle"

-----------------------------------------------------------------------------
(* A commit to the repository (PrefixUpdater leaves each pair consistent). *)
Publish ==
    /\ \E a \in KnownASNs : \E v \in Versions \ published[a] :
          published' = [published EXCEPT ![a] = @ \cup {v}]
    /\ UNCHANGED <<embeddedOK, active, started, ctxEnded, source, fetchVars, results, loaded,
                   refresh>>

(* The loop of LoadASNPrefixRegistry goes on to source k: its goroutines   *)
(* start; without another source the embedded map is loaded.               *)
TrySource(k) ==
    IF k <= NumSources
    THEN /\ source' = k /\ refresh' = "collect"
         /\ fpc' = [fpc EXCEPT ![k] = [a \in KnownASNs |-> "manifest"]]
         /\ loaded' = [a \in KnownASNs |-> NoList]
    ELSE refresh' = "embedded" /\ UNCHANGED <<source, fpc, loaded>>

(* StartASNPrefixRefresh: only the first call has an effect.               *)
StartRefresh ==
    /\ ~started
    /\ started' = TRUE
    /\ TrySource(1)
    /\ UNCHANGED <<published, embeddedOK, active, ctxEnded, fetched, results>>

Timeout ==
    /\ started /\ ~ctxEnded
    /\ ctxEnded' = TRUE
    /\ UNCHANGED <<published, embeddedOK, active, started, source, fetchVars, results, loaded,
                   refresh>>

(* results <- prefixResult: the buffer has room for every ASN.             *)
ResultsCap == Cardinality(KnownASNs)

Send(k, a, list) ==
    /\ Cardinality(results[k]) < ResultsCap
    /\ results' = [results EXCEPT ![k] = @ \cup {[asn |-> a, list |-> list]}]
    /\ fpc' = [fpc EXCEPT ![k][a] = "done"]

FetchManifest(k, a) ==
    /\ fpc[k][a] = "manifest" /\ ~ctxEnded
    /\ \E m \in published[a] \cup {Invalid} : fetched' = [fetched EXCEPT ![k][a] = m]
    /\ fpc' = [fpc EXCEPT ![k][a] = "snapshot"]
    /\ UNCHANGED <<published, embeddedOK, active, started, ctxEnded, source, results, loaded,
                   refresh>>

(* validatePrefixManifest: count and hash are those of the snapshot.       *)
WellFormed(m, body) == m # Invalid

Valid(m, body) == m # Invalid /\ m = body

FetchSnapshot(k, a) ==
    /\ fpc[k][a] = "snapshot" /\ ~ctxEnded
    /\ \E body \in published[a] \cup {Damaged} :
          Send(k, a, IF Valid(fetched[k][a], body) THEN [version |-> body, from |-> k] ELSE NoList)
    /\ UNCHANGED <<published, embeddedOK, active, started, ctxEnded, source, fetched, loaded,
                   refresh>>

(* An HTTP error, a timeout of the client or the end of the context.       *)
FetchFails(k, a) ==
    /\ fpc[k][a] \in {"manifest", "snapshot"}
    /\ Send(k, a, NoList)
    /\ UNCHANGED <<published, embeddedOK, active, started, ctxEnded, source, fetched, loaded,
                   refresh>>

(* fetchASNPrefixSource takes the results as they come: the first error    *)
(* abandons the source and the goroutines it still has.                    *)
Collect(r) ==
    /\ refresh = "collect" /\ r \in results[source]
    /\ results' = [results EXCEPT ![source] = @ \ {r}]

RetrySource ==
    /\ \E r \in results[source] : Collect(r) /\ r.list = NoList
    /\ TrySource(source)
    /\ UNCHANGED <<published, embeddedOK, active, started, ctxEnded, fetched>>

CollectError ==
    /\ \E r \in results[source] : Collect(r) /\ r.list = NoList
    /\ TrySource(source + 1)
    /\ UNCHANGED <<published, embeddedOK, active, started, ctxEnded, fetched>>

StoresEach(r) == active' = [active EXCEPT ![r.asn] = r.list]

(* RefreshASNPrefixRegistry stores the map once the last ASN has arrived.  *)
Stores(r) ==
    IF \A a \in KnownASNs \ {r.asn} : loaded[a] # NoList
    THEN active' = [loaded EXCEPT ![r.asn] = r.list]
    ELSE UNCHANGED active

CollectList ==
    /\ \E r \in results[source] :
          /\ Collect(r) /\ r.list # NoList
          /\ loaded' = [loaded EXCEPT ![r.asn] = r.list]
          /\ Stores(r)
    /\ refresh' = IF \A a \in KnownASNs : loaded'[a] # NoList THEN "stored" ELSE "collect"
    /\ UNCHANGED <<published, embeddedOK, started, ctxEnded, source, fetchVars>>

(* No source was usable: the embedded map, if its manifests validate.      *)
LoadEmbedded ==
    /\ refresh = "embedded" /\ embeddedOK
    /\ active' = EmbeddedMap /\ refresh' = "stored"
    /\ UNCHANGED <<published, embeddedOK, started, ctxEnded, source, fetchVars, results, loaded>>

LoadFailsStores ==
    /\ refresh = "embedded" /\ ~embeddedOK
    /\ active' = loaded /\ refresh' = "failed"
    /\ UNCHANGED <<published, embeddedOK, started, ctxEnded, source, fetchVars, results, loaded>>

LoadFails ==
    /\ refresh = "embedded" /\ ~embeddedOK
    /\ refresh' = "failed"
    /\ UNCHANGED <<published, embeddedOK, active, started, ctxEnded, source, fetchVars, results,
                   loaded>>

Collector == CollectError \/ CollectList \/ LoadEmbedded \/ LoadFails

Fetcher(k, a) == FetchManifest(k, a) \/ FetchSnapshot(k, a) \/ FetchFails(k, a)

FetchersDone == \A k \in Sources, a \in KnownASNs : fpc[k][a] \in {"idle", "done"}
Refreshed == refresh \in {"stored", "failed"} /\ FetchersDone

(* The refresh is over; the process goes on with the map it has.           *)
Finished == Refreshed /\ UNCHANGED vars

Next ==
    \/ Publish \/ StartRefresh \/ Timeout
    \/ \E k \in Sources, a \in KnownASNs : Fetcher(k, a)
    \/ (source # 0 /\ Collector)
    \/ Finished

(* Goroutines run and requests end: the client has a timeout of its own.   *)
Fairness ==
    /\ WF_vars(source # 0 /\ Collector)
    /\ \A k \in Sources, a \in KnownASNs : WF_vars(Fetcher(k, a))

Spec == Init /\ [][Next]_vars /\ Fairness

-----------------------------------------------------------------------------
(* Whatever is lost, cut short, cached or published while it is fetched:   *)
(* every list in use is one the repository published for that ASN, or the  *)
(* embedded one.                                                           *)
OnlyPublished == \A a \in KnownASNs : active[a].version \in published[a] \cup {Embedded}

(* Readers take the map without a lock.  They always see the lists of all  *)
(* ASNs from one source, never some from one and some from another.        *)
NeverMixed == \A a, b \in KnownASNs : active[a].from = active[b].from

(* "the embedded map remains active on any error" (comment above           *)
(* StartASNPrefixRefresh): only a source all of whose results were good    *)
(* replaces it, and once a map has been loaded no reader goes back.        *)
EmbeddedUntilLoaded ==
    [][active' # active => active = EmbeddedMap /\ refresh' = "stored" /\ active' = loaded']_vars

(* The background refresh ends, and so does every goroutine of a source    *)
(* that was abandoned at its first error.                                  *)
RefreshEnds == started ~> Refreshed
=============================================================================
