----------------------- MODULE PrefixRegistry_proofs -----------------------
(***************************************************************************)
(* Proofs about PrefixRegistry, and about the lookups of ASNLookup, for    *)
(* every value of their constants.                                         *)
(***************************************************************************)
EXTENDS ASNLookup, FiniteSetTheorems, WellFoundedInduction, TLAPS

(* A list that source k delivered for a is a version published for a.      *)
FetchedFrom(k, a, list) == list.version \in published[a] /\ list.from = k

(* What a goroutine delivers is no list, or one fetched from its source.   *)
DeliveredInv ==
    \A k \in Sources : \A r \in results[k] :
        r.list # NoList => FetchedFrom(k, r.asn, r.list)

(* The map being filled holds lists of the source that is tried.           *)
LoadedInv == \A a \in KnownASNs : loaded[a] # NoList => FetchedFrom(source, a, loaded[a])

(* A map is stored in the last step of the refresh, and at most once.      *)
StoredLast == refresh # "stored" => active = EmbeddedMap

(* Where the refresh is: before its start, and while it has a source.      *)
RefreshInv ==
    /\ ~started => refresh = "idle"
    /\ refresh = "collect" => source \in Sources

(* The inductive invariant.  OnlyPublished and NeverMixed alone are not    *)
(* inductive: that a map is good when it is stored rests on what has been  *)
(* delivered and loaded before, which they do not mention.                 *)
IInv ==
    /\ TypeOK /\ DeliveredInv /\ LoadedInv /\ StoredLast /\ RefreshInv
    /\ OnlyPublished /\ NeverMixed

-----------------------------------------------------------------------------
(* The records of the model: lists, and the absence of one.                *)
LEMMA Lists ==
    /\ EmbeddedMap \in [KnownASNs -> List]
    /\ NoList \in List \cup {NoList}
    /\ \A k \in Sources, v \in Versions : [version |-> v, from |-> k] \in List
    /\ Sources \subseteq 0 .. NumSources
BY SourcesAssumption DEF EmbeddedMap, List, NoList, Sources

(* A snapshot that passes validation is the published one its manifest     *)
(* describes.                                                              *)
LEMMA ValidIsPublished ==
    ASSUME TypeOK, NEW k \in Sources, NEW a \in KnownASNs,
           NEW body \in published[a] \cup {Damaged}, Valid(fetched[k][a], body)
    PROVE  body \in published[a] /\ body \in Versions
BY VersionsAssumption DEF TypeOK, Valid

LEMMA InitInv == Init => IInv
<1> SUFFICES ASSUME Init PROVE IInv
  OBVIOUS
<1>1. TypeOK
  <2>1. /\ published \in [KnownASNs -> SUBSET Versions]
        /\ active \in [KnownASNs -> List]
    BY Lists, VersionsAssumption DEF Init
  <2>2. {embeddedOK, started, ctxEnded} \subseteq BOOLEAN /\ source \in 0 .. NumSources
    <3>1. embeddedOK \in BOOLEAN /\ started \in BOOLEAN /\ ctxEnded \in BOOLEAN
      BY DEF Init
    <3>2. source \in 0 .. NumSources
      BY SourcesAssumption DEF Init
    <3>3. {embeddedOK, started, ctxEnded} \subseteq BOOLEAN
      BY <3>1, Zenon
    <3> QED
      BY <3>2, <3>3
  <2>3. /\ fpc \in [Sources -> [KnownASNs -> {"idle", "manifest", "snapshot", "done"}]]
        /\ fetched \in [Sources -> [KnownASNs -> Versions \cup {Invalid}]]
    BY DEF Init
  <2>4. /\ results \in [Sources -> SUBSET Result]
        /\ loaded \in [KnownASNs -> List \cup {NoList}]
        /\ refresh \in {"idle", "collect", "embedded", "stored", "failed"}
    BY Lists DEF Init
  <2> QED
    BY <2>1, <2>2, <2>3, <2>4 DEF TypeOK
<1>2. DeliveredInv /\ LoadedInv /\ StoredLast /\ RefreshInv
  BY DEF Init, DeliveredInv, LoadedInv, StoredLast, RefreshInv
<1>3. OnlyPublished /\ NeverMixed
  BY DEF Init, OnlyPublished, NeverMixed, EmbeddedMap
<1> QED
  BY <1>1, <1>2, <1>3 DEF IInv

(* The goroutines of a source: one step of them.                           *)
LEMMA SendKeeps ==
    ASSUME IInv, NEW k \in Sources, NEW a \in KnownASNs, NEW list \in List \cup {NoList},
           Send(k, a, list), list # NoList => FetchedFrom(k, a, list),
           UNCHANGED <<published, embeddedOK, active, started, ctxEnded, source, fetched,
                       loaded, refresh>>
    PROVE  IInv'
<1>1. [asn |-> a, list |-> list] \in Result
  BY DEF Result
<1>2. TypeOK'
  BY <1>1 DEF IInv, TypeOK, Send
<1>3. DeliveredInv'
  <2> SUFFICES ASSUME NEW j \in Sources, NEW r \in results'[j], r.list # NoList
               PROVE  FetchedFrom(j, r.asn, r.list)'
    BY DEF DeliveredInv
  <2>1. r \in results[j] \/ (j = k /\ r = [asn |-> a, list |-> list])
    BY DEF IInv, TypeOK, Send
  <2> QED
    BY <2>1 DEF IInv, DeliveredInv, FetchedFrom
<1>4. LoadedInv' /\ StoredLast' /\ RefreshInv'
  BY DEF IInv, LoadedInv, FetchedFrom, StoredLast, RefreshInv
<1>5. OnlyPublished' /\ NeverMixed'
  BY DEF IInv, OnlyPublished, NeverMixed
<1> QED
  BY <1>2, <1>3, <1>4, <1>5 DEF IInv

LEMMA FetcherKeeps ==
    ASSUME IInv, NEW k \in Sources, NEW a \in KnownASNs, Fetcher(k, a)
    PROVE  IInv'
<1>1. CASE FetchManifest(k, a)
  <2>1. TypeOK'
    BY <1>1 DEF FetchManifest, IInv, TypeOK
  <2>2. DeliveredInv' /\ LoadedInv' /\ StoredLast' /\ RefreshInv'
    BY <1>1 DEF FetchManifest, IInv, DeliveredInv, LoadedInv, FetchedFrom, StoredLast, RefreshInv
  <2>3. OnlyPublished' /\ NeverMixed'
    BY <1>1 DEF FetchManifest, IInv, OnlyPublished, NeverMixed
  <2> QED
    BY <2>1, <2>2, <2>3 DEF IInv
<1>2. CASE FetchSnapshot(k, a)
  <2>1. PICK body \in published[a] \cup {Damaged} :
            Send(k, a, IF Valid(fetched[k][a], body) THEN [version |-> body, from |-> k]
                       ELSE NoList)
    BY <1>2 DEF FetchSnapshot
  <2>2. CASE Valid(fetched[k][a], body)
    <3>1. body \in published[a] /\ [version |-> body, from |-> k] \in List
      BY <2>2, ValidIsPublished, Lists DEF IInv
    <3> QED
      BY <1>2, <2>1, <2>2, <3>1, SendKeeps DEF FetchSnapshot, FetchedFrom
  <2>3. CASE ~Valid(fetched[k][a], body)
    BY <1>2, <2>1, <2>3, SendKeeps DEF FetchSnapshot
  <2> QED
    BY <2>2, <2>3
<1>3. CASE FetchFails(k, a)
  BY <1>3, SendKeeps DEF FetchFails
<1> QED
  BY <1>1, <1>2, <1>3 DEF Fetcher

-----------------------------------------------------------------------------
(* The loop of LoadASNPrefixRegistry goes on, to a source it has not tried *)
(* or to the embedded map.                                                 *)
LEMMA TrySourceKeeps ==
    ASSUME IInv, NEW k \in 1 .. NumSources + 1, TrySource(k), refresh # "stored",
           results' \in [Sources -> SUBSET Result],
           \A j \in Sources : results'[j] \subseteq results[j],
           started', UNCHANGED <<published, embeddedOK, active, ctxEnded, fetched>>
    PROVE  IInv'
<1>1. NumSources \in Nat /\ (k <= NumSources => k \in Sources)
  BY SourcesAssumption DEF Sources
<1>2. TypeOK'
  BY <1>1, Lists DEF IInv, TypeOK, TrySource
<1>3. DeliveredInv'
  BY DEF IInv, DeliveredInv, FetchedFrom
<1>4. LoadedInv'
  BY DEF IInv, TypeOK, LoadedInv, FetchedFrom, TrySource
<1>5. StoredLast' /\ RefreshInv'
  BY <1>1 DEF IInv, StoredLast, RefreshInv, TrySource
<1>6. OnlyPublished' /\ NeverMixed'
  BY DEF IInv, OnlyPublished, NeverMixed
<1> QED
  BY <1>2, <1>3, <1>4, <1>5, <1>6 DEF IInv

LEMMA CollectErrorKeeps ==
    ASSUME IInv, CollectError
    PROVE  IInv'
<1>1. PICK r \in results[source] : Collect(r)
  BY DEF CollectError
<1>2. source \in Sources /\ source + 1 \in 1 .. NumSources + 1 /\ refresh # "stored"
  BY <1>1, SourcesAssumption DEF IInv, RefreshInv, Collect, Sources
<1>3. started'
  BY <1>1 DEF IInv, RefreshInv, Collect, CollectError
<1>4. /\ results' \in [Sources -> SUBSET Result]
      /\ \A j \in Sources : results'[j] \subseteq results[j]
  BY <1>1, <1>2 DEF IInv, TypeOK, Collect
<1> QED
  BY <1>2, <1>3, <1>4, TrySourceKeeps DEF CollectError

(* The last list completes the map, and all its lists are of one source.   *)
LEMMA CollectListKeeps ==
    ASSUME IInv, CollectList
    PROVE  /\ IInv'
           /\ active' # active => active = EmbeddedMap /\ refresh' = "stored" /\ active' = loaded'
<1>1. PICK r \in results[source] :
          /\ Collect(r) /\ r.list # NoList
          /\ loaded' = [loaded EXCEPT ![r.asn] = r.list]
          /\ Stores(r)
  BY DEF CollectList
<1>2. source \in Sources /\ refresh = "collect" /\ started
  BY <1>1 DEF IInv, RefreshInv, Collect
<1>3. r.asn \in KnownASNs /\ r.list \in List /\ FetchedFrom(source, r.asn, r.list)
  BY <1>1, <1>2 DEF IInv, TypeOK, DeliveredInv, Result
<1>4. /\ loaded' \in [KnownASNs -> List \cup {NoList}]
      /\ results' \in [Sources -> SUBSET Result]
      /\ \A j \in Sources : results'[j] \subseteq results[j]
  BY <1>1, <1>2, <1>3 DEF IInv, TypeOK, Collect
<1>5. \A a \in KnownASNs : loaded'[a] # NoList => FetchedFrom(source, a, loaded'[a])
  BY <1>1, <1>3 DEF IInv, TypeOK, LoadedInv
<1>6. UNCHANGED <<published, embeddedOK, started, ctxEnded, source, fpc, fetched>>
  BY DEF CollectList, fetchVars
<1>7. DeliveredInv' /\ LoadedInv'
  BY <1>4, <1>5, <1>6 DEF IInv, DeliveredInv, LoadedInv, FetchedFrom
<1>8. CASE \A a \in KnownASNs \ {r.asn} : loaded[a] # NoList
  <2>1. active' = loaded' /\ \A a \in KnownASNs : loaded'[a] # NoList
    BY <1>1, <1>3, <1>8 DEF Stores, IInv, TypeOK
  <2>2. refresh' = "stored"
    BY <2>1 DEF CollectList
  <2>3. active' \in [KnownASNs -> List]
    BY <1>4, <2>1
  <2>4. TypeOK'
    BY <1>4, <1>6, <2>2, <2>3 DEF IInv, TypeOK
  <2>5. StoredLast' /\ RefreshInv'
    BY <1>2, <1>6, <2>2 DEF StoredLast, RefreshInv
  <2>6. OnlyPublished' /\ NeverMixed'
    BY <1>5, <1>6, <2>1 DEF OnlyPublished, NeverMixed, FetchedFrom
  <2>7. active = EmbeddedMap
    BY <1>2 DEF IInv, StoredLast
  <2> QED
    BY <1>7, <2>1, <2>2, <2>4, <2>5, <2>6, <2>7 DEF IInv
<1>9. CASE ~ \A a \in KnownASNs \ {r.asn} : loaded[a] # NoList
  <2>1. active' = active /\ refresh' = "collect"
    BY <1>1, <1>3, <1>9 DEF Stores, CollectList, IInv, TypeOK
  <2>2. TypeOK'
    BY <1>4, <1>6, <2>1 DEF IInv, TypeOK
  <2>3. StoredLast' /\ RefreshInv'
    BY <1>2, <1>6, <2>1 DEF IInv, StoredLast, RefreshInv
  <2>4. OnlyPublished' /\ NeverMixed'
    BY <1>6, <2>1 DEF IInv, OnlyPublished, NeverMixed
  <2> QED
    BY <1>7, <2>1, <2>2, <2>3, <2>4 DEF IInv
<1> QED
  BY <1>8, <1>9

(* Without a usable source the embedded map is kept, stored or not.        *)
LEMMA EmbeddedKeeps ==
    ASSUME IInv, LoadEmbedded \/ LoadFails
    PROVE  IInv' /\ active' = active
<1>1. active' = active /\ refresh' \in {"stored", "failed"} /\ started
  BY DEF LoadEmbedded, LoadFails, IInv, StoredLast, RefreshInv
<1>2. UNCHANGED <<published, embeddedOK, started, ctxEnded, source, fpc, fetched, results, loaded>>
  BY DEF LoadEmbedded, LoadFails, fetchVars
<1>3. TypeOK'
  BY <1>1, <1>2 DEF IInv, TypeOK
<1>4. DeliveredInv' /\ LoadedInv'
  BY <1>2 DEF IInv, DeliveredInv, LoadedInv, FetchedFrom
<1>5. StoredLast' /\ RefreshInv'
  BY <1>1, <1>2 DEF IInv, StoredLast, RefreshInv, LoadEmbedded, LoadFails
<1>6. OnlyPublished' /\ NeverMixed'
  BY <1>1, <1>2 DEF IInv, OnlyPublished, NeverMixed
<1> QED
  BY <1>1, <1>3, <1>4, <1>5, <1>6 DEF IInv

-----------------------------------------------------------------------------
(* What is published stays published: caches may serve any version.        *)
LEMMA PublishKeeps ==
    ASSUME IInv, Publish
    PROVE  IInv'
<1>1. PICK a \in KnownASNs, v \in Versions : published' = [published EXCEPT ![a] = @ \cup {v}]
  BY DEF Publish
<1>2. \A b \in KnownASNs : published[b] \subseteq published'[b] /\ published'[b] \in SUBSET Versions
  BY <1>1 DEF IInv, TypeOK
<1>3. TypeOK'
  BY <1>1, <1>2 DEF IInv, TypeOK, Publish, fetchVars
<1>4. DeliveredInv'
  <2> SUFFICES ASSUME NEW k \in Sources, NEW r \in results[k], r.list # NoList
               PROVE  FetchedFrom(k, r.asn, r.list)'
    BY DEF DeliveredInv, Publish
  <2>1. r.asn \in KnownASNs
    BY DEF IInv, TypeOK, Result
  <2> QED
    BY <1>2, <2>1 DEF IInv, DeliveredInv, FetchedFrom
<1>5. LoadedInv'
  BY <1>2 DEF IInv, LoadedInv, FetchedFrom, Publish
<1>6. StoredLast' /\ RefreshInv'
  BY DEF IInv, StoredLast, RefreshInv, Publish
<1>7. OnlyPublished' /\ NeverMixed'
  BY <1>2 DEF IInv, OnlyPublished, NeverMixed, Publish
<1> QED
  BY <1>3, <1>4, <1>5, <1>6, <1>7 DEF IInv

LEMMA StartKeeps ==
    ASSUME IInv, StartRefresh
    PROVE  IInv'
<1>1. refresh # "stored" /\ 1 \in 1 .. NumSources + 1
  BY SourcesAssumption DEF IInv, RefreshInv, StartRefresh
<1>2. results' \in [Sources -> SUBSET Result] /\ \A j \in Sources : results'[j] \subseteq results[j]
  BY DEF IInv, TypeOK, StartRefresh
<1> QED
  BY <1>1, <1>2, TrySourceKeeps DEF StartRefresh

(* Steps that change nothing the invariant looks at.                       *)
LEMMA IdleKeeps ==
    ASSUME IInv, Timeout \/ UNCHANGED vars
    PROVE  IInv'
<1>1. /\ UNCHANGED <<published, embeddedOK, active, started, source, fpc, fetched, results,
                     loaded, refresh>>
      /\ ctxEnded' \in BOOLEAN
  BY DEF Timeout, vars, fetchVars, IInv, TypeOK
<1>2. TypeOK'
  BY <1>1 DEF IInv, TypeOK
<1>3. DeliveredInv' /\ LoadedInv' /\ StoredLast' /\ RefreshInv'
  BY <1>1 DEF IInv, DeliveredInv, LoadedInv, FetchedFrom, StoredLast, RefreshInv
<1>4. OnlyPublished' /\ NeverMixed'
  BY <1>1 DEF IInv, OnlyPublished, NeverMixed
<1> QED
  BY <1>2, <1>3, <1>4 DEF IInv

LEMMA NextKeeps ==
    ASSUME IInv, [Next]_vars
    PROVE  /\ IInv'
           /\ active' # active => active = EmbeddedMap /\ refresh' = "stored" /\ active' = loaded'
<1>1. CASE Publish
  BY <1>1, PublishKeeps DEF Publish
<1>2. CASE StartRefresh
  BY <1>2, StartKeeps DEF StartRefresh
<1>3. CASE Timeout \/ UNCHANGED vars
  BY <1>3, IdleKeeps DEF Timeout, vars
<1>4. ASSUME NEW k \in Sources, NEW a \in KnownASNs, Fetcher(k, a)
      PROVE  IInv' /\ active' = active
  BY <1>4, FetcherKeeps DEF Fetcher, FetchManifest, FetchSnapshot, FetchFails
<1>5. CASE CollectError
  BY <1>5, CollectErrorKeeps DEF CollectError
<1>6. CASE CollectList
  BY <1>6, CollectListKeeps
<1>7. CASE LoadEmbedded \/ LoadFails
  BY <1>7, EmbeddedKeeps
<1>8. CASE Finished
  BY <1>3, <1>8 DEF Finished
<1> QED
  BY <1>1, <1>2, <1>3, <1>4, <1>5, <1>6, <1>7, <1>8 DEF Next, Collector

LEMMA Inductive == Spec => []IInv
<1>1. IInv /\ [Next]_vars => IInv'
  BY NextKeeps
<1> QED
  BY InitInv, <1>1, PTL DEF Spec

(* Every list that classification reads was published for its ASN, or is   *)
(* the embedded one: no manifest or snapshot that was cut short, cached or *)
(* replaced on the way gets past validatePrefixManifest into the map.      *)
THEOREM OnlyPublishedHolds == Spec => []OnlyPublished
<1>1. IInv => OnlyPublished
  BY DEF IInv
<1> QED
  BY Inductive, <1>1, PTL

(* A reader never sees lists of two sources together.                      *)
THEOREM NeverMixedHolds == Spec => []NeverMixed
<1>1. IInv => NeverMixed
  BY DEF IInv
<1> QED
  BY Inductive, <1>1, PTL

(* The embedded map stays active until a complete map of one source        *)
(* replaces it, which happens at most once.                                *)
THEOREM EmbeddedUntilLoadedHolds == Spec => EmbeddedUntilLoaded
<1>1. IInv /\ [Next]_vars =>
        [active' # active => active = EmbeddedMap /\ refresh' = "stored" /\ active' = loaded']_vars
  BY NextKeeps
<1> QED
  BY Inductive, <1>1, PTL DEF Spec, EmbeddedUntilLoaded

-----------------------------------------------------------------------------
(* ipv6Asn.  Numbers have a least counterexample, which takes the place of *)
(* an induction: there is a best match after every ASN of an order.        *)
LEMMA LeastNumber ==
    ASSUME NEW S \in SUBSET Nat, S # {}
    PROVE  \E m \in S : \A x \in S : m <= x
<1>1. PICK m \in S : \A x \in S : ~(<<x, m>> \in OpToRel(<, Nat))
  BY NatLessThanWellFounded, WFMin
<1>2. \A x \in S : ~(x < m)
  BY <1>1 DEF OpToRel
<1> QED
  BY <1>2

LEMMA BestUnfolds ==
    ASSUME NEW map, NEW order, Len(order) \in Nat
    PROVE  BestOf(map, order) =
              [n \in 0 .. Len(order) |->
                  IF n = 0 THEN NoMatch
                  ELSE KeepBetter(BestOf(map, order)[n - 1], MatchOf(map, order[n]))]
<1>1. PICK len : len = Len(order)
  OBVIOUS
<1>2. len \in Nat
  BY <1>1
<1> DEFINE Next1(best, n) == KeepBetter(best, MatchOf(map, order[n]))
           IsBest(f, m) == f = [n \in 0 .. m |-> IF n = 0 THEN NoMatch ELSE Next1(f[n - 1], n)]
           Without == {m \in 0 .. len : \A f : ~IsBest(f, m)}
<1>3. BestOf(map, order) = CHOOSE f : IsBest(f, len)
  BY <1>1 DEF BestOf
<1> HIDE DEF Next1
<1>4. \E f : IsBest(f, 0)
  <2>1. IsBest([n \in 0 .. 0 |-> NoMatch], 0)
    BY Z3
  <2> QED
    BY <2>1
<1>5. ASSUME NEW m \in 1 .. len, NEW f, IsBest(f, m - 1)
      PROVE  \E g : IsBest(g, m)
  <2>1. PICK v : v = Next1(f[m - 1], m)
    OBVIOUS
  <2>2. PICK g : g = [n \in 0 .. m |-> IF n = m THEN v ELSE f[n]]
    OBVIOUS
  <2>3. ASSUME NEW n \in 0 .. m
        PROVE  g[n] = IF n = 0 THEN NoMatch ELSE Next1(g[n - 1], n)
    <3>1. CASE n = m
      <4>1. m - 1 \in 0 .. m /\ m - 1 # m /\ m # 0
        BY <1>2
      <4>2. g[m] = v /\ g[m - 1] = f[m - 1]
        BY <1>2, <2>2, <4>1
      <4> QED
        BY <2>1, <3>1, <4>1, <4>2
    <3>2. CASE n # m
      <4>1. n \in 0 .. m - 1 /\ g[n] = f[n]
        BY <1>2, <2>2, <3>2
      <4>2. f[n] = IF n = 0 THEN NoMatch ELSE Next1(f[n - 1], n)
        BY <1>5, <4>1
      <4>3. n # 0 => n - 1 \in 0 .. m /\ n - 1 # m
        BY <1>2, <4>1
      <4>4. n # 0 => g[n - 1] = f[n - 1]
        BY <2>2, <4>3
      <4> QED
        BY <4>1, <4>2, <4>4
    <3> QED
      BY <3>1, <3>2
  <2>4. IsBest(g, m)
    BY <2>2, <2>3
  <2> QED
    BY <2>4
<1> HIDE DEF IsBest
<1>6. Without = {}
  <2> SUFFICES ASSUME Without # {} PROVE FALSE
    OBVIOUS
  <2>1. Without \in SUBSET Nat
    BY <1>2
  <2>2. PICK m \in Without : \A x \in Without : m <= x
    BY <2>1, LeastNumber
  <2>3. m \in 1 .. len
    BY <1>2, <1>4, <2>2
  <2>4. m - 1 \in 0 .. len /\ m - 1 \notin Without
    BY <1>2, <2>2, <2>3
  <2> QED
    BY <1>5, <2>2, <2>3, <2>4
<1>7. IsBest(BestOf(map, order), len)
  <2>1. \E f : IsBest(f, len)
    BY <1>2, <1>6
  <2> QED
    BY <1>3, <2>1
<1> QED
  BY <1>1, <1>7 DEF IsBest, Next1

(* The bits an ASN of a map matches, and which of two ASNs is preferred.   *)
BitsOf(map, a) == Match[a][map[a].version]

Preferred(map, a, b) ==
    BitsOf(map, b) < BitsOf(map, a) \/ (BitsOf(map, b) = BitsOf(map, a) /\ Rank[a] <= Rank[b])

Usable(map) == \A a \in KnownASNs : map[a].version \in Versions \cup {Embedded}

LEMMA BitsType ==
    ASSUME NEW map, Usable(map), NEW a \in KnownASNs
    PROVE  BitsOf(map, a) \in -1 .. 128 /\ Rank[a] \in Nat
BY MatchAssumption, RankAssumption DEF BitsOf, Usable

(* What is kept after some ASNs: nothing if none of them matches, else a   *)
(* match that is preferred to all of theirs.                               *)
KeptAfter(map, best, seen) ==
    \/ best = NoMatch /\ \A b \in seen : BitsOf(map, b) < 0
    \/ \E a \in KnownASNs : /\ best = [asn |-> a, bits |-> BitsOf(map, a)]
                            /\ BitsOf(map, a) >= 0
                            /\ \A b \in seen : Preferred(map, a, b)

LEMMA KeepsBetter ==
    ASSUME NEW map, Usable(map), NEW seen \in SUBSET KnownASNs, NEW b \in KnownASNs,
           NEW best, KeptAfter(map, best, seen)
    PROVE  KeptAfter(map, KeepBetter(best, MatchOf(map, b)), seen \cup {b})
<1>1. PICK y : y = BitsOf(map, b)
  OBVIOUS
<1>2. y \in Int /\ Rank[b] \in Nat
  BY <1>1, BitsType
<1>3. Preferred(map, b, b)
  BY <1>1, <1>2 DEF Preferred
<1>4. CASE y < 0
  <2>1. MatchOf(map, b) = NoMatch
    BY <1>1, <1>4 DEF MatchOf, BitsOf
  <2>2. CASE best = NoMatch /\ \A c \in seen : BitsOf(map, c) < 0
    <3>1. KeepBetter(best, MatchOf(map, b)) = NoMatch
      BY <2>1, <2>2 DEF KeepBetter
    <3> QED
      BY <1>1, <1>4, <2>2, <3>1 DEF KeptAfter
  <2>3. ASSUME NEW a \in KnownASNs, best = [asn |-> a, bits |-> BitsOf(map, a)],
               BitsOf(map, a) >= 0, \A c \in seen : Preferred(map, a, c)
        PROVE  KeptAfter(map, KeepBetter(best, MatchOf(map, b)), seen \cup {b})
    <3>1. PICK x : x = BitsOf(map, a)
      OBVIOUS
    <3>2. x \in Int /\ x >= 0
      BY <2>3, <3>1, BitsType
    <3>3. best.bits = x /\ NoMatch.bits = -1
      BY <2>3, <3>1 DEF NoMatch
    <3>4. KeepBetter(best, MatchOf(map, b)) = best
      BY <2>1, <3>2, <3>3 DEF KeepBetter
    <3>5. Preferred(map, a, b)
      BY <1>1, <1>2, <1>4, <3>1, <3>2 DEF Preferred
    <3> QED
      BY <2>3, <3>4, <3>5 DEF KeptAfter
  <2> QED
    BY <2>2, <2>3 DEF KeptAfter
<1>5. CASE y >= 0
  <2>1. PICK m : m = [asn |-> b, bits |-> y]
    OBVIOUS
  <2>2. m.asn = b /\ m.bits = y /\ NoMatch.bits = -1
    BY <2>1 DEF NoMatch
  <2>3. MatchOf(map, b) = m /\ m # NoMatch
    <3>1. ~(y < 0) /\ y # -1
      BY <1>2, <1>5
    <3> QED
      BY <1>1, <2>1, <2>2, <3>1 DEF MatchOf, BitsOf
  <2>4. CASE best = NoMatch /\ \A c \in seen : BitsOf(map, c) < 0
    <3>1. KeepBetter(best, m) = m
      BY <1>2, <1>5, <2>2, <2>4 DEF KeepBetter
    <3>2. \A c \in seen : Preferred(map, b, c)
      <4> SUFFICES ASSUME NEW c \in seen PROVE Preferred(map, b, c)
        OBVIOUS
      <4>1. PICK z : z = BitsOf(map, c)
        OBVIOUS
      <4>2. z \in Int /\ z < 0
        BY <2>4, <4>1, BitsType
      <4> QED
        BY <1>1, <1>2, <1>5, <4>1, <4>2 DEF Preferred
    <3> QED
      BY <1>1, <1>3, <1>5, <2>1, <2>3, <3>1, <3>2 DEF KeptAfter
  <2>5. ASSUME NEW a \in KnownASNs, best = [asn |-> a, bits |-> BitsOf(map, a)],
               BitsOf(map, a) >= 0, \A c \in seen : Preferred(map, a, c)
        PROVE  KeptAfter(map, KeepBetter(best, MatchOf(map, b)), seen \cup {b})
    <3>1. PICK x : x = BitsOf(map, a)
      OBVIOUS
    <3>2. x \in Int /\ Rank[a] \in Nat
      BY <3>1, BitsType
    <3>3. best.bits = x /\ best.asn = a
      BY <2>5, <3>1
    <3>4. CASE y > x \/ (y = x /\ Rank[b] < Rank[a])
      <4>1. KeepBetter(best, m) = m
        BY <2>2, <2>3, <3>3, <3>4 DEF KeepBetter
      <4>2. \A c \in seen : Preferred(map, b, c)
        <5> SUFFICES ASSUME NEW c \in seen PROVE Preferred(map, b, c)
          OBVIOUS
        <5>1. PICK z : z = BitsOf(map, c)
          OBVIOUS
        <5>2. z \in Int /\ Rank[c] \in Nat
          BY <5>1, BitsType
        <5>3. z < x \/ (z = x /\ Rank[a] <= Rank[c])
          BY <2>5, <3>1, <5>1 DEF Preferred
        <5>4. z < y \/ (z = y /\ Rank[b] <= Rank[c])
          BY <1>2, <3>2, <3>4, <5>2, <5>3
        <5> QED
          BY <1>1, <5>1, <5>4 DEF Preferred
      <4> QED
        BY <1>1, <1>3, <1>5, <2>1, <2>3, <4>1, <4>2 DEF KeptAfter
    <3>5. CASE ~(y > x \/ (y = x /\ Rank[b] < Rank[a]))
      <4>1. KeepBetter(best, m) = best
        BY <2>2, <2>3, <3>3, <3>5 DEF KeepBetter
      <4>2. Preferred(map, a, b)
        BY <1>1, <1>2, <3>1, <3>2, <3>5 DEF Preferred
      <4> QED
        BY <2>3, <2>5, <4>1, <4>2 DEF KeptAfter
    <3> QED
      BY <3>4, <3>5
  <2> QED
    BY <2>3, <2>4, <2>5 DEF KeptAfter
<1> QED
  BY <1>2, <1>4, <1>5

LEMMA BestOfOrder ==
    ASSUME NEW map, Usable(map), NEW len \in Nat, NEW order \in [1 .. len -> KnownASNs]
    PROVE  KeptAfter(map, BestOf(map, order)[len], {order[k] : k \in 1 .. len})
<1>1. PICK best : best = BestOf(map, order)
  OBVIOUS
<1>2. Len(order) = len
  OBVIOUS
<1>3. \A n \in 0 .. len :
         best[n] = IF n = 0 THEN NoMatch ELSE KeepBetter(best[n - 1], MatchOf(map, order[n]))
  BY <1>1, <1>2, BestUnfolds
<1> DEFINE Kept(n) == KeptAfter(map, best[n], {order[k] : k \in 1 .. n})
           Lost == {n \in 0 .. len : ~Kept(n)}
<1>4. Kept(0)
  <2>1. {order[k] : k \in 1 .. 0} = {}
    OBVIOUS
  <2>2. best[0] = NoMatch
    BY <1>3
  <2> QED
    BY <2>1, <2>2 DEF KeptAfter
<1>5. ASSUME NEW n \in 1 .. len, Kept(n - 1)
      PROVE  Kept(n)
  <2>1. PICK seen : seen = {order[k] : k \in 1 .. n - 1}
    OBVIOUS
  <2>2. {order[k] : k \in 1 .. n} = seen \cup {order[n]}
    <3>1. \A k \in 1 .. n : k \in 1 .. n - 1 \/ k = n
      OBVIOUS
    <3>2. n \in 1 .. n /\ \A k \in 1 .. n - 1 : k \in 1 .. n
      OBVIOUS
    <3> QED
      BY <2>1, <3>1, <3>2
  <2>3. seen \in SUBSET KnownASNs /\ order[n] \in KnownASNs
    BY <2>1
  <2>4. best[n] = KeepBetter(best[n - 1], MatchOf(map, order[n]))
    BY <1>3
  <2>5. KeptAfter(map, best[n - 1], seen)
    BY <1>5, <2>1
  <2> QED
    BY <2>2, <2>3, <2>4, <2>5, KeepsBetter
<1> HIDE DEF Kept
<1>6. Lost = {}
  <2> SUFFICES ASSUME Lost # {} PROVE FALSE
    OBVIOUS
  <2>0. Lost \in SUBSET Nat
    OBVIOUS
  <2>1. PICK n \in Lost : \A k \in Lost : n <= k
    BY <2>0, LeastNumber
  <2>2. n \in 1 .. len
    BY <1>4, <2>1
  <2>3. n - 1 \in 0 .. len /\ n - 1 \notin Lost
    BY <2>1, <2>2
  <2> QED
    BY <1>5, <2>1, <2>2, <2>3
<1>7. Kept(len)
  BY <1>6
<1> QED
  BY <1>1, <1>7 DEF Kept

(* An order in which a map is walked leaves out no ASN.                    *)
LEMMA OrdersAreComplete ==
    ASSUME NEW order \in SetToSeqs(KnownASNs)
    PROVE  /\ Cardinality(KnownASNs) \in Nat
           /\ order \in [1 .. Cardinality(KnownASNs) -> KnownASNs]
           /\ {order[k] : k \in 1 .. Cardinality(KnownASNs)} = KnownASNs
<1>1. PICK len : len = Cardinality(KnownASNs)
  OBVIOUS
<1>2. len \in Nat
  BY <1>1, SourcesAssumption, FS_CardinalityType
<1>3. IsFiniteSet(1 .. len) /\ Cardinality(1 .. len) = len
  BY <1>2, FS_Interval
<1>4. order \in [1 .. len -> KnownASNs] /\ \A i, j \in 1 .. len : i # j => order[i] # order[j]
  BY <1>1 DEF SetToSeqs
<1>5. order \in Injection(1 .. len, KnownASNs)
  BY <1>4 DEF Injection, IsInjective
<1>6. order \in Surjection(1 .. len, KnownASNs)
  BY <1>1, <1>3, <1>5, SourcesAssumption, FS_Injection
<1> QED
  BY <1>1, <1>2, <1>4, <1>6 DEF Surjection

(* The answer a map gives.                                                 *)
Answers(map, a) == IF BestAsns(map) = {} THEN a = "" ELSE a \in BestAsns(map)

LEMMA BestAsnsAre ==
    ASSUME NEW map
    PROVE  BestAsns(map) =
              {a \in KnownASNs : BitsOf(map, a) >= 0 /\ \A b \in KnownASNs : Preferred(map, a, b)}
BY DEF BestAsns, BitsOf, Preferred

LEMMA LookupAnswers ==
    ASSUME NEW map, Usable(map), NEW order \in SetToSeqs(KnownASNs)
    PROVE  Answers(map, IPv6Asn(map, order))
<1>1. PICK len : len = Cardinality(KnownASNs)
  OBVIOUS
<1>2. /\ len \in Nat /\ order \in [1 .. len -> KnownASNs]
      /\ {order[k] : k \in 1 .. len} = KnownASNs
  BY <1>1, OrdersAreComplete
<1>3. PICK best : best = BestOf(map, order)[len]
  OBVIOUS
<1>4. KeptAfter(map, best, KnownASNs)
  BY <1>2, <1>3, BestOfOrder
<1>5. IPv6Asn(map, order) = best.asn
  <2>1. Len(order) = len
    BY <1>2
  <2> QED
    BY <1>3, <2>1 DEF IPv6Asn
<1>6. CASE best = NoMatch /\ \A b \in KnownASNs : BitsOf(map, b) < 0
  <2>1. \A a \in KnownASNs : ~(BitsOf(map, a) >= 0)
    BY <1>6, BitsType
  <2>2. BestAsns(map) = {}
    BY <2>1, BestAsnsAre
  <2>3. best.asn = ""
    BY <1>6 DEF NoMatch
  <2> QED
    BY <1>5, <2>2, <2>3 DEF Answers
<1>7. ASSUME NEW a \in KnownASNs, best = [asn |-> a, bits |-> BitsOf(map, a)],
             BitsOf(map, a) >= 0, \A b \in KnownASNs : Preferred(map, a, b)
      PROVE  Answers(map, IPv6Asn(map, order))
  <2>1. a \in BestAsns(map)
    BY <1>7, BestAsnsAre
  <2>2. best.asn = a
    BY <1>7
  <2> QED
    BY <1>5, <2>1, <2>2 DEF Answers
<1> QED
  BY <1>4, <1>6, <1>7 DEF KeptAfter

(* A map gives one answer, as no two ASNs have the same name.              *)
LEMMA AnswerIsUnique ==
    ASSUME NEW map, Usable(map), NEW a, NEW b, Answers(map, a), Answers(map, b)
    PROVE  a = b
<1>1. CASE BestAsns(map) = {}
  BY <1>1 DEF Answers
<1>2. CASE BestAsns(map) # {}
  <2>1. a \in BestAsns(map) /\ b \in BestAsns(map)
    BY <1>2 DEF Answers
  <2>2. a \in KnownASNs /\ b \in KnownASNs /\ Preferred(map, a, b) /\ Preferred(map, b, a)
    BY <2>1, BestAsnsAre
  <2>3. PICK x, y : x = BitsOf(map, a) /\ y = BitsOf(map, b)
    OBVIOUS
  <2>4. x \in Int /\ y \in Int /\ Rank[a] \in Nat /\ Rank[b] \in Nat
    BY <2>2, <2>3, BitsType
  <2>5. (y < x \/ (y = x /\ Rank[a] <= Rank[b])) /\ (x < y \/ (x = y /\ Rank[b] <= Rank[a]))
    BY <2>2, <2>3 DEF Preferred
  <2>6. Rank[a] = Rank[b]
    BY <2>4, <2>5
  <2> QED
    BY <2>2, <2>6, RankAssumption
<1> QED
  BY <1>1, <1>2

-----------------------------------------------------------------------------
(* ipv4Asn answers with the first case that applies.                       *)
LEMMA CasesAre ==
    ASSUME NEW o, o[1] = 223
    PROVE  /\ DOMAIN Cases(o) = 1 .. 10
           /\ \A j \in 1 .. 5 : ~Cases(o)[j].if
           /\ Cases(o)[6].asn = "AS58807"
           /\ Cases(o)[6].if <=> <<o[2], o[3]>> \in CMIN2
           /\ Cases(o)[7].asn = "AS58453"
           /\ Cases(o)[7].if <=> Begins(o, 223, {118, 119, 120, 121})
           /\ ~Cases(o)[8].if /\ ~Cases(o)[9].if
           /\ Cases(o)[10].asn = "" /\ Cases(o)[10].if
<1>1. DOMAIN Cases(o) = 1 .. 10
  BY Z3 DEF Cases
<1>2. Cases(o)[1].if <=> Begins(o, 59, {43})
  BY DEF Cases
<1>3. Cases(o)[2].if <=> Begins(o, 202, {97})
  BY DEF Cases
<1>4. Cases(o)[3].if <=> Begins(o, 218, {105}) \/ Begins(o, 210, {51})
  BY DEF Cases
<1>5. Cases(o)[4].if <=> Begins(o, 202, {77}) \/ Begins(o, 43, {252}) \/ Begins(o, 61, {14})
  BY DEF Cases
<1>6. Cases(o)[5].if <=> Begins(o, 219, {158})
  BY DEF Cases
<1>7. Cases(o)[6].if <=> o[1] = 223 /\ <<o[2], o[3]>> \in CMIN2
  BY DEF Cases
<1>8. Cases(o)[7].if <=> Begins(o, 223, {118, 119, 120, 121})
  BY DEF Cases
<1>9. Cases(o)[8].if <=> Begins(o, 221, {183}) \/ Begins(o, 111, {24})
  BY DEF Cases
<1>10. Cases(o)[9].if <=> Begins(o, 69, {194}) \/ Begins(o, 203, {22})
  BY DEF Cases
<1>11. Cases(o)[10].if
  BY DEF Cases
<1>12. Cases(o)[6].asn = "AS58807" /\ Cases(o)[7].asn = "AS58453" /\ Cases(o)[10].asn = ""
  BY DEF Cases
<1>13. /\ ~Begins(o, 59, {43}) /\ ~Begins(o, 202, {97}) /\ ~Begins(o, 218, {105})
       /\ ~Begins(o, 210, {51}) /\ ~Begins(o, 202, {77}) /\ ~Begins(o, 43, {252})
       /\ ~Begins(o, 61, {14}) /\ ~Begins(o, 219, {158}) /\ ~Begins(o, 221, {183})
       /\ ~Begins(o, 111, {24}) /\ ~Begins(o, 69, {194}) /\ ~Begins(o, 203, {22})
  BY DEF Begins
<1>14. /\ ~Cases(o)[1].if /\ ~Cases(o)[2].if /\ ~Cases(o)[3].if /\ ~Cases(o)[4].if
       /\ ~Cases(o)[5].if /\ ~Cases(o)[8].if /\ ~Cases(o)[9].if
  BY <1>2, <1>3, <1>4, <1>5, <1>6, <1>9, <1>10, <1>13
<1>15. \A j \in 1 .. 5 : ~Cases(o)[j].if
  <2>1. \A j \in 1 .. 5 : j = 1 \/ j = 2 \/ j = 3 \/ j = 4 \/ j = 5
    OBVIOUS
  <2> QED
    BY <1>14, <2>1
<1> QED
  BY <1>1, <1>7, <1>8, <1>11, <1>12, <1>14, <1>15

LEMMA FirstCase ==
    ASSUME NEW o, o[1] = 223, NEW i \in 1 .. 10,
           Cases(o)[i].if, \A j \in 1 .. i - 1 : ~Cases(o)[j].if
    PROVE  IPv4Asn(o) = Cases(o)[i].asn
<1>1. DOMAIN Cases(o) = 1 .. 10
  BY CasesAre
<1> DEFINE k == CHOOSE k \in DOMAIN Cases(o) :
                   Cases(o)[k].if /\ \A j \in 1 .. k - 1 : ~Cases(o)[j].if
<1>2. IPv4Asn(o) = Cases(o)[k].asn
  BY DEF IPv4Asn
<1>3. k \in 1 .. 10 /\ Cases(o)[k].if /\ \A j \in 1 .. k - 1 : ~Cases(o)[j].if
  BY <1>1
<1> HIDE DEF k
<1>4. k = i
  <2>1. ~(k < i)
    <3>1. k < i => k \in 1 .. i - 1
      BY <1>3
    <3> QED
      BY <1>3, <3>1
  <2>2. ~(i < k)
    <3>1. i < k => i \in 1 .. k - 1
      BY <1>3
    <3> QED
      BY <1>3, <3>1
  <2> QED
    BY <1>3, <2>1, <2>2
<1> QED
  BY <1>2, <1>4

LEMMA CMIN2IsToldApart == CMIN2ToldApart
<1> SUFFICES ASSUME NEW second \in 117 .. 122, NEW third \in 0 .. 255
             PROVE  IPv4Asn(<<223, second, third>>) =
                       IF <<second, third>> \in CMIN2 THEN "AS58807"
                       ELSE IF second \in 118 .. 121 THEN "AS58453" ELSE ""
  BY DEF CMIN2ToldApart
<1>1. PICK o : o = <<223, second, third>>
  OBVIOUS
<1>2. o[1] = 223 /\ o[2] = second /\ o[3] = third
  BY <1>1
<1>3. Begins(o, 223, {118, 119, 120, 121}) <=> second \in 118 .. 121
  <2>1. second \div 10 \in {11, 12}
    OBVIOUS
  <2> QED
    BY <1>2, <2>1 DEF Begins
<1>4. Cases(o)[6].if <=> <<second, third>> \in CMIN2
  BY <1>2, CasesAre
<1>5. Cases(o)[7].if <=> second \in 118 .. 121
  <2>1. Cases(o)[7].if <=> Begins(o, 223, {118, 119, 120, 121})
    BY <1>2, CasesAre
  <2> QED
    BY <1>3, <2>1
<1>6. Cases(o)[6].asn = "AS58807" /\ Cases(o)[7].asn = "AS58453" /\ Cases(o)[10].asn = ""
  BY <1>2, CasesAre
<1>7. ASSUME Cases(o)[6].if PROVE IPv4Asn(o) = "AS58807"
  <2>1. 6 - 1 = 5
    OBVIOUS
  <2>2. \A j \in 1 .. 6 - 1 : ~Cases(o)[j].if
    BY <1>2, <2>1, CasesAre
  <2>3. IPv4Asn(o) = Cases(o)[6].asn
    BY <1>2, <1>7, <2>2, FirstCase
  <2> QED
    BY <1>6, <2>3
<1>8. ASSUME ~Cases(o)[6].if, Cases(o)[7].if PROVE IPv4Asn(o) = "AS58453"
  <2>1. \A j \in 1 .. 7 - 1 : j \in 1 .. 5 \/ j = 6
    OBVIOUS
  <2>2. \A j \in 1 .. 7 - 1 : ~Cases(o)[j].if
    BY <1>2, <1>8, <2>1, CasesAre
  <2>3. IPv4Asn(o) = Cases(o)[7].asn
    BY <1>2, <1>8, <2>2, FirstCase
  <2> QED
    BY <1>6, <2>3
<1>9. ASSUME ~Cases(o)[6].if, ~Cases(o)[7].if PROVE IPv4Asn(o) = ""
  <2>1. \A j \in 1 .. 10 - 1 : j \in 1 .. 5 \/ j = 6 \/ j = 7 \/ j = 8 \/ j = 9
    OBVIOUS
  <2>2. \A j \in 1 .. 10 - 1 : ~Cases(o)[j].if
    BY <1>2, <1>9, <2>1, CasesAre
  <2>3. Cases(o)[10].if
    BY <1>2, CasesAre
  <2>4. IPv4Asn(o) = Cases(o)[10].asn
    BY <1>2, <2>2, <2>3, FirstCase
  <2> QED
    BY <1>6, <2>4
<1> QED
  BY <1>1, <1>4, <1>5, <1>7, <1>8, <1>9

-----------------------------------------------------------------------------
(* What was answered from the embedded map is what that map answers.       *)
AnswerInv == answer # "none" /\ active = EmbeddedMap => Answers(active, answer)

LEMMA ActiveUsable ==
    ASSUME IInv
    PROVE  Usable(active)
BY DEF IInv, TypeOK, OnlyPublished, Usable

LEMMA RefreshAnswers ==
    ASSUME IInv, AnswerInv, [Next]_vars, UNCHANGED answer
    PROVE  AnswerInv'
<1>1. active' # active => active = EmbeddedMap
  BY NextKeeps
<1>2. active' = EmbeddedMap' => active' = active
  BY <1>1 DEF EmbeddedMap
<1>3. active' = active => Answers(active, answer)' = Answers(active, answer)
  BY DEF Answers, BestAsns
<1> QED
  BY <1>2, <1>3 DEF AnswerInv, EmbeddedMap

LEMMA LookUpAnswers ==
    ASSUME IInv, AnswerInv, LookUp
    PROVE  /\ AnswerInv'
           /\ Answers(active, answer')
           /\ answer' # answer => answer = "none" \/ active # EmbeddedMap
<1>1. \E order \in SetToSeqs(KnownASNs) : answer' = IPv6Asn(active, order)
  BY DEF LookUp
<1>2. UNCHANGED active
  BY DEF LookUp, vars
<1>3. Usable(active)
  BY ActiveUsable
<1>4. Answers(active, answer')
  <2>1. \A order \in SetToSeqs(KnownASNs) : Answers(active, IPv6Asn(active, order))
    BY <1>3, LookupAnswers
  <2> QED
    BY <1>1, <2>1
<1>5. AnswerInv'
  BY <1>2, <1>4 DEF AnswerInv, Answers, BestAsns
<1>6. ASSUME answer # "none", active = EmbeddedMap PROVE answer' = answer
  BY <1>3, <1>4, <1>6, AnswerIsUnique DEF AnswerInv
<1> QED
  BY <1>4, <1>5, <1>6

LEMMA LookupKeeps ==
    ASSUME IInv, AnswerInv, [LookupNext]_<<vars, answer>>
    PROVE  /\ IInv' /\ AnswerInv'
           /\ answer' # answer =>
                 /\ Answers(active, answer')
                 /\ answer = "none" \/ active # EmbeddedMap
<1>1. CASE RefreshStep \/ UNCHANGED <<vars, answer>>
  <2>1. [Next]_vars /\ UNCHANGED answer
    BY <1>1 DEF RefreshStep
  <2> QED
    BY <2>1, NextKeeps, RefreshAnswers
<1>2. CASE LookUp
  <2>1. [Next]_vars
    BY <1>2 DEF LookUp
  <2> QED
    BY <1>2, <2>1, NextKeeps, LookUpAnswers
<1> QED
  BY <1>1, <1>2 DEF LookupNext

(* An IPv6 hop belongs to the ASN with the most specific match in the map  *)
(* in use, in whatever order the map is walked; its ASN does not change    *)
(* while the embedded map is active; and no IPv4 hop of the blocks around  *)
(* CMIN2 is taken for CMI, or the other way round.                         *)
THEOREM JudgedAlikeHolds == LookupSpec => JudgedAlike
<1> DEFINE Alike ==
              answer' # answer =>
                 /\ IF BestAsns(active) = {} THEN answer' = "" ELSE answer' \in BestAsns(active)
                 /\ answer = "none" \/ active # EmbeddedMap
                 /\ CMIN2ToldApart
<1>1. LookupInit => IInv /\ AnswerInv
  BY InitInv DEF LookupInit, AnswerInv
<1>2. IInv /\ AnswerInv /\ [LookupNext]_<<vars, answer>> => IInv' /\ AnswerInv' /\ Alike
  BY LookupKeeps, CMIN2IsToldApart DEF Answers
<1>3. IInv /\ AnswerInv /\ [LookupNext]_<<vars, answer>> => [Alike]_<<vars, answer>>
  BY <1>2
<1> HIDE DEF Alike
<1>4. LookupSpec => [][Alike]_<<vars, answer>>
  BY <1>1, <1>2, <1>3, PTL DEF LookupSpec
<1> QED
  BY <1>4 DEF JudgedAlike, Alike
=============================================================================
