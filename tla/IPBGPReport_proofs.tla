------------------------- MODULE IPBGPReport_proofs -------------------------
(***************************************************************************)
(* Proofs about IPBGPReport, for every set of options and of geofeed URLs: *)
(* however the providers answer, fail or hang, and whenever the context    *)
(* ends.                                                                   *)
(***************************************************************************)
EXTENDS IPBGPReport, FiniteSetTheorems, TLAPS

(* The requests that fill the report's evidence, those before the RIR is   *)
(* recorded, and those for relationships.                                  *)
Gathering == {"rdap", "fallback", "bootstrap", "dial", "whois"}
BeforeRIR == Gathering \cup {"rir"}
BeforeASN == BeforeRIR \cup {"geofeed", "asn"}
Relating == {"relationships", "ripestat", "peeringdb", "related"}

(* The evidence of the report is what RDAP gave, and of the rest what      *)
(* WHOIS gave.                                                             *)
EvidenceInv ==
    /\ \A e \in Evidence :
          found[e] = IF e \in answered["rdap"] THEN "rdap"
                     ELSE IF e \in answered["whois"] THEN "whois" ELSE "none"
    /\ pc \in Gathering => answered["whois"] = {}
    /\ pc = "rdap" => answered["rdap"] = {}

(* The sources of a report by name, and that each has one entry.           *)
Names == {"rdap", "whois_bootstrap", "whois", "rir", "geofeed", "asn_resolver",
          "asn_relationships"}

Lists(entries, name) == \E e \in entries : e.source = name

OneEach(entries) ==
    \A e, f \in entries : e.source = f.source => e = f \/ e.source = "geofeed"

(* The fallback is enabled and RDAP has left a gap; no WHOIS server is     *)
(* known.                                                                  *)
NeedsWHOIS == config.whois /\ answered["rdap"] # Evidence
NeedsBootstrap == NeedsWHOIS /\ ~config.server /\ ~port43

(* Which sources the report lists by the time of each request.             *)
SourceInv ==
    /\ OneEach(sources)
    /\ Lists(sources, "rdap") <=> pc # "rdap"
    /\ Lists(sources, "whois") <=> pc \notin Gathering /\ NeedsWHOIS
    /\ Lists(sources, "whois_bootstrap") <=>
          pc \notin {"rdap", "fallback", "bootstrap"} /\ NeedsBootstrap
    /\ Lists(sources, "rir") <=> pc \notin BeforeRIR
    /\ pc \in BeforeASN => ~Lists(sources, "asn_resolver")
    /\ pc \in BeforeASN \cup Relating => ~Lists(sources, "asn_relationships")
    /\ pc = "finish" \/ (pc = "returned" /\ err = "none") => Lists(sources, "asn_relationships")
    /\ pc \in {"bootstrap", "dial", "whois"} => NeedsWHOIS
    /\ pc = "bootstrap" => NeedsBootstrap

(* What a source that is called available has given.                       *)
Means(e) ==
    e.status = "available" =>
        /\ e.source = "rdap" => {"prefixes", "date"} \subseteq answered["rdap"]
        /\ e.source = "rir" => found["rir"] # "none"
        /\ e.source = "asn_relationships" => relations = {"available"}

MeaningInv ==
    /\ \A e \in sources : Means(e)
    /\ status = "available" => pc = "returned" /\ \A e \in sources : e.status = "available"

(* The inductive invariant of the report.                                  *)
IInv == TypeOK /\ EvidenceInv /\ SourceInv /\ MeaningInv

-----------------------------------------------------------------------------
(* The entries S and, as T, one more.                                      *)
Adds(S, T, name, s) ==
    /\ T \subseteq Entry
    /\ \A n \in Names : Lists(T, n) <=> Lists(S, n) \/ n = name
    /\ OneEach(S) /\ (Lists(S, name) => name = "geofeed") => OneEach(T)
    /\ \A e \in T : e \in S \/ (e.source = name /\ e.status = s)

LEMMA AddEntry ==
    ASSUME NEW S \in SUBSET Entry, NEW name \in Names, NEW s \in Statuses
    PROVE  Adds(S, S \cup Entries(name, s), name, s)
<1> DEFINE T == S \cup Entries(name, s)
<1> DEFINE new == [source |-> name, status |-> s]
<1>1. Entries(name, s) = {new}
  <2>1. new \in Entries(name, s)
    BY DEF Entries
  <2>2. ASSUME NEW e \in Entries(name, s)
        PROVE  e = new
    BY DEF Entries
  <2> HIDE DEF new
  <2> QED
    BY <2>1, <2>2
<1>2. new \in Entry /\ new.source = name /\ new.status = s
  BY DEF Entry, Names
<1> HIDE DEF new
<1>3. T = S \cup {new}
  BY <1>1
<1>4. T \subseteq Entry
  BY <1>2, <1>3
<1>5. \A n \in Names : Lists(T, n) <=> Lists(S, n) \/ n = name
  BY <1>2, <1>3 DEF Lists
<1>6. \A e \in T : e \in S \/ (e.source = name /\ e.status = s)
  BY <1>2, <1>3
<1>7. ASSUME OneEach(S), Lists(S, name) => name = "geofeed"
      PROVE  OneEach(T)
  <2> SUFFICES ASSUME NEW e \in T, NEW f \in T, e.source = f.source, e.source # "geofeed"
               PROVE  e = f
    BY DEF OneEach
  <2>1. CASE e \in S /\ f \in S
    BY <1>7, <2>1 DEF OneEach
  <2>2. CASE e = new /\ f = new
    BY <2>2
  <2>3. CASE (e = new /\ f \in S) \/ (e \in S /\ f = new)
    BY <1>2, <1>7, <2>3 DEF Lists
  <2> QED
    BY <1>3, <2>1, <2>2, <2>3
<1> QED
  BY <1>4, <1>5, <1>6, <1>7 DEF Adds

LEMMA InitInv == Init => IInv
<1> SUFFICES ASSUME Init PROVE IInv
  OBVIOUS
<1> USE DEF Gathering, BeforeRIR, BeforeASN, Relating
<1>1. TypeOK
  BY DEF Init, TypeOK, Statuses, Evidence
<1>2. EvidenceInv
  BY DEF Init, EvidenceInv
<1>3. SourceInv
  BY DEF Init, SourceInv, OneEach, Lists
<1>4. MeaningInv
  BY DEF Init, MeaningInv
<1> QED
  BY <1>1, <1>2, <1>3, <1>4 DEF IInv
(* A step that leaves the evidence and what the report says of it alone,   *)
(* and records nothing: the context ends, or the report goes on.           *)
LEMMA MoveKeeps ==
    ASSUME IInv, UNCHANGED <<config, port43, found, answered, sources, relations, status>>,
           TypeOK', pc # "returned",
           pc \in Gathering <=> pc' \in Gathering,
           pc \in BeforeRIR <=> pc' \in BeforeRIR,
           pc' \in BeforeASN \cup Relating => pc \in BeforeASN \cup Relating,
           pc' \in BeforeASN => pc \in BeforeASN,
           pc = "rdap" <=> pc' = "rdap",
           pc \in {"rdap", "fallback", "bootstrap"} <=> pc' \in {"rdap", "fallback", "bootstrap"},
           pc' \in {"bootstrap", "dial", "whois"} => pc \in {"bootstrap", "dial", "whois"},
           pc' = "bootstrap" => pc = "bootstrap",
           pc' = "finish" \/ (pc' = "returned" /\ err' = "none") => pc = "finish"
    PROVE  IInv'
<1>1. EvidenceInv'
  BY DEF IInv, EvidenceInv
<1>2. NeedsWHOIS' = NeedsWHOIS /\ NeedsBootstrap' = NeedsBootstrap
  BY DEF NeedsWHOIS, NeedsBootstrap
<1>3. SourceInv'
  BY <1>2 DEF IInv, SourceInv
<1>4. MeaningInv'
  BY DEF IInv, MeaningInv, Means
<1> QED
  BY <1>1, <1>3, <1>4 DEF IInv
LEMMA EndsContext ==
    ASSUME IInv, TimerFires \/ CallerCancels
    PROVE  IInv'
<1>1. UNCHANGED <<config, pc, port43, found, answered, feeds, sources, relations, status, err>>
  BY DEF TimerFires, CallerCancels
<1>2. TypeOK' /\ pc # "returned"
  BY <1>1 DEF TimerFires, CallerCancels, IInv, TypeOK
<1> QED
  BY <1>1, <1>2, MoveKeeps

LEMMA GoesOn ==
    ASSUME IInv, WHOISDialled \/ GeofeedsDone \/ ASNSupplied \/ ASNMalformed
                 \/ RelationshipsRefused \/ RelationshipsBegin
    PROVE  IInv'
<1> USE DEF WHOISDialled, GeofeedsDone, ASNSupplied, ASNMalformed, RelationshipsRefused,
            RelationshipsBegin, Returns
<1>1. UNCHANGED <<config, port43, found, answered, sources, relations, status>>
  OBVIOUS
<1>2. TypeOK'
  BY DEF IInv, TypeOK
<1>3. CASE WHOISDialled
  BY <1>1, <1>2, <1>3, MoveKeeps DEF Gathering, BeforeRIR, BeforeASN, Relating
<1>4. CASE GeofeedsDone \/ ASNSupplied \/ ASNMalformed
  BY <1>1, <1>2, <1>4, MoveKeeps DEF Gathering, BeforeRIR, BeforeASN, Relating
<1>5. CASE RelationshipsRefused \/ RelationshipsBegin
  BY <1>1, <1>2, <1>5, MoveKeeps DEF Gathering, BeforeRIR, BeforeASN, Relating, IInv, TypeOK
<1> QED
  BY <1>3, <1>4, <1>5

(* The decision for the WHOIS fallback: what is missing is what RDAP did   *)
(* not give.                                                               *)
LEMMA FallbackKeeps ==
    ASSUME IInv, Fallback
    PROVE  IInv'
<1> USE DEF Gathering, BeforeRIR, BeforeASN, Relating
<1>1. /\ pc = "fallback" /\ pc' \in {"rir", "dial", "bootstrap"}
      /\ UNCHANGED <<config, ctx, port43, found, answered, feeds, sources, relations, status, err>>
  BY DEF Fallback
<1>2. TypeOK'
  BY <1>1 DEF IInv, TypeOK
<1>3. EvidenceInv'
  BY <1>1 DEF IInv, EvidenceInv
<1>4. answered["rdap"] \subseteq Evidence /\ answered["whois"] = {}
  BY <1>1 DEF IInv, TypeOK, EvidenceInv
<1>5. (\A e \in Evidence : found[e] # "none") <=> answered["rdap"] = Evidence
  BY <1>4 DEF IInv, EvidenceInv
<1>6. /\ pc' = "rir" <=> ~NeedsWHOIS
      /\ pc' = "bootstrap" <=> NeedsBootstrap
  BY <1>5 DEF Fallback, NeedsWHOIS, NeedsBootstrap
<1>7. NeedsWHOIS' = NeedsWHOIS /\ NeedsBootstrap' = NeedsBootstrap
  BY <1>1 DEF NeedsWHOIS, NeedsBootstrap
<1>8. SourceInv'
  BY <1>1, <1>6, <1>7 DEF IInv, SourceInv, NeedsBootstrap
<1>9. MeaningInv'
  BY <1>1 DEF IInv, MeaningInv, Means
<1> QED
  BY <1>2, <1>3, <1>8, <1>9 DEF IInv

(* A step that records one source, which the report does not list yet, and *)
(* changes nothing the entries of the report speak of.                     *)
LEMMA RecordStep ==
    ASSUME IInv, NEW name \in Names, NEW s \in Statuses, Record(name, s),
           UNCHANGED <<config, port43, found, answered, relations, status>>,
           pc # "returned", Lists(sources, name) => name = "geofeed",
           pc' \in Gathering => pc \in Gathering, pc' # "rdap",
           s = "available" => /\ name # "rdap"
                              /\ name = "rir" => found["rir"] # "none"
                              /\ name = "asn_relationships" => relations = {"available"}
    PROVE  /\ EvidenceInv' /\ MeaningInv' /\ OneEach(sources') /\ sources' \subseteq Entry
           /\ \A n \in Names : Lists(sources', n) <=> Lists(sources, n) \/ n = name
           /\ NeedsWHOIS' = NeedsWHOIS /\ NeedsBootstrap' = NeedsBootstrap
<1>1. Adds(sources, sources', name, s)
  BY AddEntry DEF Record, IInv, TypeOK
<1>2. OneEach(sources')
  BY <1>1 DEF IInv, SourceInv, Adds
<1>3. EvidenceInv'
  BY DEF IInv, EvidenceInv
<1>4. \A e \in sources' : Means(e)'
  BY <1>1 DEF IInv, MeaningInv, Means, Adds
<1>5. MeaningInv'
  BY <1>4 DEF IInv, MeaningInv
<1>6. NeedsWHOIS' = NeedsWHOIS /\ NeedsBootstrap' = NeedsBootstrap
  BY DEF NeedsWHOIS, NeedsBootstrap
<1> QED
  BY <1>1, <1>2, <1>3, <1>5, <1>6 DEF Adds

(* What a request that fails is recorded as.                               *)
LEMMA FailureStatus ==
    ASSUME NEW own \in SUBSET Statuses, NEW s \in FailsWith(own)
    PROVE  s \in Statuses /\ ("available" \notin own => s # "available")
BY DEF FailsWith, EndStatus, Statuses

LEMMA RDAPFailsKeeps ==
    ASSUME IInv, RDAPFails
    PROVE  IInv'
<1> USE DEF Gathering, BeforeRIR, BeforeASN, Relating
<1>1. /\ pc = "rdap" /\ pc' = "fallback"
      /\ UNCHANGED <<config, ctx, port43, found, answered, feeds, relations, status, err>>
  BY DEF RDAPFails
<1>2. PICK s \in FailsWith({"rate_limited", "error"}) : Record("rdap", s)
  BY DEF RDAPFails
<1>3. s \in Statuses /\ s # "available"
  BY FailureStatus DEF Statuses
<1>4. "rdap" \in Names /\ ~Lists(sources, "rdap")
  BY <1>1 DEF IInv, SourceInv, Names
<1>5. /\ EvidenceInv' /\ MeaningInv' /\ OneEach(sources') /\ sources' \subseteq Entry
      /\ \A n \in Names : Lists(sources', n) <=> Lists(sources, n) \/ n = "rdap"
      /\ NeedsWHOIS' = NeedsWHOIS /\ NeedsBootstrap' = NeedsBootstrap
  BY <1>1, <1>2, <1>3, <1>4, RecordStep
<1>6. TypeOK'
  BY <1>1, <1>5 DEF IInv, TypeOK
<1>7. SourceInv'
  BY <1>1, <1>5 DEF IInv, SourceInv, Names
<1> QED
  BY <1>5, <1>6, <1>7 DEF IInv

LEMMA WHOISRecordKeeps ==
    ASSUME IInv, BootstrapResolves \/ WHOISFails
    PROVE  IInv'
<1> USE DEF Gathering, BeforeRIR, BeforeASN, Relating
<1>1. UNCHANGED <<config, ctx, port43, found, answered, feeds, relations, status, err>>
  BY DEF BootstrapResolves, WHOISFails
<1>2. CASE BootstrapResolves
  <2>1. "whois_bootstrap" \in Names /\ "available" \in Statuses
    BY DEF Names, Statuses
  <2>2. pc = "bootstrap" /\ pc' = "dial" /\ Record("whois_bootstrap", "available")
    BY <1>2 DEF BootstrapResolves
  <2>3. /\ EvidenceInv' /\ MeaningInv' /\ OneEach(sources') /\ sources' \subseteq Entry
        /\ \A n \in Names : Lists(sources', n) <=> Lists(sources, n) \/ n = "whois_bootstrap"
        /\ NeedsWHOIS' = NeedsWHOIS /\ NeedsBootstrap' = NeedsBootstrap
    BY <1>1, <2>1, <2>2, RecordStep DEF IInv, SourceInv
  <2>4. TypeOK'
    BY <1>1, <2>2, <2>3 DEF IInv, TypeOK
  <2>5. SourceInv'
    BY <1>1, <2>2, <2>3 DEF IInv, SourceInv, Names
  <2> QED
    BY <2>3, <2>4, <2>5 DEF IInv
<1>3. CASE WHOISFails
  <2>1. "whois" \in Names
    BY DEF Names
  <2>2. PICK s \in FailsWith({"timeout", "error"}) : Record("whois", s)
    BY <1>3 DEF WHOISFails
  <2>3. pc \in {"dial", "whois"} /\ pc' = "rir" /\ s \in Statuses /\ s # "available"
    BY <1>3, FailureStatus DEF WHOISFails, Statuses
  <2>4. /\ EvidenceInv' /\ MeaningInv' /\ OneEach(sources') /\ sources' \subseteq Entry
        /\ \A n \in Names : Lists(sources', n) <=> Lists(sources, n) \/ n = "whois"
        /\ NeedsWHOIS' = NeedsWHOIS /\ NeedsBootstrap' = NeedsBootstrap
    BY <1>1, <2>1, <2>2, <2>3, RecordStep DEF IInv, SourceInv
  <2>5. TypeOK'
    BY <1>1, <2>3, <2>4 DEF IInv, TypeOK
  <2>6. SourceInv'
    BY <1>1, <2>3, <2>4 DEF IInv, SourceInv, Names
  <2> QED
    BY <2>4, <2>5, <2>6 DEF IInv
<1> QED
  BY <1>2, <1>3

LEMMA RecordRIRKeeps ==
    ASSUME IInv, RecordRIR
    PROVE  IInv'
<1> USE DEF Gathering, BeforeRIR, BeforeASN, Relating
<1>1. /\ pc = "rir" /\ pc' = "geofeed"
      /\ UNCHANGED <<config, ctx, port43, found, answered, feeds, relations, status, err>>
  BY DEF RecordRIR
<1>2. PICK s \in Statuses : Record("rir", s) /\ (s = "available" => found["rir"] # "none")
  BY DEF RecordRIR, Statuses
<1>3. "rir" \in Names /\ ~Lists(sources, "rir")
  BY <1>1 DEF IInv, SourceInv, Names
<1>4. /\ EvidenceInv' /\ MeaningInv' /\ OneEach(sources') /\ sources' \subseteq Entry
      /\ \A n \in Names : Lists(sources', n) <=> Lists(sources, n) \/ n = "rir"
      /\ NeedsWHOIS' = NeedsWHOIS /\ NeedsBootstrap' = NeedsBootstrap
  BY <1>1, <1>2, <1>3, RecordStep
<1>5. TypeOK'
  BY <1>1, <1>4 DEF IInv, TypeOK
<1>6. SourceInv'
  BY <1>1, <1>4 DEF IInv, SourceInv, Names
<1> QED
  BY <1>4, <1>5, <1>6 DEF IInv

LEMMA FetchGeofeedKeeps ==
    ASSUME IInv, FetchGeofeed
    PROVE  IInv'
<1> USE DEF Gathering, BeforeRIR, BeforeASN, Relating
<1>1. /\ pc = "geofeed" /\ feeds' \subseteq feeds
      /\ UNCHANGED <<config, ctx, pc, port43, found, answered, relations, status, err>>
  BY DEF FetchGeofeed
<1>2. PICK s \in Statuses : Record("geofeed", s)
  BY DEF FetchGeofeed, EndStatus, Statuses
<1>3. "geofeed" \in Names
  BY DEF Names
<1>4. /\ EvidenceInv' /\ MeaningInv' /\ OneEach(sources') /\ sources' \subseteq Entry
      /\ \A n \in Names : Lists(sources', n) <=> Lists(sources, n) \/ n = "geofeed"
      /\ NeedsWHOIS' = NeedsWHOIS /\ NeedsBootstrap' = NeedsBootstrap
  BY <1>1, <1>2, <1>3, RecordStep
<1>5. TypeOK'
  BY <1>1, <1>4 DEF IInv, TypeOK
<1>6. SourceInv'
  BY <1>1, <1>4 DEF IInv, SourceInv, Names
<1> QED
  BY <1>4, <1>5, <1>6 DEF IInv

LEMMA ASNRecordKeeps ==
    ASSUME IInv, ASNResolved \/ NoASN
    PROVE  IInv'
<1> USE DEF Gathering, BeforeRIR, BeforeASN, Relating
<1>1. pc = "asn" /\ UNCHANGED <<config, ctx, port43, found, answered, feeds, relations, status>>
  BY DEF ASNResolved, NoASN
<1>2. CASE ASNResolved
  <2>1. "asn_resolver" \in Names /\ "available" \in Statuses /\ Record("asn_resolver", "available")
    BY <1>2 DEF ASNResolved, Names, Statuses
  <2>2. \/ pc' = "relationships" /\ err' = err
        \/ pc' = "returned" /\ err' = "asn"
    BY <1>2 DEF ASNResolved, Returns
  <2>3. /\ EvidenceInv' /\ MeaningInv' /\ OneEach(sources') /\ sources' \subseteq Entry
        /\ \A n \in Names : Lists(sources', n) <=> Lists(sources, n) \/ n = "asn_resolver"
        /\ NeedsWHOIS' = NeedsWHOIS /\ NeedsBootstrap' = NeedsBootstrap
    BY <1>1, <2>1, <2>2, RecordStep DEF IInv, SourceInv
  <2>4. TypeOK'
    BY <1>1, <2>2, <2>3 DEF IInv, TypeOK
  <2>5. SourceInv'
    BY <1>1, <2>2, <2>3 DEF IInv, SourceInv, Names
  <2> QED
    BY <2>3, <2>4, <2>5 DEF IInv
<1>3. CASE NoASN
  <2>1. /\ "asn_relationships" \in Names /\ "unsupported" \in Statuses
        /\ Record("asn_relationships", "unsupported") /\ pc' = "finish" /\ err' = err
    BY <1>3 DEF NoASN, Names, Statuses
  <2>2. /\ EvidenceInv' /\ MeaningInv' /\ OneEach(sources') /\ sources' \subseteq Entry
        /\ \A n \in Names : Lists(sources', n) <=> Lists(sources, n) \/ n = "asn_relationships"
        /\ NeedsWHOIS' = NeedsWHOIS /\ NeedsBootstrap' = NeedsBootstrap
    BY <1>1, <2>1, RecordStep DEF IInv, SourceInv
  <2>3. TypeOK'
    BY <1>1, <2>1, <2>2 DEF IInv, TypeOK
  <2>4. SourceInv'
    BY <1>1, <2>1, <2>2 DEF IInv, SourceInv, Names
  <2> QED
    BY <2>2, <2>3, <2>4 DEF IInv
<1> QED
  BY <1>2, <1>3
(* Two sources recorded at once, of which neither says anything about the  *)
(* evidence.                                                               *)
LEMMA RecordTwo ==
    ASSUME IInv, NEW a \in Names, NEW b \in Names, a # b, NEW s \in Statuses, NEW t \in Statuses,
           sources' = sources \cup Entries(a, s) \cup Entries(b, t),
           UNCHANGED <<config, port43, found, answered, relations, status>>,
           pc # "returned", ~Lists(sources, a), ~Lists(sources, b),
           pc' \in Gathering => pc \in Gathering, pc' # "rdap",
           a \notin {"rdap", "rir", "asn_relationships"}, t # "available"
    PROVE  /\ EvidenceInv' /\ MeaningInv' /\ OneEach(sources') /\ sources' \subseteq Entry
           /\ \A n \in Names : Lists(sources', n) <=> Lists(sources, n) \/ n \in {a, b}
           /\ NeedsWHOIS' = NeedsWHOIS /\ NeedsBootstrap' = NeedsBootstrap
<1> DEFINE one == sources \cup Entries(a, s)
<1>1. Adds(sources, one, a, s)
  BY AddEntry DEF IInv, TypeOK
<1>2. one \in SUBSET Entry /\ sources' = one \cup Entries(b, t)
  BY <1>1 DEF Adds
<1> HIDE DEF one
<1>3. Adds(one, sources', b, t)
  BY <1>2, AddEntry
<1>4. /\ OneEach(sources') /\ sources' \subseteq Entry
      /\ \A n \in Names : Lists(sources', n) <=> Lists(sources, n) \/ n \in {a, b}
  BY <1>1, <1>3 DEF Adds, IInv, SourceInv
<1>5. EvidenceInv'
  BY DEF IInv, EvidenceInv
<1>6. \A e \in sources' : Means(e)'
  BY <1>1, <1>3 DEF IInv, MeaningInv, Means, Adds
<1>7. MeaningInv'
  BY <1>6 DEF IInv, MeaningInv
<1>8. NeedsWHOIS' = NeedsWHOIS /\ NeedsBootstrap' = NeedsBootstrap
  BY DEF NeedsWHOIS, NeedsBootstrap
<1> QED
  BY <1>4, <1>5, <1>7, <1>8

LEMMA BootstrapFailsKeeps ==
    ASSUME IInv, BootstrapFails
    PROVE  IInv'
<1> USE DEF Gathering, BeforeRIR, BeforeASN, Relating
<1>1. /\ pc = "bootstrap" /\ pc' = "rir"
      /\ UNCHANGED <<config, ctx, port43, found, answered, feeds, relations, status, err>>
  BY DEF BootstrapFails
<1>2. PICK s \in FailsWith({"timeout", "error"}) :
         sources' = sources \cup Entries("whois_bootstrap", s) \cup Entries("whois", "unsupported")
  BY DEF BootstrapFails
<1>3. /\ s \in Statuses /\ "unsupported" \in Statuses
      /\ "whois_bootstrap" \in Names /\ "whois" \in Names
  BY FailureStatus DEF Statuses, Names
<1>4. /\ EvidenceInv' /\ MeaningInv' /\ OneEach(sources') /\ sources' \subseteq Entry
      /\ \A n \in Names : Lists(sources', n) <=>
            Lists(sources, n) \/ n \in {"whois_bootstrap", "whois"}
      /\ NeedsWHOIS' = NeedsWHOIS /\ NeedsBootstrap' = NeedsBootstrap
  BY <1>1, <1>2, <1>3, RecordTwo DEF IInv, SourceInv
<1>5. TypeOK'
  BY <1>1, <1>4 DEF IInv, TypeOK
<1>6. SourceInv'
  BY <1>1, <1>4 DEF IInv, SourceInv, Names
<1> QED
  BY <1>4, <1>5, <1>6 DEF IInv

LEMMA NoASNResolvedKeeps ==
    ASSUME IInv, NoASNResolved
    PROVE  IInv'
<1> USE DEF Gathering, BeforeRIR, BeforeASN, Relating
<1>1. /\ pc = "asn" /\ pc' = "finish"
      /\ UNCHANGED <<config, ctx, port43, found, answered, feeds, relations, status, err>>
  BY DEF NoASNResolved
<1>2. PICK s \in FailsWith(ResolverFailures \cup {"available"}) :
         sources' = sources \cup Entries("asn_resolver", s)
                            \cup Entries("asn_relationships", "unsupported")
  BY DEF NoASNResolved
<1>3. /\ s \in Statuses /\ "unsupported" \in Statuses
      /\ "asn_resolver" \in Names /\ "asn_relationships" \in Names
  BY FailureStatus DEF ResolverFailures, Statuses, Names
<1>4. /\ EvidenceInv' /\ MeaningInv' /\ OneEach(sources') /\ sources' \subseteq Entry
      /\ \A n \in Names : Lists(sources', n) <=>
            Lists(sources, n) \/ n \in {"asn_resolver", "asn_relationships"}
      /\ NeedsWHOIS' = NeedsWHOIS /\ NeedsBootstrap' = NeedsBootstrap
  BY <1>1, <1>2, <1>3, RecordTwo DEF IInv, SourceInv
<1>5. TypeOK'
  BY <1>1, <1>4 DEF IInv, TypeOK
<1>6. SourceInv'
  BY <1>1, <1>4 DEF IInv, SourceInv, Names
<1> QED
  BY <1>4, <1>5, <1>6 DEF IInv

(* What RDAP gives becomes the evidence.                                   *)
LEMMA RDAPAnswersKeeps ==
    ASSUME IInv, RDAPAnswers
    PROVE  IInv'
<1> USE DEF Gathering, BeforeRIR, BeforeASN, Relating
<1>1. /\ pc = "rdap" /\ pc' = "fallback" /\ UNCHANGED <<config, ctx, relations, status, err>>
      /\ feeds' \subseteq Feeds
  BY DEF RDAPAnswers
<1>2. PICK given \in SUBSET Evidence :
         /\ answered' = [answered EXCEPT !["rdap"] = given]
         /\ found' = [e \in Evidence |-> IF e \in given THEN "rdap" ELSE "none"]
         /\ Record("rdap", IF {"prefixes", "date"} \subseteq given THEN "available"
                           ELSE "missing_fields")
  BY DEF RDAPAnswers
<1>3. PICK s \in {"available", "missing_fields"} :
         Record("rdap", s) /\ (s = "available" => {"prefixes", "date"} \subseteq given)
  BY <1>2
<1>4. /\ answered' \in [{"rdap", "whois"} -> SUBSET Evidence]
      /\ answered'["rdap"] = given /\ answered'["whois"] = answered["whois"]
      /\ found' \in [Evidence -> {"none", "rdap", "whois"}]
      /\ \A e \in Evidence : found'[e] = IF e \in given THEN "rdap" ELSE "none"
  BY <1>2 DEF IInv, TypeOK
<1>5. s \in Statuses /\ "rdap" \in Names
  BY DEF Statuses, Names
<1>6. Adds(sources, sources', "rdap", s)
  BY <1>3, <1>5, AddEntry DEF Record, IInv, TypeOK
<1>7. ~Lists(sources, "rdap") /\ ~Lists(sources, "rir") /\ ~Lists(sources, "asn_relationships")
  BY <1>1 DEF IInv, SourceInv
<1>8. /\ sources' \subseteq Entry /\ OneEach(sources')
      /\ \A n \in Names : Lists(sources', n) <=> Lists(sources, n) \/ n = "rdap"
  BY <1>6, <1>7 DEF Adds, IInv, SourceInv
<1>9. port43' \in BOOLEAN
  BY DEF RDAPAnswers
<1>10. TypeOK'
  BY <1>1, <1>4, <1>8, <1>9 DEF IInv, TypeOK
<1>11. EvidenceInv'
  BY <1>1, <1>4 DEF IInv, EvidenceInv
<1>12. SourceInv'
  BY <1>1, <1>8 DEF IInv, SourceInv, Names
<1>13. \A e \in sources' : Means(e)'
  BY <1>1, <1>3, <1>4, <1>6, <1>7 DEF IInv, MeaningInv, Means, Adds, Lists
<1>14. MeaningInv'
  BY <1>1, <1>13 DEF IInv, MeaningInv
<1> QED
  BY <1>10, <1>11, <1>12, <1>14 DEF IInv

(* What WHOIS gives fills the gaps only.                                   *)
LEMMA WHOISAnswersKeeps ==
    ASSUME IInv, WHOISAnswers
    PROVE  IInv'
<1> USE DEF Gathering, BeforeRIR, BeforeASN, Relating
<1>1. /\ pc = "whois" /\ pc' = "rir"
      /\ UNCHANGED <<config, ctx, port43, relations, status, err>>
  BY DEF WHOISAnswers
<1>2. PICK given \in SUBSET Evidence, more \in SUBSET Feeds :
         /\ answered' = [answered EXCEPT !["whois"] = given]
         /\ found' = Completed(given)
         /\ feeds' = feeds \cup more
         /\ Record("whois", IF given = {} /\ more = {} THEN "missing_fields" ELSE "available")
  BY DEF WHOISAnswers
<1>3. PICK s \in {"available", "missing_fields"} : Record("whois", s)
  BY <1>2
<1>4. /\ answered' \in [{"rdap", "whois"} -> SUBSET Evidence]
      /\ answered'["whois"] = given /\ answered'["rdap"] = answered["rdap"]
  BY <1>2 DEF IInv, TypeOK
<1>5. \A e \in Evidence :
         found'[e] = IF found[e] = "none" /\ e \in given THEN "whois" ELSE found[e]
  BY <1>2 DEF Completed
<1>6. found' \in [Evidence -> {"none", "rdap", "whois"}]
  BY <1>2 DEF Completed, IInv, TypeOK
<1>7. s \in Statuses /\ "whois" \in Names
  BY DEF Statuses, Names
<1>8. Adds(sources, sources', "whois", s)
  BY <1>3, <1>7, AddEntry DEF Record, IInv, TypeOK
<1>9. ~Lists(sources, "whois") /\ ~Lists(sources, "rir") /\ ~Lists(sources, "asn_relationships")
  BY <1>1 DEF IInv, SourceInv
<1>10. /\ sources' \subseteq Entry /\ OneEach(sources')
       /\ \A n \in Names : Lists(sources', n) <=> Lists(sources, n) \/ n = "whois"
  BY <1>8, <1>9 DEF Adds, IInv, SourceInv
<1>11. feeds' \subseteq Feeds
  BY <1>2 DEF IInv, TypeOK
<1>12. TypeOK'
  BY <1>1, <1>4, <1>6, <1>10, <1>11 DEF IInv, TypeOK
<1>13. EvidenceInv'
  BY <1>1, <1>4, <1>5 DEF IInv, EvidenceInv
<1>14. NeedsWHOIS' = NeedsWHOIS /\ NeedsBootstrap' = NeedsBootstrap
  BY <1>1, <1>4 DEF NeedsWHOIS, NeedsBootstrap
<1>15. SourceInv'
  BY <1>1, <1>10, <1>14 DEF IInv, SourceInv, Names
<1>16. \A e \in sources' : Means(e)'
  BY <1>1, <1>4, <1>8, <1>9 DEF IInv, MeaningInv, Means, Adds, Lists
<1>17. MeaningInv'
  BY <1>1, <1>16 DEF IInv, MeaningInv
<1> QED
  BY <1>12, <1>13, <1>15, <1>17 DEF IInv

-----------------------------------------------------------------------------
LEMMA FetchRelationshipKeeps ==
    ASSUME IInv, FetchRelationship("ripestat", "peeringdb")
                 \/ FetchRelationship("peeringdb", "related")
    PROVE  IInv'
<1> USE DEF Gathering, BeforeRIR, BeforeASN, Relating
<1>1. /\ pc \in {"ripestat", "peeringdb"} /\ pc' \in {"peeringdb", "related"}
      /\ UNCHANGED <<config, ctx, port43, found, answered, feeds, sources, status, err>>
  BY DEF FetchRelationship
<1>2. relations' \subseteq Statuses
  BY DEF FetchRelationship, EndStatus, IInv, TypeOK, Statuses
<1>3. TypeOK' /\ EvidenceInv'
  BY <1>1, <1>2 DEF IInv, TypeOK, EvidenceInv
<1>4. NeedsWHOIS' = NeedsWHOIS /\ NeedsBootstrap' = NeedsBootstrap
  BY <1>1 DEF NeedsWHOIS, NeedsBootstrap
<1>5. SourceInv'
  BY <1>1, <1>4 DEF IInv, SourceInv
<1>6. ~Lists(sources, "asn_relationships")
  BY <1>1 DEF IInv, SourceInv
<1>7. MeaningInv'
  BY <1>1, <1>6 DEF IInv, MeaningInv, Means, Lists
<1> QED
  BY <1>3, <1>5, <1>7 DEF IInv

(* aggregateRelationshipStatus calls a report available only when both     *)
(* sources are.                                                            *)
LEMMA RelationshipStatusAvailable ==
    /\ RelationshipStatus \in Statuses
    /\ RelationshipStatus = "available" => relations = {"available"}
BY DEF RelationshipStatus, Statuses

LEMMA RelationshipsEndKeeps ==
    ASSUME IInv, RelationshipsMisconfigured \/ RelationshipsEnd
    PROVE  IInv'
<1> USE DEF Gathering, BeforeRIR, BeforeASN, Relating
<1>1. /\ pc \in {"ripestat", "peeringdb", "related"}
      /\ UNCHANGED <<config, ctx, port43, found, answered, feeds, relations, status>>
  BY DEF RelationshipsMisconfigured, RelationshipsEnd
<1>2. ASSUME NEW s \in Statuses, Record("asn_relationships", s), pc' = "finish", err' = err,
             s = "available" => relations = {"available"}
      PROVE  IInv'
  <2>1. "asn_relationships" \in Names
    BY DEF Names
  <2>2. /\ EvidenceInv' /\ MeaningInv' /\ OneEach(sources') /\ sources' \subseteq Entry
        /\ \A n \in Names : Lists(sources', n) <=> Lists(sources, n) \/ n = "asn_relationships"
        /\ NeedsWHOIS' = NeedsWHOIS /\ NeedsBootstrap' = NeedsBootstrap
    BY <1>1, <1>2, <2>1, RecordStep DEF IInv, SourceInv
  <2>3. TypeOK'
    BY <1>1, <1>2, <2>2 DEF IInv, TypeOK
  <2>4. SourceInv'
    BY <1>1, <1>2, <2>2 DEF IInv, SourceInv, Names
  <2> QED
    BY <2>2, <2>3, <2>4 DEF IInv
<1>3. CASE RelationshipsMisconfigured
  BY <1>2, <1>3 DEF RelationshipsMisconfigured, Statuses
<1>4. CASE RelationshipsEnd /\ ctx = "live"
  BY <1>2, <1>4, RelationshipStatusAvailable DEF RelationshipsEnd
<1>5. CASE RelationshipsEnd /\ ctx # "live"
  <2>1. pc' = "returned" /\ err' = ctx /\ sources' = sources
    BY <1>5 DEF RelationshipsEnd, Returns
  <2>2. TypeOK' /\ err' # "none"
    BY <1>1, <1>5, <2>1 DEF IInv, TypeOK, Statuses
  <2> QED
    BY <1>1, <2>1, <2>2, MoveKeeps
<1> QED
  BY <1>3, <1>4, <1>5

(* aggregateReportStatus calls a report what all its sources are.          *)
LEMMA StatusesFinite == IsFiniteSet(Statuses)
<1>1. Statuses = {"available"} \cup {"partial"} \cup {"rate_limited"} \cup {"timeout"}
                 \cup {"missing_fields"} \cup {"error"} \cup {"unsupported"}
  BY DEF Statuses
<1> QED
  BY <1>1, FS_Singleton, FS_Union

LEMMA AggregateMeans ==
    ASSUME IInv
    PROVE  /\ Aggregate \in Statuses
           /\ Aggregate = "available" => \A e \in sources : e.status = "available"
<1> DEFINE given == {entry.status : entry \in sources}
<1>1. given \subseteq Statuses
  BY DEF IInv, TypeOK, Entry
<1>2. IsFiniteSet(given)
  BY <1>1, StatusesFinite, FS_Subset
<1>3. CASE Cardinality(given) = 1
  <2> HIDE DEF given
  <2>1. PICK s : given = {s}
    BY <1>2, <1>3, FS_Singleton
  <2>2. s \in Statuses /\ (CHOOSE x \in given : TRUE) = s
    BY <1>1, <2>1
  <2>3. Aggregate = s
    BY <1>3, <2>2 DEF Aggregate, given
  <2>4. \A e \in sources : e.status = s
    BY <2>1 DEF given
  <2> QED
    BY <2>2, <2>3, <2>4
<1>4. CASE Cardinality(given) # 1
  BY <1>4 DEF Aggregate, Statuses
<1> QED
  BY <1>3, <1>4

LEMMA FinishKeeps ==
    ASSUME IInv, Finish
    PROVE  IInv'
<1> USE DEF Gathering, BeforeRIR, BeforeASN, Relating
<1>1. /\ pc = "finish" /\ pc' = "returned" /\ err' \in {"none", "deadline", "canceled"}
      /\ UNCHANGED <<config, ctx, port43, found, answered, feeds, sources, relations>>
      /\ status' \in {status, Aggregate}
  BY DEF Finish, Returns, IInv, TypeOK
<1>2. TypeOK'
  BY <1>1, AggregateMeans DEF IInv, TypeOK
<1>3. EvidenceInv'
  BY <1>1 DEF IInv, EvidenceInv
<1>4. NeedsWHOIS' = NeedsWHOIS /\ NeedsBootstrap' = NeedsBootstrap
  BY <1>1 DEF NeedsWHOIS, NeedsBootstrap
<1>5. SourceInv'
  BY <1>1, <1>4 DEF IInv, SourceInv
<1>6. MeaningInv'
  BY <1>1, AggregateMeans DEF IInv, MeaningInv, Means
<1> QED
  BY <1>2, <1>3, <1>5, <1>6 DEF IInv

LEMMA NextKeeps ==
    ASSUME IInv, [Next]_vars
    PROVE  IInv'
<1>1. CASE TimerFires \/ CallerCancels
  BY <1>1, EndsContext
<1>2. CASE Step
  BY <1>2, RDAPFailsKeeps, RDAPAnswersKeeps, FallbackKeeps, BootstrapFailsKeeps, WHOISRecordKeeps,
     GoesOn, WHOISAnswersKeeps, RecordRIRKeeps, FetchGeofeedKeeps, ASNRecordKeeps,
     NoASNResolvedKeeps, FetchRelationshipKeeps, RelationshipsEndKeeps, FinishKeeps DEF Step
<1>3. CASE UNCHANGED vars
  <2>1. UNCHANGED <<config, ctx, pc, port43, found, answered, feeds, sources, relations,
                    status, err>>
    BY <1>3 DEF vars
  <2>2. TypeOK' /\ EvidenceInv'
    BY <2>1 DEF IInv, TypeOK, EvidenceInv, Gathering
  <2>3. SourceInv'
    BY <2>1 DEF IInv, SourceInv, NeedsWHOIS, NeedsBootstrap, Gathering, BeforeRIR, BeforeASN,
                Relating
  <2>4. MeaningInv'
    BY <2>1 DEF IInv, MeaningInv, Means
  <2> QED
    BY <2>2, <2>3, <2>4 DEF IInv
<1> QED
  BY <1>1, <1>2, <1>3 DEF Next, Returned

LEMMA Inductive == Spec => []IInv
<1>1. IInv /\ [Next]_vars => IInv'
  BY NextKeeps
<1> QED
  BY InitInv, <1>1, PTL DEF Spec

-----------------------------------------------------------------------------
(* Every variable of a report keeps its type, whatever the providers do.   *)
THEOREM TypeCorrect == Spec => []TypeOK
<1>1. IInv => TypeOK
  BY DEF IInv
<1> QED
  BY Inductive, <1>1, PTL

(* WHOIS never replaces what RDAP gave, and nothing either of them gave is *)
(* lost.                                                                   *)
THEOREM EvidencePrecedenceHolds == Spec => []EvidencePrecedence
<1>1. IInv => EvidencePrecedence
  BY DEF IInv, EvidenceInv, EvidencePrecedence
<1> QED
  BY Inductive, <1>1, PTL

(* A report that is called available holds all the evidence and the        *)
(* answers of both relationship sources.                                   *)
THEOREM SuccessIsCompleteHolds == Spec => []SuccessIsComplete
<1>1. ASSUME IInv, pc = "returned", err = "none", status = "available"
      PROVE  /\ \A e \in Evidence : found[e] # "none"
             /\ StatusesOf("asn_relationships") = {"available"}
             /\ relations = {"available"}
  <2>1. \A e \in sources : e.status = "available" /\ Means(e)
    BY <1>1 DEF IInv, MeaningInv
  <2>2. Lists(sources, "rdap") /\ Lists(sources, "rir") /\ Lists(sources, "asn_relationships")
    BY <1>1 DEF IInv, SourceInv, Gathering, BeforeRIR
  <2>3. /\ {"prefixes", "date"} \subseteq answered["rdap"] /\ found["rir"] # "none"
        /\ relations = {"available"}
    BY <2>1, <2>2 DEF Lists, Means
  <2>4. ASSUME NEW e \in Evidence
        PROVE  found[e] # "none"
    <3>1. CASE e \in answered["rdap"]
      BY <1>1, <3>1 DEF IInv, EvidenceInv
    <3>2. CASE e = "rir"
      BY <2>3, <3>2
    <3> QED
      BY <2>3, <3>1, <3>2 DEF Evidence
  <2>5. StatusesOf("asn_relationships") = {"available"}
    BY <2>1, <2>2 DEF StatusesOf, Lists
  <2> QED
    BY <2>3, <2>4, <2>5
<1>2. IInv => SuccessIsComplete
  BY <1>1 DEF SuccessIsComplete
<1> QED
  BY Inductive, <1>2, PTL

(* A report without an error lists every source it asked, each once, and   *)
(* none that it did not ask.                                               *)
THEOREM EverySourceAccountedHolds == Spec => []EverySourceAccounted
<1>1. \A name : StatusesOf(name) # {} <=> Lists(sources, name)
  BY DEF StatusesOf, Lists
<1>2. ASSUME IInv, pc = "returned", err = "none"
      PROVE  /\ \A e, f \in sources : e.source = f.source /\ e # f => e.source = "geofeed"
             /\ \A name \in {"rdap", "rir", "asn_relationships"} : StatusesOf(name) # {}
             /\ StatusesOf("whois") # {} <=> config.whois /\ answered["rdap"] # Evidence
             /\ StatusesOf("whois_bootstrap") # {} <=>
                   StatusesOf("whois") # {} /\ ~config.server /\ ~port43
  <2>1. \A e, f \in sources : e.source = f.source /\ e # f => e.source = "geofeed"
    BY <1>2 DEF IInv, SourceInv, OneEach
  <2>2. /\ Lists(sources, "rdap") /\ Lists(sources, "rir") /\ Lists(sources, "asn_relationships")
        /\ Lists(sources, "whois") <=> NeedsWHOIS
        /\ Lists(sources, "whois_bootstrap") <=> NeedsBootstrap
    BY <1>2 DEF IInv, SourceInv, Gathering, BeforeRIR
  <2> QED
    BY <1>1, <2>1, <2>2 DEF NeedsWHOIS, NeedsBootstrap
<1>3. IInv => EverySourceAccounted
  BY <1>2 DEF EverySourceAccounted
<1> QED
  BY Inductive, <1>3, PTL
=============================================================================
