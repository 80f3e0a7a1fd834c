---------------------------- MODULE IPBGPReport ----------------------------
(***************************************************************************)
(* QueryIPBGPReport of bgptools/report.go with QueryASNRelationships of    *)
(* bgptools/relationships.go: one provider is asked after the other, each  *)
(* may fail in its own way, WHOIS fills the gaps RDAP leaves, and the      *)
(* context may time out or be cancelled between and during the requests.   *)
(* Of a provider's answer the model keeps which evidence it carries.       *)
(***************************************************************************)
EXTENDS FiniteSets

CONSTANTS
    Configs,     \* the options a call may be made with
    Feeds        \* geofeed URLs the providers may name

Evidence == {"prefixes", "date", "rir"}

Statuses == {"available", "partial", "rate_limited", "timeout", "missing_fields", "error",
             "unsupported"}

VARIABLES
    config,      \* the options of the call that matter here
    ctx,         \* "live", "deadline" (cfg.Timeout passed) or "canceled" (by the caller)
    pc,          \* the request that is under way
    port43,      \* RDAP named a WHOIS server
    found,       \* per kind of evidence, the source the report has it from
    answered,    \* history: per source, the evidence it gave
    feeds,       \* geofeed URLs still to be fetched
    sources,     \* report.Sources, which the report sorts by name in the end
    relations,   \* source statuses of the relationship report
    status,      \* report.Status
    err          \* the error returned: "none", "asn", "deadline" or "canceled"

vars == <<config, ctx, pc, port43, found, answered, feeds, sources, relations, status, err>>

(* EnableWHOISFallback, WHOISServer, FetchGeofeed, and where the ASN comes  *)
(* from: cfg.ASN, which may be malformed, or cfg.ResolveASN.               *)
Config == [whois : BOOLEAN, server : BOOLEAN, geofeed : BOOLEAN,
           asn : {"none", "supplied", "malformed", "resolver"}]

ASSUME ConfigsAssumption == Configs \subseteq Config

Entry == [source : {"rdap", "whois_bootstrap", "whois", "rir", "geofeed", "asn_resolver",
                    "asn_relationships"}, status : Statuses]

TypeOK ==
    /\ config \in Configs /\ ctx \in {"live", "deadline", "canceled"}
    /\ pc \in {"rdap", "fallback", "bootstrap", "dial", "whois", "rir", "geofeed", "asn",
               "relationships", "ripestat", "peeringdb", "related", "finish", "returned"}
    /\ port43 \in BOOLEAN
    /\ found \in [Evidence -> {"none", "rdap", "whois"}]
    /\ answered \in [{"rdap", "whois"} -> SUBSET Evidence]
    /\ feeds \subseteq Feeds
    /\ sources \subseteq Entry /\ relations \subseteq Statuses
    /\ status \in Statuses /\ err \in {"none", "asn", "deadline", "canceled"}

Init ==
    /\ config \in Configs /\ ctx = "live" /\ pc = "rdap" /\ port43 = FALSE
    /\ found = [e \in Evidence |-> "none"] /\ answered = [s \in {"rdap", "whois"} |-> {}]
    /\ feeds = {} /\ sources = {} /\ relations = {} /\ status = "error" /\ err = "none"

-----------------------------------------------------------------------------
TimerOfRDAP ==
    /\ ctx = "live" /\ pc = "rdap"
    /\ ctx' = "deadline"
    /\ UNCHANGED <<config, pc, port43, found, answered, feeds, sources, relations, status, err>>

(* cfg.Timeout bounds all the requests together.                           *)
TimerFires ==
    /\ ctx = "live" /\ pc # "returned"
    /\ ctx' = "deadline"
    /\ UNCHANGED <<config, pc, port43, found, answered, feeds, sources, relations, status, err>>

CallerCancels ==
    /\ ctx = "live" /\ pc # "returned"
    /\ ctx' = "canceled"
    /\ UNCHANGED <<config, pc, port43, found, answered, feeds, sources, relations, status, err>>

(* How reportStatusForError and fetchRelationshipJSON see the context end. *)
EndStatus == IF ctx = "deadline" THEN "timeout" ELSE "error"

(* A request fails on its own account, or because the context has ended.   *)
FailsWith(own) == IF ctx = "live" THEN own ELSE {EndStatus, "error"}

Entries(name, s) == [source : {name}, status : {s}]

Record(name, s) == sources' = sources \cup Entries(name, s)

Returns(e) == pc' = "returned" /\ err' = e

(* QueryRDAP.                                                              *)
RDAPFails ==
    /\ pc = "rdap"
    /\ \E s \in FailsWith({"rate_limited", "error"}) : Record("rdap", s)
    /\ pc' = "fallback"
    /\ UNCHANGED <<config, ctx, port43, found, answered, feeds, relations, status, err>>

RDAPAnswers ==
    /\ pc = "rdap" /\ ctx = "live"
    /\ \E given \in SUBSET Evidence :
          /\ answered' = [answered EXCEPT !["rdap"] = given]
          /\ found' = [e \in Evidence |-> IF e \in given THEN "rdap" ELSE "none"]
          /\ Record("rdap", IF {"prefixes", "date"} \subseteq given THEN "available"
                            ELSE "missing_fields")
    /\ port43' \in BOOLEAN
    /\ feeds' \in SUBSET Feeds
    /\ pc' = "fallback"
    /\ UNCHANGED <<config, ctx, relations, status, err>>

(* The WHOIS fallback runs when anything is missing and finds its server   *)
(* in the configuration, in the RDAP answer or in the IANA bootstrap.      *)
Fallback ==
    /\ pc = "fallback"
    /\ pc' = IF ~config.whois \/ \A e \in Evidence : found[e] # "none" THEN "rir"
             ELSE IF config.server \/ port43 THEN "dial" ELSE "bootstrap"
    /\ UNCHANGED <<config, ctx, port43, found, answered, feeds, sources, relations, status, err>>

BootstrapSilent ==
    /\ pc = "bootstrap"
    /\ Record("whois", "unsupported")
    /\ pc' = "rir"
    /\ UNCHANGED <<config, ctx, port43, found, answered, feeds, relations, status, err>>

BootstrapFails ==
    /\ pc = "bootstrap"
    /\ \E s \in FailsWith({"timeout", "error"}) :
          sources' = sources \cup Entries("whois_bootstrap", s) \cup Entries("whois", "unsupported")
    /\ pc' = "rir"
    /\ UNCHANGED <<config, ctx, port43, found, answered, feeds, relations, status, err>>

BootstrapResolves ==
    /\ pc = "bootstrap" /\ ctx = "live"
    /\ Record("whois_bootstrap", "available")
    /\ pc' = "dial"
    /\ UNCHANGED <<config, ctx, port43, found, answered, feeds, relations, status, err>>

(* queryWHOIS: dialling heeds the context, and the connection gets its     *)
(* deadline but does not notice that the caller cancels.                   *)
WHOISDialled ==
    /\ pc = "dial" /\ ctx = "live"
    /\ pc' = "whois"
    /\ UNCHANGED <<config, ctx, port43, found, answered, feeds, sources, relations, status, err>>

WHOISFails ==
    /\ pc \in {"dial", "whois"}
    /\ \E s \in FailsWith({"timeout", "error"}) : Record("whois", s)
    /\ pc' = "rir"
    /\ UNCHANGED <<config, ctx, port43, found, answered, feeds, relations, status, err>>

Overwritten(given) == [e \in Evidence |-> IF e \in given THEN "whois" ELSE found[e]]

Completed(given) == [e \in Evidence |-> IF found[e] = "none" /\ e \in given THEN "whois" ELSE found[e]]

WHOISAnswers ==
    /\ pc = "whois" /\ ctx # "deadline"
    /\ \E given \in SUBSET Evidence, more \in SUBSET Feeds :
          /\ answered' = [answered EXCEPT !["whois"] = given]
          /\ found' = Completed(given)
          /\ feeds' = feeds \cup more
          /\ Record("whois", IF given = {} /\ more = {} THEN "missing_fields" ELSE "available")
    /\ pc' = "rir"
    /\ UNCHANGED <<config, ctx, port43, relations, status, err>>

RecordRIR ==
    /\ pc = "rir"
    /\ Record("rir", IF found["rir"] # "none" THEN "available" ELSE "missing_fields")
    /\ pc' = "geofeed"
    /\ UNCHANGED <<config, ctx, port43, found, answered, feeds, relations, status, err>>

(* fetchGeofeed; without FetchGeofeed the URLs are listed and not counted  *)
(* as a source.                                                            *)
FetchGeofeed ==
    /\ pc = "geofeed" /\ config.geofeed
    /\ \E feed \in feeds :
          /\ feeds' = feeds \ {feed}
          /\ \E s \in IF ctx = "live" THEN {"available", "rate_limited", "timeout", "error", "unsupported"}
                      ELSE {EndStatus, "error", "unsupported"} : Record("geofeed", s)
    /\ UNCHANGED <<config, ctx, pc, port43, found, answered, relations, status, err>>

GeofeedsDone ==
    /\ pc = "geofeed" /\ (~config.geofeed \/ feeds = {})
    /\ pc' = "asn"
    /\ UNCHANGED <<config, ctx, port43, found, answered, feeds, sources, relations, status, err>>

(* The ASN is supplied or resolved; normalizeASN rejects a malformed one,  *)
(* wherever it comes from.                                                 *)
ASNSupplied ==
    /\ pc = "asn" /\ config.asn = "supplied"
    /\ pc' = "relationships"
    /\ UNCHANGED <<config, ctx, port43, found, answered, feeds, sources, relations, status, err>>

ASNMalformed ==
    /\ pc = "asn" /\ config.asn = "malformed"
    /\ Returns("asn")
    /\ UNCHANGED <<config, ctx, port43, found, answered, feeds, sources, relations, status>>

ASNResolved ==
    /\ pc = "asn" /\ config.asn = "resolver" /\ ctx = "live"
    /\ Record("asn_resolver", "available")
    /\ \/ pc' = "relationships" /\ UNCHANGED err
       \/ Returns("asn")
    /\ UNCHANGED <<config, ctx, port43, found, answered, feeds, relations, status>>

(* What ResolveOriginASN comes to when it names no AS.                     *)
ResolverFailures == {"rate_limited", "timeout", "error"}

(* The resolver fails, or answers with nothing.                            *)
NoASNResolved ==
    /\ pc = "asn" /\ config.asn = "resolver"
    /\ \E s \in FailsWith(ResolverFailures \cup {"available"}) :
          sources' = sources \cup Entries("asn_resolver", s)
                             \cup Entries("asn_relationships", "unsupported")
    /\ pc' = "finish"
    /\ UNCHANGED <<config, ctx, port43, found, answered, feeds, relations, status, err>>

NoASN ==
    /\ pc = "asn" /\ config.asn = "none"
    /\ Record("asn_relationships", "unsupported")
    /\ pc' = "finish"
    /\ UNCHANGED <<config, ctx, port43, found, answered, feeds, relations, status, err>>

-----------------------------------------------------------------------------
(* QueryASNRelationships does not start when the context has ended.        *)
RelationshipsRefused ==
    /\ pc = "relationships" /\ ctx # "live"
    /\ Returns(ctx)
    /\ UNCHANGED <<config, ctx, port43, found, answered, feeds, sources, relations, status>>

RelationshipsBegin ==
    /\ pc = "relationships" /\ ctx = "live"
    /\ pc' = "ripestat"
    /\ UNCHANGED <<config, ctx, port43, found, answered, feeds, sources, relations, status, err>>

(* fetchRelationshipJSON and the parser of its source.                     *)
FetchRelationship(name, after) ==
    /\ pc = name
    /\ \E s \in IF ctx = "live"
                THEN {"available", "missing_fields", "rate_limited", "timeout", "error"}
                ELSE {EndStatus, "error"} : relations' = relations \cup {s}
    /\ pc' = after
    /\ UNCHANGED <<config, ctx, port43, found, answered, feeds, sources, status, err>>

AnyRelationship == IF "available" \in relations THEN "available" ELSE "error"

(* aggregateRelationshipStatus: nothing counts more than a rate limit,     *)
(* then a timeout, then missing fields.                                    *)
RelationshipStatus ==
    LET worst == {"rate_limited", "timeout", "missing_fields", "error"} \cap relations
    IN  CASE relations = {"available"} -> "available"
          [] "available" \in relations /\ worst # {} -> "partial"
          [] "available" \notin relations /\ "rate_limited" \in worst -> "rate_limited"
          [] relations \cap {"available", "rate_limited"} = {} /\ "timeout" \in worst -> "timeout"
          [] relations \subseteq {"missing_fields", "error"} /\ "missing_fields" \in worst -> "missing_fields"
          [] OTHER -> "error"

(* The URL of a source does not parse.                                     *)
RelationshipsMisconfigured ==
    /\ pc \in {"ripestat", "peeringdb"}
    /\ Record("asn_relationships", "error")
    /\ pc' = "finish"
    /\ UNCHANGED <<config, ctx, port43, found, answered, feeds, relations, status, err>>

RelationshipsEnd ==
    /\ pc = "related"
    /\ IF ctx = "live"
       THEN Record("asn_relationships", RelationshipStatus) /\ pc' = "finish" /\ UNCHANGED err
       ELSE Returns(ctx) /\ UNCHANGED sources
    /\ UNCHANGED <<config, ctx, port43, found, answered, feeds, relations, status>>

(* aggregateReportStatus.                                                  *)
Aggregate ==
    LET given == {entry.status : entry \in sources}
    IN  IF Cardinality(given) = 1 THEN CHOOSE s \in given : TRUE ELSE "partial"

Finish ==
    /\ pc = "finish"
    /\ IF ctx = "live" THEN status' = Aggregate /\ Returns("none")
       ELSE UNCHANGED status /\ Returns(ctx)
    /\ UNCHANGED <<config, ctx, port43, found, answered, feeds, sources, relations>>

Returned == pc = "returned" /\ UNCHANGED vars

(* What the code does itself or a request does in the end.                 *)
Step ==
    \/ RDAPFails \/ RDAPAnswers \/ Fallback
    \/ BootstrapFails \/ BootstrapResolves \/ WHOISDialled \/ WHOISFails \/ WHOISAnswers \/ RecordRIR
    \/ FetchGeofeed \/ GeofeedsDone
    \/ ASNSupplied \/ ASNMalformed \/ ASNResolved \/ NoASNResolved \/ NoASN
    \/ RelationshipsRefused \/ RelationshipsBegin
    \/ FetchRelationship("ripestat", "peeringdb") \/ FetchRelationship("peeringdb", "related")
    \/ RelationshipsMisconfigured \/ RelationshipsEnd \/ Finish

Next == TimerFires \/ CallerCancels \/ Step \/ Returned

(* A request may hang until the context ends, but then it returns, and the *)
(* timer of the context fires; nothing says that the caller cancels.       *)
Fairness == WF_vars(TimerFires) /\ WF_vars(ctx # "live" /\ Step)

Spec == Init /\ [][Next]_vars /\ Fairness

-----------------------------------------------------------------------------
StatusesOf(name) == {entry.status : entry \in {e \in sources : e.source = name}}

(* "A report deliberately keeps source-level failures instead of turning   *)
(* them into an empty successful result": its status is available only     *)
(* when it holds all the evidence, whichever source filled which gap, and  *)
(* both relationship sources have answered in full.                        *)
SuccessIsComplete ==
    pc = "returned" /\ err = "none" /\ status = "available" =>
        /\ \A e \in Evidence : found[e] # "none"
        /\ StatusesOf("asn_relationships") = {"available"}
        /\ relations = {"available"}

(* RDAP evidence is never replaced by WHOIS evidence, and the report holds *)
(* everything either of them gave.                                         *)
EvidencePrecedence ==
    pc \notin {"rdap", "fallback", "bootstrap", "dial", "whois"} =>
        \A e \in Evidence :
            found[e] = IF e \in answered["rdap"] THEN "rdap"
                       ELSE IF e \in answered["whois"] THEN "whois" ELSE "none"

(* A report returned without an error accounts for every source that was   *)
(* asked, once each: RDAP, RIR and relationships always, WHOIS whenever    *)
(* the fallback was enabled and RDAP had left a gap, and the bootstrap     *)
(* whenever no other WHOIS server was known.                               *)
EverySourceAccounted ==
    pc = "returned" /\ err = "none" =>
        /\ \A e, f \in sources : e.source = f.source /\ e # f => e.source = "geofeed"
        /\ \A name \in {"rdap", "rir", "asn_relationships"} : StatusesOf(name) # {}
        /\ StatusesOf("whois") # {} <=> config.whois /\ answered["rdap"] # Evidence
        /\ StatusesOf("whois_bootstrap") # {} <=>
              StatusesOf("whois") # {} /\ ~config.server /\ ~port43

(* QueryIPBGPReport returns although every provider may hang: cfg.Timeout  *)
(* bounds all the requests together.                                       *)
ReportReturns == <>(pc = "returned")

(* "Provider failures produce a partial report; invalid input and caller   *)
(* cancellation are returned as errors" (comment above QueryIPBGPReport).  *)
ErrorsAreTheCallers ==
    pc = "returned" => err \in {"none", "canceled", "asn"}
=============================================================================
