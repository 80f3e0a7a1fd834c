--------------------------- MODULE RouteEvidence ---------------------------
(***************************************************************************)
(* How the replies of the attempts of one target become a verdict:         *)
(* TraceContext of bk/trace_common.go groups them into hops, mergeHops of  *)
(* bk/utils.go merges the attempts, bk/route_classification.go classifies  *)
(* each of them and the merged path, and runRouteTarget combines that.     *)
(*                                                                         *)
(* Attempts run concurrently but share nothing here, so they are taken one *)
(* after the other, in the order in which they end.  What AS a node        *)
(* belongs to does not matter to a trace: it is looked up when the paths   *)
(* are judged, address by address, and a refresh of the prefix registry    *)
(* may put another map into use between two of these lookups.              *)
(***************************************************************************)
EXTENDS Integers, Sequences, FiniteSets, FiniteSetsExt

CONSTANTS
    Nodes, Target,   \* addresses that reply; the traced one
    Distances,       \* Reply.Hops
    Replies,         \* the replies a trace may get
    MaxReplies,      \* bound: replies of one attempt
    Attempts,        \* config.Attempts
    Readings         \* carriers of the target, with the AS of each node by the
                     \* map in use at first and by the one that may replace it

Reply == [hops : Distances, ip : Nodes]

ASSUME ReplyAssumption ==
    /\ Target \in Nodes /\ Replies \subseteq Reply
    /\ Distances \subseteq Nat \ {0} /\ IsFiniteSet(Distances)
ASSUME BoundAssumption == MaxReplies \in Nat \ {0} /\ Attempts \in Nat \ {0}
ASSUME ReadingAssumption ==
    \A r \in Readings : r.carrier \in {"CT", "CU", "CM"}
                        /\ DOMAIN r.asn = Nodes /\ DOMAIN r.later = Nodes

VARIABLES
    hops,      \* the hops of the trace under way: per distance, its nodes
    ended,     \* attempts that have ended
    paths,     \* allHops: the hops of the successful attempts
    taken,     \* history: per successful attempt, the replies it got
    report     \* the classification, with what it was made from

vars == <<hops, ended, paths, taken, report>>

Node == [ip : Nodes, rtts : 1 .. MaxReplies]
NoHops == [d \in Distances |-> <<>>]

-----------------------------------------------------------------------------
(* Hop.Add: node.RTT grows, or the node is new.                            *)
AddNode(nodes, ip) ==
    IF \E i \in 1 .. Len(nodes) : nodes[i].ip = ip
    THEN [i \in 1 .. Len(nodes) |->
             IF nodes[i].ip = ip THEN [nodes[i] EXCEPT !.rtts = @ + 1] ELSE nodes[i]]
    ELSE Append(nodes, [ip |-> ip, rtts |-> 1])

(* How many round-trip times there are: the sums of counts, and the last.  *)
SumTo(counts) ==
    LET sum[k \in 0 .. Len(counts)] == IF k = 0 THEN 0 ELSE sum[k - 1] + counts[k]
    IN  sum

Total(counts) == SumTo(counts)[Len(counts)]

RTTs(nodes) == Total([i \in 1 .. Len(nodes) |-> nodes[i].rtts])

(* sort.Slice by Distance.                                                 *)
SortedDown(found) ==
    LET ds == {d \in Distances : found[d] # <<>>}
        Nth(i) == CHOOSE d \in ds : Cardinality({e \in ds : e >= d}) = i
    IN  [i \in 1 .. Cardinality(ds) |-> [distance |-> Nth(i), nodes |-> found[Nth(i)]]]

Touched(found) == {d \in Distances : found[d] # <<>>}

Rank(ds, d) == Cardinality({e \in ds : e <= d})

Nth(ds, i) == CHOOSE d \in ds : Rank(ds, d) = i

Sorted(found) ==
    LET ds == Touched(found)
    IN  [i \in 1 .. Cardinality(ds) |-> [distance |-> Nth(ds, i), nodes |-> found[Nth(ds, i)]]]

(* The hops at the end at which nothing but the target replied become one, *)
(* unless there is no other hop.                                           *)
TargetOnly(hop) == Len(hop.nodes) = 1 /\ hop.nodes[1].ip = Target

Absorbed(path, first) ==
    Total([i \in 1 .. Len(path) - first + 1 |-> path[first + i - 1].nodes[1].rtts])

Joined(path, first) ==
    [path[first] EXCEPT !.nodes[1].rtts = Absorbed(path, first)]

Others(path) == {i \in 1 .. Len(path) : ~TargetOnly(path[i])}

CollapseDropsRest(path) ==
    IF Others(path) = {} THEN path ELSE SubSeq(path, 1, Min({Max(Others(path)) + 1, Len(path)}))

Collapse(path) ==
    LET first == Max(Others(path)) + 1
    IN  IF Others(path) = {} \/ first > Len(path) THEN path
        ELSE Append(SubSeq(path, 1, first - 1), Joined(path, first))

(* mergeHops.  Two hops are the same when their first nodes are; for the   *)
(* majority the code walks a map, so a tie may go either way.              *)
Key(hop) == hop.nodes[1].ip

Available(all, pos) == {i \in 1 .. Len(all) : Len(all[i]) >= pos}

Backing(all, pos, key) == {i \in Available(all, pos) : Key(all[i][pos]) = key}

FirstOf(all, pos, attempts) == all[Min(attempts)][pos]

FirstArrived(all, pos) == {FirstOf(all, pos, Available(all, pos))}

HopsAt(all, pos) ==
    LET keys == {Key(all[i][pos]) : i \in Available(all, pos)}
        Votes(key) == Cardinality(Backing(all, pos, key))
        most == {k \in keys : \A other \in keys : Votes(other) <= Votes(k)}
    IN  IF (\E k \in keys : Votes(k) > 1) \/ Cardinality(keys) = 2
        THEN {FirstOf(all, pos, Backing(all, pos, k)) : k \in most}
        ELSE FirstArrived(all, pos)

Longest(all) == Max({Len(all[i]) : i \in 1 .. Len(all)})

Merges(all) ==
    LET hop == UNION {HopsAt(all, pos) : pos \in 1 .. Longest(all)}
    IN  {m \in [1 .. Longest(all) -> hop] : \A pos \in 1 .. Longest(all) : m[pos] \in HopsAt(all, pos)}

-----------------------------------------------------------------------------
(* The lookups of routeEvidenceFromHops: node j of hop i of path n, of the *)
(* attempts first and of the merged path last.  The map is replaced once   *)
(* per process, before the first of them, between two, or after the last.  *)
Lookups(judged) ==
    UNION {UNION {{<<n, i, j>> : j \in 1 .. Len(judged[n][i].nodes)} : i \in 1 .. Len(judged[n])} :
               n \in 1 .. Len(judged)}

Precedes(p, q) ==
    \/ p[1] < q[1]
    \/ p[1] = q[1] /\ (p[2] < q[2] \/ (p[2] = q[2] /\ p[3] < q[3]))

AfterLast(judged) == <<Len(judged) + 1, 1, 1>>

Swaps(judged, reading) ==
    {AfterLast(judged)} \cup (IF reading.later = reading.asn THEN {} ELSE Lookups(judged))

LookUp(reading, swap, at, ip) ==
    IF Precedes(at, swap) THEN reading.asn[ip] ELSE reading.later[ip]

Evidence(judged, n, reading, swap) ==
    [i \in 1 .. Len(judged[n]) |->
        {LookUp(reading, swap, <<n, i, j>>, judged[n][i].nodes[j].ip) :
             j \in 1 .. Len(judged[n][i].nodes)}]

(* routeASNPosition, as the set of positions.                              *)
Positions(evidence, as) == {i \in 1 .. Len(evidence) : as \in evidence[i]}

Before(P, Q) == P # {} /\ Q # {} /\ Min(P) < Min(Q)

ClassifyTelecom(evidence) ==
    LET cn2 == Positions(evidence, "AS4809")
        ct163 == Positions(evidence, "AS4134")
        ctg == Positions(evidence, "AS23764")
    IN  CASE Cardinality(cn2) = 1 -> "ct_cn2_mixed"
          [] Cardinality(cn2) > 1 /\ (ct163 = {} \/ (Before(cn2, ct163) /\ Cardinality(ct163) = 1)) -> "ct_cn2_gia"
          [] Cardinality(cn2) > 1 /\ Before(cn2, ct163) /\ Cardinality(ct163) > 1 -> "ct_cn2_mixed"
          [] Cardinality(cn2) > 1 /\ ct163 # {} /\ ~Before(cn2, ct163) -> "ct_cn2_gt"
          [] cn2 = {} /\ ctg # {} -> "ct_ctgnet"
          [] cn2 = {} /\ ctg = {} /\ Cardinality(ct163) = 1 -> "ct_destination_only"
          [] cn2 = {} /\ ctg = {} /\ Cardinality(ct163) > 1 -> "ct_163"
          [] OTHER -> "ct_unknown"

ClassifyUnicom(evidence) ==
    LET cu9929 == Positions(evidence, "AS9929")
        cug == Positions(evidence, "AS10099")
        cu4837 == Positions(evidence, "AS4837")
    IN  CASE cu9929 # {} /\ Before(cu4837, cu9929) -> "cu_9929_mixed"
          [] cu9929 # {} /\ ~Before(cu4837, cu9929) -> "cu_9929"
          [] cu9929 = {} /\ cug # {} -> "cu_cug"
          [] cu9929 = {} /\ cug = {} /\ Cardinality(cu4837) = 1 -> "cu_destination_only"
          [] cu9929 = {} /\ cug = {} /\ Cardinality(cu4837) > 1 -> "cu_4837"
          [] OTHER -> "cu_unknown"

ClassifyMobile(evidence) ==
    LET cmin2 == Positions(evidence, "AS58807")
        cmi == Positions(evidence, "AS58453")
        cmnet == Positions(evidence, "AS9808")
    IN  CASE cmin2 # {} /\ Before(cmi, cmin2) -> "cm_cmin2_mixed"
          [] cmin2 # {} /\ ~Before(cmi, cmin2) -> "cm_cmin2"
          [] cmin2 = {} /\ cmi # {} -> "cm_cmi"
          [] cmin2 = {} /\ cmi = {} /\ cmnet # {} -> "cm_cmnet"
          [] OTHER -> "cm_unknown"

(* ClassifyReturnRoute.                                                    *)
Classify(carrier, evidence) ==
    CASE carrier = "CT" -> ClassifyTelecom(evidence)
      [] carrier = "CU" -> ClassifyUnicom(evidence)
      [] carrier = "CM" -> ClassifyMobile(evidence)

Inconclusive == {"ct_destination_only", "ct_unknown", "cu_destination_only", "cu_unknown",
                 "cm_unknown"}

Premium == {"ct_cn2_gia", "ct_ctgnet", "cu_9929", "cu_cug", "cm_cmin2"}

Dynamic(carrier) ==
    CASE carrier = "CT" -> "ct_dynamic_mixed"
      [] carrier = "CU" -> "cu_dynamic_mixed"
      [] carrier = "CM" -> "cm_dynamic_mixed"

(* combineRouteClassifications: the rank decides nothing, as all codes are *)
(* the same when it is read.                                               *)
CombineByMerged(carrier, codes) == codes[Len(codes)]

Known(codes) == {codes[i] : i \in 1 .. Len(codes)} \ Inconclusive

Combine(carrier, codes) ==
    CASE Known(codes) = {} -> codes[1]
      [] Cardinality(Known(codes)) = 1 -> CHOOSE code \in Known(codes) : TRUE
      [] OTHER -> Dynamic(carrier)

(* The classifications of runRouteTarget: of each attempt, and at the end  *)
(* of the merged path.                                                     *)
Codes(judged, reading, swap) ==
    [n \in 1 .. Len(judged) |->
        Classify(reading.carrier, Evidence(judged, n, reading, swap))]

(* The report with its verdict, and, as history, how it was come to.       *)
Verdict(merged, reading, swap) ==
    LET judged == Append(paths, merged)
        codes == Codes(judged, reading, swap)
    IN  [status |-> "available", code |-> Combine(reading.carrier, codes),
         merged |-> merged, reading |-> reading, codes |-> codes,
         twoMaps |-> swap \notin {<<1, 1, 1>>, AfterLast(judged)}]

NoReport == [status |-> "pending"]
Unavailable == [status |-> "unavailable"]

-----------------------------------------------------------------------------
Init == hops = NoHops /\ ended = 0 /\ paths = <<>> /\ taken = <<0>> /\ report = NoReport

Tracing == ended < Attempts

(* touch(r.Hops).Add(r).                                                   *)
TakeReply ==
    /\ Tracing /\ taken[Len(taken)] < MaxReplies
    /\ \E r \in Replies : hops' = [hops EXCEPT ![r.hops] = AddNode(@, r.ip)]
    /\ taken' = [taken EXCEPT ![Len(taken)] = @ + 1]
    /\ UNCHANGED <<ended, paths, report>>

TraceEnds ==
    /\ Tracing /\ hops # NoHops
    /\ paths' = Append(paths, Collapse(Sorted(hops)))
    /\ taken' = Append(taken, 0)
    /\ hops' = NoHops /\ ended' = ended + 1
    /\ UNCHANGED report

(* Trace returned an error, or nobody replied.                             *)
TraceFails ==
    /\ Tracing
    /\ taken' = [taken EXCEPT ![Len(taken)] = 0]
    /\ hops' = NoHops /\ ended' = ended + 1
    /\ UNCHANGED <<paths, report>>

NothingToJudge ==
    /\ ~Tracing /\ report = NoReport /\ paths = <<>>
    /\ report' = Unavailable
    /\ UNCHANGED <<hops, ended, paths, taken>>

Judge ==
    /\ ~Tracing /\ report = NoReport /\ paths # <<>>
    /\ \E reading \in Readings, merged \in Merges(paths) :
          \E swap \in Swaps(Append(paths, merged), reading) :
             report' = Verdict(merged, reading, swap)
    /\ UNCHANGED <<hops, ended, paths, taken>>

Reported == report # NoReport /\ UNCHANGED vars

Next == TakeReply \/ TraceEnds \/ TraceFails \/ NothingToJudge \/ Judge \/ Reported

Spec == Init /\ [][Next]_vars

-----------------------------------------------------------------------------
CodesOf(carrier) ==
    CASE carrier = "CT" -> {"ct_cn2_mixed", "ct_cn2_gia", "ct_cn2_gt", "ct_ctgnet", "ct_163",
                            "ct_destination_only", "ct_unknown", "ct_dynamic_mixed"}
      [] carrier = "CU" -> {"cu_9929_mixed", "cu_9929", "cu_cug", "cu_4837",
                            "cu_destination_only", "cu_unknown", "cu_dynamic_mixed"}
      [] carrier = "CM" -> {"cm_cmin2_mixed", "cm_cmin2", "cm_cmi", "cm_cmnet",
                            "cm_unknown", "cm_dynamic_mixed"}

Judged == report.status = "available"

(* Every variable keeps its type; a report carries a code of the carrier   *)
(* of its target, also when combineRouteClassifications builds it.         *)
TypeOK ==
    /\ DOMAIN hops = Distances
    /\ \A d \in Distances : \A i \in 1 .. Len(hops[d]) : hops[d][i] \in Node
    /\ ended \in 0 .. Attempts
    /\ Len(paths) <= ended /\ Len(taken) = Len(paths) + 1
    /\ \A i \in 1 .. Len(taken) : taken[i] \in 0 .. MaxReplies
    /\ \/ report \in {NoReport, Unavailable}
       \/ Judged /\ report.code \in CodesOf(report.reading.carrier)

(* What TraceContext returns is a path: its hops are in the order of their *)
(* distance, no hop lists an address twice, and the hops at which only the *)
(* target replied are one hop at the end, unless there is no other hop.    *)
PathsOrdered ==
    \A n \in 1 .. Len(paths) :
        LET path == paths[n]
            farther == {i \in 1 .. Len(path) - 1 : TargetOnly(path[i]) /\ TargetOnly(path[i + 1])}
        IN  /\ \A i, j \in 1 .. Len(path) : i < j => path[i].distance < path[j].distance
            /\ \A i \in 1 .. Len(path) : \A j, k \in 1 .. Len(path[i].nodes) :
                  path[i].nodes[j].ip = path[i].nodes[k].ip => j = k
            /\ (\E i \in 1 .. Len(path) : ~TargetOnly(path[i])) =>
                  \A i \in farther : \E j \in i + 2 .. Len(path) : ~TargetOnly(path[j])

(* Grouping and collapsing lose no measurement: the round-trip times of a  *)
(* path are as many as the replies its trace was given, which is what the  *)
(* latency of the report is calculated from.                               *)
SamplesKept ==
    \A n \in 1 .. Len(paths) :
        taken[n] = Total([i \in 1 .. Len(paths[n]) |-> RTTs(paths[n][i].nodes)])

(* When more than half of the successful attempts went over the same       *)
(* routers, mergeHops shows this path, whatever the others say and however *)
(* they came in, for as long as it lasts.                                  *)
Routers(path) == [i \in 1 .. Len(path) |-> Key(path[i])]

MajorityPathStands ==
    Judged =>
        \A n \in 1 .. Len(paths) :
            2 * Cardinality({i \in 1 .. Len(paths) : Routers(paths[i]) = Routers(paths[n])}) > Len(paths)
            => \A pos \in 1 .. Len(paths[n]) : Key(report.merged[pos]) = Key(paths[n][pos])

(* A premium line is reported only if no attempt saw another one and some  *)
(* attempt saw it.  Only when the map was replaced between the lookups may *)
(* the merged path claim it alone (combineRouteClassifications takes it    *)
(* for one more attempt), and then too it is no line of nobody: an attempt *)
(* went through a router that one of the two maps assigns to its AS.       *)
LineOf ==
    [ct_cn2_gia |-> "AS4809", ct_ctgnet |-> "AS23764", cu_9929 |-> "AS9929",
     cu_cug |-> "AS10099", cm_cmin2 |-> "AS58807"]

AttemptsSaw == {report.codes[n] : n \in 1 .. Len(paths)}

PremiumUndisputed ==
    Judged /\ report.code \in Premium =>
        /\ AttemptsSaw \subseteq Inconclusive \cup {report.code}
        /\ report.code \in AttemptsSaw \/ report.twoMaps
        /\ \E n \in 1 .. Len(paths) : \E i \in 1 .. Len(paths[n]) :
              \E node \in {paths[n][i].nodes[j] : j \in 1 .. Len(paths[n][i].nodes)} :
                 LineOf[report.code] \in {report.reading.asn[node.ip], report.reading.later[node.ip]}

(* A line is called dynamic because, as the evidence text of the report    *)
(* says, successful attempts observed conflicting classes.  False, even    *)
(* with one map for all lookups: the merged path is counted as one more    *)
(* attempt.                                                                *)
ConflictWasObserved ==
    Judged /\ ~report.twoMaps /\ report.code = Dynamic(report.reading.carrier) =>
        Cardinality(AttemptsSaw \ Inconclusive) > 1
=============================================================================
