------------------------ MODULE RouteReport_proofs ------------------------
(***************************************************************************)
(* Proofs about RouteReport, for every value of its constants: every set   *)
(* of targets and number of attempts, and every list of alternatives.      *)
(***************************************************************************)
EXTENDS RouteReport, TLAPS, FiniteSetTheorems

Locations == {"primary", "alternatives", "choose", "alternative", "send", "done"}
Outcomes == {"none", "hops", "fallback", "fail"}

(* The attempts that found hops, of those in ids with the outcomes o.      *)
FoundHops(ids, o) == {a \in ids : o[a] \in {"hops", "fallback"}}

(* What ReportJustified asks of a report r with a verdict.  A verdict on   *)
(* the attempts is given when all of them have ended: so it stays true.    *)
Justified(ids, o, c, r) ==
    /\ r.status \in {"available", "unavailable", "timeout", "canceled"}
    /\ r.status = "available" =>
          /\ r.successful = Cardinality(FoundHops(ids, o)) /\ r.successful > 0
          /\ r.fallback <=> \E a \in FoundHops(ids, o) : o[a] = "fallback"
          /\ FoundHops(ids, o) # {}
    /\ r.status = "unavailable" => FoundHops(ids, o) = {}
    /\ r.status \in {"available", "unavailable"} => \A a \in ids : o[a] # "none"
    /\ r.status \in {"timeout", "canceled"} => r.status = c

(* An attempt has an outcome exactly when it has nothing left but to send. *)
EndedInv ==
    \A t \in Targets, a \in AttemptIds :
        outcome[t][a] = "none" <=> apc[t][a] \notin {"send", "done"}

(* What is in the channel of a target, or was, has been sent.              *)
ChannelInv == \A t \in Targets : \A a \in attempts[t] \cup taken[t] : apc[t][a] = "done"

(* A late trace is the last one: its attempt is not back in the loop.      *)
LateInv ==
    \A t \in Targets, a \in AttemptIds :
        \/ lateTraces[t][a] = 0
        \/ /\ lateTraces[t][a] = 1 /\ ctx # "live"
           /\ apc[t][a] \in {"alternative", "send", "done"}

(* A target goroutine sends a justified report, after which it is done.    *)
TargetInv ==
    \A t \in Targets :
        /\ tpc[t] # "collect" => Justified(AttemptIds, outcome[t], ctx, local[t])
        /\ t \in results => tpc[t] = "done"

(* The collector has justified reports, and takes each result at most once *)
(* while it still waits for one: it never replaces a report it has.        *)
CollectorInv ==
    \A t \in Targets :
        /\ Received(t) => Justified(AttemptIds, outcome[t], ctx, reports[t])
        /\ Received(t) => AllReceived \/ (tpc[t] = "done" /\ t \notin results)

(* The inductive invariant of the runner.                                  *)
IInv == TypeOK /\ EndedInv /\ ChannelInv /\ LateInv /\ TargetInv /\ CollectorInv

-----------------------------------------------------------------------------
(* The attempts of a report are finitely many, and so are its targets.     *)
LEMMA FiniteConfig ==
    ASSUME config \in Configs
    PROVE  IsFiniteSet(Targets) /\ IsFiniteSet(AttemptIds)
BY ConfigsAssumption DEF Targets, AttemptIds

LEMMA FoundFinite ==
    ASSUME NEW ids, IsFiniteSet(ids), NEW o
    PROVE  /\ Cardinality(FoundHops(ids, o)) \in 0 .. Cardinality(ids)
           /\ FoundHops(ids, o) # {} => Cardinality(FoundHops(ids, o)) > 0
<1>1. FoundHops(ids, o) \subseteq ids
  BY DEF FoundHops
<1>2. /\ IsFiniteSet(FoundHops(ids, o))
      /\ Cardinality(FoundHops(ids, o)) <= Cardinality(ids)
  BY <1>1, FS_Subset
<1>3. Cardinality(FoundHops(ids, o)) \in Nat /\ Cardinality(ids) \in Nat
  BY <1>2, FS_CardinalityType
<1> QED
  BY <1>2, <1>3, FS_EmptySet

(* A justified report stays justified: outcomes and the reason the context *)
(* ended are final.                                                        *)
LEMMA JustifiedStays ==
    ASSUME NEW ids, NEW o, NEW p, NEW c, NEW d, NEW r,
           Justified(ids, o, c, r),
           \A a \in ids : o[a] # "none" => p[a] = o[a],
           d = c \/ c = "live"
    PROVE  Justified(ids, p, d, r)
<1>1. CASE r.status \in {"available", "unavailable"}
  <2>1. \A a \in ids : o[a] # "none" /\ p[a] = o[a]
    BY <1>1 DEF Justified
  <2>2. FoundHops(ids, p) = FoundHops(ids, o)
    BY <2>1 DEF FoundHops
  <2>3. (\E a \in FoundHops(ids, p) : p[a] = "fallback")
            <=> \E a \in FoundHops(ids, o) : o[a] = "fallback"
    BY <2>1, <2>2 DEF FoundHops
  <2> QED
    BY <1>1, <2>1, <2>2, <2>3 DEF Justified
<1>2. CASE r.status \in {"timeout", "canceled"}
  BY <1>2 DEF Justified
<1> QED
  BY <1>1, <1>2 DEF Justified

(* What runRouteTarget concludes from all attempts is justified.           *)
LEMMA JudgedJustified ==
    ASSUME TypeOK, EndedInv, ChannelInv, NEW t \in Targets, taken[t] = AttemptIds
    PROVE  Judged(t) \in Report /\ Justified(AttemptIds, outcome[t], ctx, Judged(t))
<1>1. Successful(t) = FoundHops(AttemptIds, outcome[t])
  BY DEF Successful, FoundHops
<1>2. \A a \in AttemptIds : outcome[t][a] # "none"
  BY DEF EndedInv, ChannelInv
<1>3. /\ Cardinality(Successful(t)) \in 0 .. Cardinality(AttemptIds)
      /\ Successful(t) # {} => Cardinality(Successful(t)) > 0
  BY <1>1, FiniteConfig, FoundFinite DEF TypeOK
<1>4. CASE Successful(t) = {}
  <2>1. Judged(t) = [status |-> "unavailable", successful |-> 0, fallback |-> FALSE]
    BY <1>4 DEF Judged, NoReport
  <2>2. Cardinality(AttemptIds) \in Nat
    BY FiniteConfig, FS_CardinalityType DEF TypeOK
  <2> QED
    BY <1>1, <1>2, <1>4, <2>1, <2>2 DEF Justified, Report, Statuses
<1>5. CASE Successful(t) # {}
  <2> DEFINE fb == \E a \in Successful(t) : outcome[t][a] = "fallback"
  <2>1. fb \in BOOLEAN
    OBVIOUS
  <2>2. Judged(t) = [status |-> "available", successful |-> Cardinality(Successful(t)),
                     fallback |-> fb]
    BY <1>5 DEF Judged
  <2>3. fb <=> \E a \in FoundHops(AttemptIds, outcome[t]) : outcome[t][a] = "fallback"
    BY <1>1
  <2> HIDE DEF fb
  <2>4. Judged(t) \in Report
    BY <1>3, <2>1, <2>2 DEF Report, Statuses
  <2> QED
    BY <1>1, <1>2, <1>3, <1>5, <2>2, <2>3, <2>4 DEF Justified
<1> QED
  BY <1>4, <1>5

(* canceledRouteTarget after the end of the context.                       *)
LEMMA CanceledJustified ==
    ASSUME TypeOK, ctx # "live", NEW t \in Targets
    PROVE  Canceled \in Report /\ Justified(AttemptIds, outcome[t], ctx, Canceled)
<1>1. Cardinality(AttemptIds) \in Nat
  BY FiniteConfig, FS_CardinalityType DEF TypeOK
<1>2. ctx \in {"timeout", "canceled"}
  BY DEF TypeOK
<1> QED
  BY <1>1, <1>2 DEF Canceled, Report, Statuses, Justified

(* A report with a verdict is not the zero value it is received into.      *)
LEMMA JustifiedIsReport ==
    ASSUME NEW ids, NEW o, NEW c, NEW r, Justified(ids, o, c, r)
    PROVE  r # NoReport /\ r.status # "pending"
BY DEF Justified, NoReport

LEMMA InitInv == Init => IInv
<1> SUFFICES ASSUME Init PROVE IInv
  OBVIOUS
<1>1. Cardinality(AttemptIds) \in Nat
  BY FiniteConfig, FS_CardinalityType DEF Init
<1>2. NoReport \in Report
  BY <1>1 DEF NoReport, Report, Statuses
<1>3. TypeOK
  <2>1. <<>> \in Seq({"ip", "skip"})
    OBVIOUS
  <2> QED
    BY <1>2, <2>1 DEF Init, TypeOK
<1>4. EndedInv /\ ChannelInv /\ LateInv
  BY DEF Init, EndedInv, ChannelInv, LateInv
<1>5. TargetInv /\ CollectorInv
  BY DEF Init, TargetInv, CollectorInv, Received
<1> QED
  BY <1>3, <1>4, <1>5 DEF IInv

-----------------------------------------------------------------------------
(* What a step of an attempt before its end has in common: it moves on, to *)
(* its outcome or to a location before it; no other goroutine is touched.  *)
AttemptMoves(t, a, p, o, l) ==
    /\ apc[t][a] \notin {"send", "done"}
    /\ p \in Locations \ {"done"} /\ o \in Outcomes /\ (o = "none" <=> p # "send")
    /\ \/ l = lateTraces[t][a] /\ (p = "alternative" => apc[t][a] = "alternative")
          /\ (apc[t][a] = "alternative" => p = "send" \/ ctx = "live")
       \/ ctx # "live" /\ apc[t][a] = "choose" /\ p = "alternative"
          /\ l = lateTraces[t][a] + 1
       \/ ctx = "live" /\ l = lateTraces[t][a]
    /\ apc' = [apc EXCEPT ![t][a] = p]
    /\ outcome' = [outcome EXCEPT ![t][a] = o]
    /\ lateTraces' = [lateTraces EXCEPT ![t][a] = l]
    /\ alts' \in [Targets -> [AttemptIds -> Seq({"ip", "skip"})]]
    /\ UNCHANGED <<ctx, refreshDone, attempts, targetVars, results, reportVars>>

(* Leaving a component as it is, as an update of it.                       *)
LEMMA SameComponent ==
    ASSUME NEW S, NEW T, NEW R, NEW f \in [S -> [T -> R]], NEW s \in S, NEW x \in T
    PROVE  f = [f EXCEPT ![s][x] = f[s][x]]
OBVIOUS

(* Every step of an attempt but its last is of that kind.                  *)
LEMMA AttemptMovesOn ==
    ASSUME IInv, NEW t \in Targets, NEW a \in AttemptIds,
           TraceReturns(t, a) \/ AttemptSteps(t, a), ~SendAttempt(t, a)
    PROVE  \E p \in Locations, o \in Outcomes, l \in Nat : AttemptMoves(t, a, p, o, l)
<1> DEFINE l0 == lateTraces[t][a]
<1>1. /\ outcome = [outcome EXCEPT ![t][a] = outcome[t][a]]
      /\ lateTraces = [lateTraces EXCEPT ![t][a] = l0]
      /\ apc = [apc EXCEPT ![t][a] = apc[t][a]]
      /\ l0 \in Nat /\ l0 + 1 \in Nat
      /\ alts[t][a] \in Seq({"ip", "skip"})
  <2>1. /\ outcome \in [Targets -> [AttemptIds -> Outcomes]]
        /\ lateTraces \in [Targets -> [AttemptIds -> Nat]]
        /\ apc \in [Targets -> [AttemptIds -> Locations]]
        /\ alts \in [Targets -> [AttemptIds -> Seq({"ip", "skip"})]]
    BY DEF IInv, TypeOK, Outcomes, Locations
  <2> QED
    BY <2>1, SameComponent
<1>2. apc[t][a] \notin {"send", "done"} => outcome[t][a] = "none"
  BY DEF IInv, EndedInv
<1>3. alts \in [Targets -> [AttemptIds -> Seq({"ip", "skip"})]]
  BY DEF IInv, TypeOK
<1>4. ASSUME NEW o \in {"hops", "fallback", "fail"}, EndAttempt(t, a, o),
             apc[t][a] \notin {"send", "done"},
             UNCHANGED <<ctx, refreshDone, alts, lateTraces, attempts, targetVars, results,
                         reportVars>>
      PROVE  AttemptMoves(t, a, "send", o, l0)
  BY <1>1, <1>3, <1>4 DEF EndAttempt, AttemptMoves, Locations, Outcomes
<1>5. ASSUME NEW p \in {"alternatives", "choose"}, apc' = [apc EXCEPT ![t][a] = p],
             apc[t][a] \notin {"send", "done"}, apc[t][a] = "alternative" => ctx = "live",
             alts' \in [Targets -> [AttemptIds -> Seq({"ip", "skip"})]],
             UNCHANGED <<ctx, refreshDone, outcome, lateTraces, attempts, targetVars, results,
                         reportVars>>
      PROVE  AttemptMoves(t, a, p, "none", l0)
  BY <1>1, <1>2, <1>5 DEF AttemptMoves, Locations, Outcomes
<1> HIDE DEF l0
<1>6. CASE \/ InvalidAddress(t, a) \/ PrimaryFindsHops(t, a) \/ TracePanics(t, a)
           \/ NoMoreCandidates(t, a) \/ CandidateFindsHops(t, a)
  <2>1. /\ \E o \in {"hops", "fallback", "fail"} : EndAttempt(t, a, o)
        /\ apc[t][a] \notin {"send", "done"}
        /\ UNCHANGED <<ctx, refreshDone, alts, lateTraces, attempts, targetVars, results,
                       reportVars>>
    BY <1>6 DEF InvalidAddress, PrimaryFindsHops, TracePanics, NoMoreCandidates, CandidateFindsHops
  <2> QED
    BY <1>1, <1>4, <2>1 DEF Locations, Outcomes
<1>7. CASE PrimaryFails(t, a)
  BY <1>1, <1>3, <1>5, <1>7 DEF PrimaryFails, Locations, Outcomes
<1>8. CASE Alternatives(t, a)
  <2>1. \A list \in AltLists : list \in Seq({"ip", "skip"})
    BY AltsAssumption
  <2>2. <<>> \in Seq({"ip", "skip"})
    OBVIOUS
  <2>3. alts' \in [Targets -> [AttemptIds -> Seq({"ip", "skip"})]]
    <3>1. PICK list \in Seq({"ip", "skip"}) : alts' = [alts EXCEPT ![t][a] = list]
      BY <1>8, <2>1, <2>2 DEF Alternatives
    <3> QED
      BY <1>3, <3>1
  <2> QED
    BY <1>1, <1>5, <1>8, <2>3 DEF Alternatives, Locations, Outcomes
<1>9. CASE SkipCandidate(t, a)
  <2>1. Tail(alts[t][a]) \in Seq({"ip", "skip"})
    BY <1>1, <1>9 DEF SkipCandidate
  <2>2. alts' \in [Targets -> [AttemptIds -> Seq({"ip", "skip"})]]
    BY <1>3, <1>9, <2>1 DEF SkipCandidate
  <2>3. apc' = [apc EXCEPT ![t][a] = "choose"]
    BY <1>1, <1>9 DEF SkipCandidate
  <2> QED
    BY <1>1, <1>5, <1>9, <2>2, <2>3 DEF SkipCandidate, Locations, Outcomes
<1>10. CASE TraceCandidate(t, a)
  <2>1. Tail(alts[t][a]) \in Seq({"ip", "skip"})
    BY <1>1, <1>10 DEF TraceCandidate
  <2>2. alts' \in [Targets -> [AttemptIds -> Seq({"ip", "skip"})]]
    BY <1>3, <1>10, <2>1 DEF TraceCandidate
  <2>3. CASE ctx = "live"
    <3>1. AttemptMoves(t, a, "alternative", "none", l0)
      BY <1>1, <1>2, <1>10, <2>2, <2>3
      DEF TraceCandidate, AttemptMoves, Locations, Outcomes, l0
    <3> QED
      BY <1>1, <3>1 DEF Locations, Outcomes
  <2>4. CASE ctx # "live"
    <3>1. lateTraces' = [lateTraces EXCEPT ![t][a] = l0 + 1]
      BY <1>10, <2>4 DEF TraceCandidate, l0
    <3>2. AttemptMoves(t, a, "alternative", "none", l0 + 1)
      BY <1>1, <1>2, <1>10, <2>2, <2>4, <3>1
      DEF TraceCandidate, AttemptMoves, Locations, Outcomes, l0
    <3> QED
      BY <1>1, <3>2 DEF Locations, Outcomes
  <2> QED
    BY <2>3, <2>4
<1>11. CASE CandidateFails(t, a)
  BY <1>1, <1>3, <1>4, <1>5, <1>11 DEF CandidateFails, Locations, Outcomes
<1> QED
  BY <1>6, <1>7, <1>8, <1>9, <1>10, <1>11 DEF TraceReturns, AttemptSteps

(* An attempt moves on, and everything else that holds goes on to hold.    *)
LEMMA AttemptMovesKeeps ==
    ASSUME IInv, NEW t \in Targets, NEW a \in AttemptIds,
           NEW p \in Locations, NEW o \in Outcomes, NEW l \in Nat, AttemptMoves(t, a, p, o, l)
    PROVE  IInv'
<1>1. UNCHANGED <<ctx, refreshDone, attempts, taken, tpc, local, results, config, reports, rpc,
                  Targets, AttemptIds>>
  BY DEF AttemptMoves, targetVars, reportVars, Targets, AttemptIds
<1>2. TypeOK'
  BY <1>1 DEF IInv, TypeOK, AttemptMoves, Locations, Outcomes, Report
<1>3. outcome[t][a] = "none"
  BY DEF IInv, EndedInv, AttemptMoves
<1>4. \A s \in Targets, b \in AttemptIds :
          <<s, b>> # <<t, a>> => /\ apc'[s][b] = apc[s][b] /\ outcome'[s][b] = outcome[s][b]
                                /\ lateTraces'[s][b] = lateTraces[s][b]
  BY DEF IInv, TypeOK, AttemptMoves
<1>5. apc'[t][a] = p /\ outcome'[t][a] = o /\ lateTraces'[t][a] = l
  BY DEF IInv, TypeOK, AttemptMoves
<1>6. EndedInv'
  BY <1>1, <1>4, <1>5 DEF IInv, EndedInv, AttemptMoves, Locations
<1>7. ChannelInv'
  <2> SUFFICES ASSUME NEW s \in Targets, NEW b \in attempts[s] \cup taken[s]
               PROVE  apc'[s][b] = "done"
    BY <1>1 DEF ChannelInv
  <2>1. b \in AttemptIds /\ apc[s][b] = "done"
    BY DEF IInv, TypeOK, ChannelInv
  <2> QED
    BY <1>4, <2>1 DEF AttemptMoves
<1>8. LateInv'
  <2>1. \/ l = 0
        \/ l = 1 /\ ctx # "live" /\ p \in {"alternative", "send", "done"}
    BY DEF IInv, LateInv, AttemptMoves
  <2> QED
    BY <1>1, <1>4, <1>5, <2>1 DEF IInv, LateInv
<1>9. \A s \in Targets, b \in AttemptIds : outcome[s][b] # "none" => outcome'[s][b] = outcome[s][b]
  BY <1>3, <1>4
<1>10. \A s \in Targets, r \in Report :
           Justified(AttemptIds, outcome[s], ctx, r) => Justified(AttemptIds, outcome'[s], ctx, r)
  BY <1>9, JustifiedStays
<1>11. TargetInv' /\ CollectorInv'
  <2>1. \A s \in Targets : local[s] \in Report /\ reports[s] \in Report
    BY DEF IInv, TypeOK
  <2>2. TargetInv'
    BY <1>1, <1>10, <2>1 DEF IInv, TargetInv
  <2>3. CollectorInv'
    BY <1>1, <1>10, <2>1 DEF IInv, CollectorInv, AllReceived, Received
  <2> QED
    BY <2>2, <2>3
<1> QED
  BY <1>2, <1>6, <1>7, <1>8, <1>11 DEF IInv

(* Steps that leave the attempts' own state alone, but for a message.      *)
LEMMA SendAttemptKeeps ==
    ASSUME IInv, NEW t \in Targets, NEW a \in AttemptIds, SendAttempt(t, a)
    PROVE  IInv'
<1>1. UNCHANGED <<ctx, refreshDone, alts, outcome, lateTraces, taken, tpc, local, results, config,
                  reports, rpc, Targets, AttemptIds>>
  BY DEF SendAttempt, targetVars, reportVars, Targets, AttemptIds
<1>2. TypeOK'
  BY <1>1 DEF IInv, TypeOK, SendAttempt, Report
<1>3. \A s \in Targets, b \in AttemptIds :
          \/ apc'[s][b] = apc[s][b]
          \/ s = t /\ b = a /\ apc[s][b] = "send" /\ apc'[s][b] = "done"
  BY DEF IInv, TypeOK, SendAttempt
<1>4. EndedInv' /\ LateInv'
  BY <1>1, <1>3 DEF IInv, EndedInv, LateInv
<1>5. ChannelInv'
  <2> SUFFICES ASSUME NEW s \in Targets, NEW b \in attempts'[s] \cup taken[s]
               PROVE  apc'[s][b] = "done"
    BY <1>1 DEF ChannelInv
  <2>1. b \in attempts[s] \cup taken[s] \/ (s = t /\ b = a)
    BY DEF IInv, TypeOK, SendAttempt
  <2>2. CASE s = t /\ b = a
    BY <2>2 DEF IInv, TypeOK, SendAttempt
  <2>3. CASE b \in attempts[s] \cup taken[s]
    <3>1. b \in AttemptIds /\ apc[s][b] = "done"
      BY <2>3 DEF IInv, TypeOK, ChannelInv
    <3> QED
      BY <1>3, <3>1
  <2> QED
    BY <2>1, <2>2, <2>3
<1>6. TargetInv' /\ CollectorInv'
  BY <1>1 DEF IInv, TargetInv, CollectorInv, AllReceived, Received
<1> QED
  BY <1>2, <1>4, <1>5, <1>6 DEF IInv

-----------------------------------------------------------------------------
(* runRouteTarget takes an attempt out of its channel.                     *)
LEMMA ReceiveAttemptKeeps ==
    ASSUME IInv, NEW t \in Targets, ReceiveAttempt(t)
    PROVE  IInv'
<1>1. UNCHANGED <<ctx, refreshDone, apc, alts, outcome, lateTraces, tpc, local, results, config,
                  reports, rpc, Targets, AttemptIds>>
  BY DEF ReceiveAttempt, attemptVars, reportVars, Targets, AttemptIds
<1>2. PICK a \in attempts[t] : /\ attempts' = [attempts EXCEPT ![t] = @ \ {a}]
                              /\ taken' = [taken EXCEPT ![t] = @ \cup {a}]
  BY DEF ReceiveAttempt
<1>3. a \in AttemptIds
  BY DEF IInv, TypeOK
<1>4. TypeOK'
  BY <1>1, <1>2, <1>3 DEF IInv, TypeOK, Report
<1>5. \A s \in Targets : attempts'[s] \cup taken'[s] = attempts[s] \cup taken[s]
  BY <1>2 DEF IInv, TypeOK
<1>6. EndedInv' /\ ChannelInv' /\ LateInv'
  BY <1>1, <1>5 DEF IInv, EndedInv, ChannelInv, LateInv
<1>7. TargetInv' /\ CollectorInv'
  BY <1>1 DEF IInv, TargetInv, CollectorInv, AllReceived, Received
<1> QED
  BY <1>4, <1>6, <1>7 DEF IInv

(* runRouteTarget ends, with the judgement of all attempts or without it.  *)
LEMMA TargetEndsKeeps ==
    ASSUME IInv, NEW t \in Targets, AllAttemptsReceived(t) \/ TargetGivesUp(t)
    PROVE  IInv'
<1>1. UNCHANGED <<ctx, refreshDone, apc, alts, outcome, lateTraces, attempts, taken, results,
                  config, reports, rpc, Targets, AttemptIds>>
  BY DEF AllAttemptsReceived, TargetGivesUp, attemptVars, reportVars, Targets, AttemptIds
<1>2. PICK r : /\ local' = [local EXCEPT ![t] = r]
              /\ r \in Report /\ Justified(AttemptIds, outcome[t], ctx, r)
  <2>1. CASE AllAttemptsReceived(t)
    BY <2>1, JudgedJustified DEF AllAttemptsReceived, IInv
  <2>2. CASE TargetGivesUp(t)
    BY <2>2, CanceledJustified DEF TargetGivesUp, IInv
  <2> QED
    BY <2>1, <2>2
<1>3. tpc[t] = "collect" /\ tpc' = [tpc EXCEPT ![t] = "send"]
  BY DEF AllAttemptsReceived, TargetGivesUp
<1>4. TypeOK'
  BY <1>1, <1>2, <1>3 DEF IInv, TypeOK, Report
<1>5. EndedInv' /\ ChannelInv' /\ LateInv'
  BY <1>1 DEF IInv, EndedInv, ChannelInv, LateInv
<1>6. TargetInv'
  <2>1. \A s \in Targets : s # t => local'[s] = local[s] /\ tpc'[s] = tpc[s]
    BY <1>2, <1>3 DEF IInv, TypeOK
  <2>2. local'[t] = r /\ t \notin results
    BY <1>2, <1>3 DEF IInv, TypeOK, TargetInv
  <2> QED
    BY <1>1, <1>2, <2>1, <2>2 DEF IInv, TargetInv
<1>7. CollectorInv'
  BY <1>1, <1>3 DEF IInv, TypeOK, CollectorInv, AllReceived, Received
<1> QED
  BY <1>4, <1>5, <1>6, <1>7 DEF IInv

LEMMA SendReportKeeps ==
    ASSUME IInv, NEW t \in Targets, SendReport(t)
    PROVE  IInv'
<1>1. UNCHANGED <<ctx, refreshDone, apc, alts, outcome, lateTraces, attempts, taken, local,
                  config, reports, rpc, Targets, AttemptIds>>
  BY DEF SendReport, attemptVars, reportVars, Targets, AttemptIds
<1>2. tpc[t] = "send" /\ tpc' = [tpc EXCEPT ![t] = "done"] /\ results' = results \cup {t}
  BY DEF SendReport
<1>3. TypeOK'
  BY <1>1, <1>2 DEF IInv, TypeOK, Report
<1>4. EndedInv' /\ ChannelInv' /\ LateInv'
  BY <1>1 DEF IInv, EndedInv, ChannelInv, LateInv
<1>5. TargetInv'
  BY <1>1, <1>2 DEF IInv, TypeOK, TargetInv
<1>6. CollectorInv'
  BY <1>1, <1>2 DEF IInv, TypeOK, CollectorInv, AllReceived, Received
<1> QED
  BY <1>3, <1>4, <1>5, <1>6 DEF IInv

-----------------------------------------------------------------------------
(* The collector takes a result: its target had no report before.          *)
LEMMA ReceiveReportKeeps ==
    ASSUME IInv, NEW t \in results, rpc = "collect", ~AllReceived,
           results' = results \ {t}, reports' = [reports EXCEPT ![t] = local[t]],
           UNCHANGED <<ctx, refreshDone, attemptVars, attempts, targetVars, config, rpc>>
    PROVE  /\ IInv'
           /\ t \in Targets /\ ~Received(t)
           /\ Justified(AttemptIds, outcome[t], ctx, local[t])
<1>1. UNCHANGED <<ctx, refreshDone, apc, alts, outcome, lateTraces, attempts, taken, tpc, local,
                  config, rpc, Targets, AttemptIds>>
  BY DEF attemptVars, targetVars, Targets, AttemptIds
<1>2. t \in Targets /\ tpc[t] = "done" /\ ~Received(t)
  BY DEF IInv, TypeOK, TargetInv, CollectorInv
<1>3. local[t] \in Report /\ Justified(AttemptIds, outcome[t], ctx, local[t])
  BY <1>2 DEF IInv, TypeOK, TargetInv
<1>4. TypeOK'
  BY <1>1, <1>2, <1>3 DEF IInv, TypeOK, Report
<1>5. EndedInv' /\ ChannelInv' /\ LateInv'
  BY <1>1 DEF IInv, EndedInv, ChannelInv, LateInv
<1>6. TargetInv'
  BY <1>1 DEF IInv, TargetInv
<1>7. \A s \in Targets : reports'[s] = IF s = t THEN local[t] ELSE reports[s]
  BY <1>2 DEF IInv, TypeOK
<1>8. CollectorInv'
  <2> SUFFICES ASSUME NEW s \in Targets, Received(s)'
               PROVE  /\ Justified(AttemptIds, outcome[s], ctx, reports'[s])
                      /\ tpc[s] = "done" /\ s \notin results'
    BY <1>1 DEF CollectorInv
  <2>1. CASE s = t
    BY <1>2, <1>3, <1>7, <2>1
  <2>2. CASE s # t
    BY <1>7, <2>2 DEF IInv, CollectorInv, Received
  <2> QED
    BY <2>1, <2>2
<1> QED
  BY <1>2, <1>3, <1>4, <1>5, <1>6, <1>8 DEF IInv

(* The collector gives up: every target it still waits for is cancelled.   *)
LEMMA CollectorGivesUpKeeps ==
    ASSUME IInv, CollectorGivesUp
    PROVE  IInv'
<1>1. UNCHANGED <<ctx, refreshDone, apc, alts, outcome, lateTraces, attempts, taken, tpc, local,
                  results, config, rpc, Targets, AttemptIds>>
  BY DEF CollectorGivesUp, attemptVars, targetVars, Targets, AttemptIds
<1>2. \A s \in Targets : /\ reports'[s] = Kept(s) /\ Kept(s) \in Report
                         /\ Justified(AttemptIds, outcome[s], ctx, Kept(s))
  <2> SUFFICES ASSUME NEW s \in Targets
               PROVE  /\ reports'[s] = Kept(s) /\ Kept(s) \in Report
                      /\ Justified(AttemptIds, outcome[s], ctx, Kept(s))
    OBVIOUS
  <2>1. reports'[s] = Kept(s)
    BY DEF CollectorGivesUp
  <2>2. CASE Received(s)
    BY <2>1, <2>2 DEF Kept, IInv, TypeOK, CollectorInv
  <2>3. CASE ~Received(s)
    BY <2>1, <2>3, CanceledJustified DEF Kept, IInv, CollectorGivesUp
  <2> QED
    BY <2>2, <2>3
<1>3. reports' \in [Targets -> Report]
  BY <1>2 DEF CollectorGivesUp
<1>4. TypeOK'
  BY <1>1, <1>3 DEF IInv, TypeOK, Report
<1>5. EndedInv' /\ ChannelInv' /\ LateInv'
  BY <1>1 DEF IInv, EndedInv, ChannelInv, LateInv
<1>6. TargetInv'
  BY <1>1 DEF IInv, TargetInv
<1>7. AllReceived'
  BY <1>1, <1>2, JustifiedIsReport DEF AllReceived, Received
<1>8. CollectorInv'
  BY <1>1, <1>2, <1>7 DEF CollectorInv
<1> QED
  BY <1>4, <1>5, <1>6, <1>8 DEF IInv

(* The context ends while reports are underway.                            *)
LEMMA ContextEndsKeeps ==
    ASSUME IInv, ContextEnds
    PROVE  IInv'
<1>1. UNCHANGED <<refreshDone, apc, alts, outcome, lateTraces, attempts, taken, tpc, local,
                  results, config, reports, rpc, Targets, AttemptIds>>
  BY DEF ContextEnds, attemptVars, targetVars, reportVars, Targets, AttemptIds
<1>2. ctx = "live" /\ ctx' \in {"timeout", "canceled"}
  BY DEF ContextEnds
<1>3. TypeOK'
  BY <1>1, <1>2 DEF IInv, TypeOK, Report
<1>4. EndedInv' /\ ChannelInv' /\ LateInv'
  BY <1>1, <1>2 DEF IInv, EndedInv, ChannelInv, LateInv
<1>5. \A s \in Targets, r \in Report :
          Justified(AttemptIds, outcome[s], ctx, r) => Justified(AttemptIds, outcome[s], ctx', r)
  BY <1>2, JustifiedStays
<1>6. \A s \in Targets : local[s] \in Report /\ reports[s] \in Report
  BY DEF IInv, TypeOK
<1>7. TargetInv'
  BY <1>1, <1>5, <1>6 DEF IInv, TargetInv
<1>8. CollectorInv'
  BY <1>1, <1>5, <1>6 DEF IInv, CollectorInv, AllReceived, Received
<1> QED
  BY <1>3, <1>4, <1>7, <1>8 DEF IInv

(* Steps that change nothing the invariant looks at.                       *)
LEMMA OtherStepsKeep ==
    ASSUME IInv, RefreshReturns \/ ReturnReport \/ UNCHANGED vars
    PROVE  IInv'
<1>1. UNCHANGED <<ctx, apc, alts, outcome, lateTraces, attempts, taken, tpc, local, results,
                  config, reports, Targets, AttemptIds>>
  BY DEF RefreshReturns, ReturnReport, vars, attemptVars, targetVars, reportVars, Targets,
         AttemptIds
<1>2. refreshDone' \in BOOLEAN /\ rpc' \in {"collect", "returned"}
  BY DEF RefreshReturns, ReturnReport, vars, reportVars, IInv, TypeOK
<1>3. TypeOK'
  BY <1>1, <1>2 DEF IInv, TypeOK, Report
<1>4. EndedInv' /\ ChannelInv' /\ LateInv'
  BY <1>1 DEF IInv, EndedInv, ChannelInv, LateInv
<1>5. TargetInv' /\ CollectorInv'
  BY <1>1 DEF IInv, TargetInv, CollectorInv, AllReceived, Received
<1> QED
  BY <1>3, <1>4, <1>5 DEF IInv

LEMMA NextKeeps ==
    ASSUME IInv, [Next]_vars
    PROVE  IInv'
<1>1. ASSUME NEW t \in Targets, NEW a \in AttemptIds, TraceReturns(t, a) \/ AttemptSteps(t, a)
      PROVE  IInv'
  <2>1. CASE SendAttempt(t, a)
    BY <2>1, SendAttemptKeeps
  <2>2. CASE ~SendAttempt(t, a)
    BY <1>1, <2>2, AttemptMovesOn, AttemptMovesKeeps
  <2> QED
    BY <2>1, <2>2
<1>2. ASSUME NEW t \in Targets, TargetSteps(t)
      PROVE  IInv'
  BY <1>2, ReceiveAttemptKeeps, TargetEndsKeeps, SendReportKeeps DEF TargetSteps
<1>3. CASE ReceiveReport
  BY <1>3, ReceiveReportKeeps DEF ReceiveReport
<1>4. CASE CollectorGivesUp
  BY <1>4, CollectorGivesUpKeeps
<1>5. CASE ContextEnds
  BY <1>5, ContextEndsKeeps
<1>6. CASE RefreshReturns \/ ReturnReport \/ UNCHANGED vars
  BY <1>6, OtherStepsKeep
<1> QED
  BY <1>1, <1>2, <1>3, <1>4, <1>5, <1>6 DEF Next, CollectorSteps, Finished

LEMMA Inductive == Spec => []IInv
<1>1. IInv /\ [Next]_vars => IInv'
  BY NextKeeps
<1> QED
  BY InitInv, <1>1, PTL DEF Spec

-----------------------------------------------------------------------------
(* Every variable of the runner keeps its type.                            *)
THEOREM TypeCorrect == Spec => []TypeOK
<1>1. IInv => TypeOK
  BY DEF IInv
<1> QED
  BY Inductive, <1>1, PTL

(* Every verdict of RunRouteReport is what the attempts of its target came *)
(* to, or names the way the context ended, in every state of the report    *)
(* being filled and in every interleaving of its goroutines.               *)
THEOREM ReportJustifiedHolds == Spec => []ReportJustified
<1>1. IInv => ReportJustified
  <2> SUFFICES ASSUME IInv, NEW t \in Targets
               PROVE  LET found == {a \in AttemptIds : outcome[t][a] \in {"hops", "fallback"}}
                          r == reports[t]
                      IN  /\ r.status = "available" =>
                                /\ r.successful = Cardinality(found) /\ r.successful > 0
                                /\ r.fallback <=> \E a \in found : outcome[t][a] = "fallback"
                          /\ r.status = "unavailable" =>
                                found = {} /\ \A a \in AttemptIds : outcome[t][a] # "none"
                          /\ r.status \in {"timeout", "canceled"} => r.status = ctx
    BY DEF ReportJustified
  <2>1. CASE Received(t)
    <3>1. Justified(AttemptIds, outcome[t], ctx, reports[t])
      BY <2>1 DEF IInv, CollectorInv
    <3> QED
      BY <3>1 DEF Justified, FoundHops
  <2>2. CASE ~Received(t)
    BY <2>2 DEF Received, NoReport
  <2> QED
    BY <2>1, <2>2
<1> QED
  BY Inductive, <1>1, PTL

(* executeRouteAttempt checks the context after every candidate: at most   *)
(* one alternative is traced after its end, for lists of any length.       *)
THEOREM StopsPromptlyHolds == Spec => []StopsPromptly
<1>1. IInv => StopsPromptly
  BY DEF IInv, LateInv, StopsPromptly
<1> QED
  BY Inductive, <1>1, PTL

-----------------------------------------------------------------------------
(* The refinement of RouteReportSpec: the verdict of a target is the       *)
(* status of its report.                                                   *)
Verdicts == [t \in Targets |-> reports[t].status]

LEMMA InitRefines == Init => Promise!SpecInit
<1> SUFFICES ASSUME Init PROVE Promise!SpecInit
  OBVIOUS
<1>1. IsFiniteSet(Targets) /\ IsFiniteSet(AttemptIds)
  BY FiniteConfig DEF Init
<1>2. Verdicts = [t \in Targets |-> "pending"]
  BY DEF Init, Verdicts, NoReport
<1>3. Promise!IsFiniteSet(Targets) /\ Promise!IsFiniteSet(AttemptIds)
  BY <1>1 DEF IsFiniteSet, Promise!IsFiniteSet
<1>4. (rpc = "returned") = FALSE
  BY DEF Init
<1>5. outcome = [t \in Targets |-> [a \in AttemptIds |-> "none"]] /\ ctx = "live"
  BY DEF Init
<1> QED
  BY <1>2, <1>3, <1>4, <1>5, Zenon DEF Promise!SpecInit, Verdicts

(* A step that leaves what the abstract specification sees is a stutter.   *)
LEMMA Stutters ==
    ASSUME UNCHANGED <<ctx, config, outcome, reports, rpc>>
    PROVE  UNCHANGED Promise!svars
BY DEF Promise!svars, Promise!asked, Targets, AttemptIds

(* The end of an attempt, whether its report is still underway or not.     *)
LEMMA MoveRefines ==
    ASSUME IInv, NEW t \in Targets, NEW a \in AttemptIds,
           NEW p \in Locations, NEW o \in Outcomes, NEW l \in Nat, AttemptMoves(t, a, p, o, l)
    PROVE  [Promise!SpecNext]_(Promise!svars)
<1>1. UNCHANGED <<ctx, config, reports, rpc, Targets, AttemptIds>>
  BY DEF AttemptMoves, reportVars, Targets, AttemptIds
<1>2. outcome[t][a] = "none" /\ outcome' = [outcome EXCEPT ![t][a] = o]
  BY DEF IInv, EndedInv, AttemptMoves
<1>3. CASE o = "none"
  <2>1. outcome \in [Targets -> [AttemptIds -> Outcomes]]
    BY DEF IInv, TypeOK, Outcomes
  <2>2. outcome' = outcome
    BY <1>2, <1>3, <2>1
  <2> QED
    BY <1>1, <2>2, Stutters
<1>4. CASE o # "none"
  <2>1. o \in Promise!Outcomes
    BY <1>4 DEF Outcomes, Promise!Outcomes
  <2>2. Promise!EndAttempt(t, a)
    BY <1>1, <1>2, <2>1 DEF Promise!EndAttempt, Promise!asked
  <2> QED
    BY <2>2 DEF Promise!SpecNext
<1> QED
  BY <1>3, <1>4

(* The collector gives a target its verdict.                               *)
LEMMA ReceiveRefines ==
    ASSUME IInv, ReceiveReport
    PROVE  Promise!SpecNext
<1>1. PICK t \in results : /\ results' = results \ {t}
                          /\ reports' = [reports EXCEPT ![t] = local[t]]
  BY DEF ReceiveReport
<1>2. /\ t \in Targets /\ ~Received(t)
      /\ Justified(AttemptIds, outcome[t], ctx, local[t])
  BY <1>1, ReceiveReportKeeps DEF ReceiveReport
<1>3. UNCHANGED <<ctx, config, outcome, rpc, Targets, AttemptIds>>
  BY DEF ReceiveReport, attemptVars, Targets, AttemptIds
<1>4. Verdicts[t] = "pending" /\ Verdicts' = [Verdicts EXCEPT ![t] = local[t].status]
  <2>1. Verdicts[t] = "pending"
    BY <1>2 DEF Verdicts, Received, NoReport
  <2>2. \A s \in Targets : reports'[s].status = IF s = t THEN local[t].status ELSE reports[s].status
    BY <1>1, <1>2 DEF IInv, TypeOK
  <2> QED
    BY <1>2, <1>3, <2>1, <2>2 DEF Verdicts
<1>5. CASE local[t].status \in {"available", "unavailable"}
  <2>1. Promise!AllEnded(t)
    BY <1>2, <1>5 DEF Justified, Promise!AllEnded
  <2>2. Promise!Found(t) <=> local[t].status = "available"
    BY <1>2, <1>5 DEF Justified, FoundHops, Promise!Found
  <2>3. Promise!Judge(t)
    BY <1>3, <1>4, <1>5, <2>1, <2>2 DEF Promise!Judge, Promise!asked, Verdicts
  <2> QED
    BY <1>2, <2>3 DEF Promise!SpecNext
<1>6. CASE local[t].status \in {"timeout", "canceled"}
  <2>1. local[t].status = ctx /\ ctx # "live"
    BY <1>2, <1>6 DEF Justified
  <2>2. Promise!Judge(t)
    BY <1>3, <1>4, <2>1 DEF Promise!Judge, Promise!asked, Verdicts
  <2> QED
    BY <1>2, <2>2 DEF Promise!SpecNext
<1> QED
  BY <1>2, <1>5, <1>6 DEF Justified

(* It gives all that are left their verdict at once.                       *)
LEMMA GivesUpRefines ==
    ASSUME IInv, CollectorGivesUp
    PROVE  Promise!SpecNext
<1>1. UNCHANGED <<ctx, config, outcome, rpc, Targets, AttemptIds>> /\ ctx # "live"
  BY DEF CollectorGivesUp, attemptVars, Targets, AttemptIds
<1>2. PICK t \in Targets : ~Received(t)
  BY DEF CollectorGivesUp, AllReceived
<1>3. Verdicts[t] = "pending"
  BY <1>2 DEF Verdicts, Received, NoReport
<1>4. \A s \in Targets :
          reports'[s].status = IF Verdicts[s] = "pending" THEN ctx ELSE Verdicts[s]
  <2> SUFFICES ASSUME NEW s \in Targets
               PROVE  reports'[s].status = IF Verdicts[s] = "pending" THEN ctx ELSE Verdicts[s]
    OBVIOUS
  <2>1. reports'[s] = Kept(s)
    BY DEF CollectorGivesUp
  <2>2. CASE Received(s)
    <3>1. reports[s].status # "pending"
      BY <2>2, JustifiedIsReport DEF IInv, CollectorInv
    <3> QED
      BY <2>1, <2>2, <3>1 DEF Kept, Verdicts
  <2>3. CASE ~Received(s)
    BY <2>1, <2>3 DEF Kept, Received, Canceled, NoReport, Verdicts
  <2> QED
    BY <2>2, <2>3
<1>5. Verdicts' = [s \in Targets |-> IF Verdicts[s] = "pending" THEN ctx ELSE Verdicts[s]]
  BY <1>1, <1>4 DEF Verdicts
<1>6. Promise!JudgeRest
  BY <1>1, <1>2, <1>3, <1>5 DEF Promise!JudgeRest, Promise!asked, Verdicts
<1> QED
  BY <1>6 DEF Promise!SpecNext

(* It returns when every target has its verdict.                           *)
LEMMA ReturnRefines ==
    ASSUME IInv, ReturnReport
    PROVE  Promise!SpecNext
<1>1. UNCHANGED <<ctx, config, outcome, reports, Targets, AttemptIds, Verdicts>>
  BY DEF ReturnReport, attemptVars, Targets, AttemptIds, Verdicts
<1>2. \A t \in Targets : Verdicts[t] # "pending"
  BY JustifiedIsReport DEF ReturnReport, AllReceived, IInv, CollectorInv, Verdicts
<1>3. Promise!Return
  BY <1>1, <1>2 DEF ReturnReport, Promise!Return, Promise!asked, Verdicts
<1> QED
  BY <1>3 DEF Promise!SpecNext

LEMMA ContextEndsRefines ==
    ASSUME IInv, ContextEnds
    PROVE  Promise!SpecNext
<1>1. UNCHANGED <<config, outcome, reports, rpc, Targets, AttemptIds, Verdicts>>
  BY DEF ContextEnds, attemptVars, reportVars, Targets, AttemptIds, Verdicts
<1>2. Promise!EndContext
  BY <1>1 DEF ContextEnds, Promise!EndContext, Promise!asked, Verdicts
<1> QED
  BY <1>2 DEF Promise!SpecNext

(* Every step of the runner is a step of its promise, or a stutter.        *)
LEMMA NextRefines ==
    ASSUME IInv, [Next]_vars
    PROVE  [Promise!SpecNext]_(Promise!svars)
<1>1. ASSUME NEW t \in Targets, NEW a \in AttemptIds, TraceReturns(t, a) \/ AttemptSteps(t, a)
      PROVE  [Promise!SpecNext]_(Promise!svars)
  <2>1. CASE SendAttempt(t, a)
    BY <2>1, Stutters DEF SendAttempt, reportVars
  <2>2. CASE ~SendAttempt(t, a)
    BY <1>1, <2>2, AttemptMovesOn, MoveRefines
  <2> QED
    BY <2>1, <2>2
<1>2. ASSUME NEW t \in Targets, TargetSteps(t)
      PROVE  [Promise!SpecNext]_(Promise!svars)
  BY <1>2, Stutters
  DEF TargetSteps, ReceiveAttempt, AllAttemptsReceived, TargetGivesUp, SendReport, attemptVars,
      reportVars
<1>3. CASE ReceiveReport
  BY <1>3, ReceiveRefines
<1>4. CASE CollectorGivesUp
  BY <1>4, GivesUpRefines
<1>5. CASE ReturnReport
  BY <1>5, ReturnRefines
<1>6. CASE ContextEnds
  BY <1>6, ContextEndsRefines
<1>7. CASE RefreshReturns \/ UNCHANGED vars
  BY <1>7, Stutters DEF RefreshReturns, vars, attemptVars, reportVars
<1> QED
  BY <1>1, <1>2, <1>3, <1>4, <1>5, <1>6, <1>7 DEF Next, CollectorSteps, Finished

(* RunRouteReport, with its goroutines, channels and cancellation, does    *)
(* what RouteReportSpec promises: one final verdict for every target, from *)
(* all its attempts or from the end of the context, before it returns.     *)
THEOREM RefinesPromise == Spec => ImplementsPromise
<1>1. Init => Promise!SpecInit
  BY InitRefines
<1>2. IInv /\ [Next]_vars => [Promise!SpecNext]_(Promise!svars)
  BY NextRefines
<1> QED
  BY Inductive, <1>1, <1>2, PTL DEF Spec, ImplementsPromise, Promise!Spec
=============================================================================
