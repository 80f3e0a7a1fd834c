---------------------------- MODULE RouteReport ----------------------------
(***************************************************************************)
(* RunRouteReport of bk/route_report.go: one goroutine per target, one     *)
(* goroutine per attempt of a target, buffered channels between them, and  *)
(* a context that times out or is cancelled while they run.  Traces and    *)
(* the refresh of the alternative addresses take any time and may fail.    *)
(* A channel is the set of what it holds: the order in which results       *)
(* arrive does not matter to the verdicts.                                 *)
(***************************************************************************)
EXTENDS Integers, Sequences, FiniteSets

CONSTANTS
    Configs,          \* the RouteReportConfigs the report may be run with
    InvalidTargets,   \* targets whose Address does not parse
    AltLists          \* what alternatives(target) may return: sequences of
                      \* "ip" (to be traced) and "skip" (invalid, or the primary)

AllTargets == UNION {c.targets : c \in Configs}
AllAttempts == UNION {c.attempts : c \in Configs}

ASSUME ConfigsAssumption ==
    \A c \in Configs : /\ DOMAIN c = {"targets", "attempts"}
                        /\ IsFiniteSet(c.targets) /\ IsFiniteSet(c.attempts)
                        /\ c.attempts # {}
ASSUME InvalidAssumption == InvalidTargets \subseteq AllTargets
ASSUME AltsAssumption == AltLists \subseteq Seq({"ip", "skip"})

VARIABLES
    config,       \* normalizeRouteReportConfig: [targets, attempts]
    ctx,          \* runCtx: "live", "timeout" or "canceled"
    refreshDone,  \* the channel refreshDone is closed
    apc,          \* where each attempt goroutine is
    alts,         \* the alternatives each attempt has not tried yet
    outcome,      \* the routeAttempt it ends with
    attempts,     \* per target, the channel attempts
    taken,        \* per target, the attempts runRouteTarget has received
    tpc,          \* where each target goroutine is
    local,        \* the report each target goroutine ends with
    results,      \* the channel results, as the set of its targets
    reports,      \* reports of RunRouteReport
    rpc,          \* "collect" or "returned"
    lateTraces    \* history: alternatives each attempt began to trace after
                  \* the context had ended

attemptVars == <<apc, alts, outcome, lateTraces>>
targetVars  == <<taken, tpc, local>>
reportVars  == <<config, reports, rpc>>
vars == <<ctx, refreshDone, attemptVars, attempts, targetVars, results, reportVars>>

Targets == config.targets
AttemptIds == config.attempts

NoReport == [status |-> "pending", successful |-> 0, fallback |-> FALSE]

(* canceledRouteTarget: an empty report that names the context's end.      *)
Canceled == [status |-> ctx, successful |-> 0, fallback |-> FALSE]

Statuses == {"pending", "available", "unavailable", "timeout", "canceled"}
Report == [status : Statuses, successful : 0 .. Cardinality(AttemptIds), fallback : BOOLEAN]

TypeOK ==
    /\ config \in Configs
    /\ ctx \in {"live", "timeout", "canceled"}
    /\ refreshDone \in BOOLEAN
    /\ apc \in [Targets -> [AttemptIds -> {"primary", "alternatives", "choose", "alternative",
                                           "send", "done"}]]
    /\ alts \in [Targets -> [AttemptIds -> Seq({"ip", "skip"})]]
    /\ outcome \in [Targets -> [AttemptIds -> {"none", "hops", "fallback", "fail"}]]
    /\ attempts \in [Targets -> SUBSET AttemptIds]
    /\ taken \in [Targets -> SUBSET AttemptIds]
    /\ tpc \in [Targets -> {"collect", "send", "done"}]
    /\ local \in [Targets -> Report]
    /\ results \in SUBSET Targets
    /\ reports \in [Targets -> Report]
    /\ rpc \in {"collect", "returned"}
    /\ lateTraces \in [Targets -> [AttemptIds -> Nat]]

Init ==
    /\ config \in Configs
    /\ ctx = "live" /\ refreshDone = FALSE
    /\ apc = [t \in Targets |-> [a \in AttemptIds |-> "primary"]]
    /\ alts = [t \in Targets |-> [a \in AttemptIds |-> <<>>]]
    /\ outcome = [t \in Targets |-> [a \in AttemptIds |-> "none"]]
    /\ attempts = [t \in Targets |-> {}] /\ taken = [t \in Targets |-> {}]
    /\ tpc = [t \in Targets |-> "collect"] /\ local = [t \in Targets |-> NoReport]
    /\ results = {} /\ reports = [t \in Targets |-> NoReport] /\ rpc = "collect"
    /\ lateTraces = [t \in Targets |-> [a \in AttemptIds |-> 0]]

-----------------------------------------------------------------------------
(* context.WithTimeout fires, or the caller cancels.                       *)
ContextEnds ==
    /\ ctx = "live"
    /\ ctx' \in {"timeout", "canceled"}
    /\ UNCHANGED <<refreshDone, attemptVars, attempts, targetVars, results, reportVars>>

(* refreshAlternativeTargets returns, with or without fresh data.          *)
RefreshReturns ==
    /\ ~refreshDone
    /\ refreshDone' = TRUE
    /\ UNCHANGED <<ctx, attemptVars, attempts, targetVars, results, reportVars>>

(* The attempt ends with outcome o, which it goes on to send.              *)
EndAttempt(t, a, o) ==
    /\ outcome' = [outcome EXCEPT ![t][a] = o]
    /\ apc' = [apc EXCEPT ![t][a] = "send"]

(* executeRouteAttempt: an address that does not parse, or the trace of    *)
(* the primary address.                                                    *)
InvalidAddress(t, a) ==
    /\ apc[t][a] = "primary" /\ t \in InvalidTargets
    /\ EndAttempt(t, a, "fail")
    /\ UNCHANGED <<ctx, refreshDone, alts, lateTraces, attempts, targetVars, results, reportVars>>

PrimaryFindsHops(t, a) ==
    /\ apc[t][a] = "primary" /\ t \notin InvalidTargets
    /\ EndAttempt(t, a, "hops")
    /\ UNCHANGED <<ctx, refreshDone, alts, lateTraces, attempts, targetVars, results, reportVars>>

(* An error, or no responding hop.                                         *)
PrimaryFails(t, a) ==
    /\ apc[t][a] = "primary" /\ t \notin InvalidTargets
    /\ apc' = [apc EXCEPT ![t][a] = "alternatives"]
    /\ UNCHANGED <<ctx, refreshDone, alts, outcome, lateTraces, attempts, targetVars, results,
                   reportVars>>

(* A panic in trace or in alternatives, recovered by safeExecuteRouteAttempt. *)
TracePanics(t, a) ==
    /\ \/ apc[t][a] = "primary" /\ t \notin InvalidTargets
       \/ apc[t][a] \in {"alternatives", "alternative"}
    /\ EndAttempt(t, a, "fail")
    /\ UNCHANGED <<ctx, refreshDone, alts, lateTraces, attempts, targetVars, results, reportVars>>

(* config.AlternativeTarget waits for the refresh, or gives up with the    *)
(* context: select takes either branch when both are ready.                *)
Alternatives(t, a) ==
    /\ apc[t][a] = "alternatives"
    /\ \/ refreshDone /\ \E list \in AltLists : alts' = [alts EXCEPT ![t][a] = list]
       \/ ctx # "live" /\ alts' = [alts EXCEPT ![t][a] = <<>>]
    /\ apc' = [apc EXCEPT ![t][a] = "choose"]
    /\ UNCHANGED <<ctx, refreshDone, outcome, lateTraces, attempts, targetVars, results, reportVars>>

(* The loop over the candidates.                                           *)
NoMoreCandidates(t, a) ==
    /\ apc[t][a] = "choose" /\ alts[t][a] = <<>>
    /\ EndAttempt(t, a, "fail")
    /\ UNCHANGED <<ctx, refreshDone, alts, lateTraces, attempts, targetVars, results, reportVars>>

SkipCandidate(t, a) ==
    /\ apc[t][a] = "choose" /\ alts[t][a] # <<>> /\ Head(alts[t][a]) = "skip"
    /\ alts' = [alts EXCEPT ![t][a] = Tail(@)]
    /\ UNCHANGED <<ctx, refreshDone, apc, outcome, lateTraces, attempts, targetVars, results,
                   reportVars>>

TraceCandidate(t, a) ==
    /\ apc[t][a] = "choose" /\ alts[t][a] # <<>> /\ Head(alts[t][a]) = "ip"
    /\ alts' = [alts EXCEPT ![t][a] = Tail(@)]
    /\ apc' = [apc EXCEPT ![t][a] = "alternative"]
    /\ lateTraces' = IF ctx = "live" THEN lateTraces ELSE [lateTraces EXCEPT ![t][a] = @ + 1]
    /\ UNCHANGED <<ctx, refreshDone, outcome, attempts, targetVars, results, reportVars>>

CandidateFindsHops(t, a) ==
    /\ apc[t][a] = "alternative"
    /\ EndAttempt(t, a, "fallback")
    /\ UNCHANGED <<ctx, refreshDone, alts, lateTraces, attempts, targetVars, results, reportVars>>

(* The ctx.Err() check after a candidate that failed.                      *)
CandidateFailsNoCheck(t, a) ==
    /\ apc[t][a] = "alternative"
    /\ apc' = [apc EXCEPT ![t][a] = "choose"] /\ UNCHANGED outcome
    /\ UNCHANGED <<ctx, refreshDone, alts, lateTraces, attempts, targetVars, results, reportVars>>

CandidateFails(t, a) ==
    /\ apc[t][a] = "alternative"
    /\ IF ctx # "live" THEN EndAttempt(t, a, "fail")
       ELSE apc' = [apc EXCEPT ![t][a] = "choose"] /\ UNCHANGED outcome
    /\ UNCHANGED <<ctx, refreshDone, alts, lateTraces, attempts, targetVars, results, reportVars>>

(* attempts <- result: blocks while the buffer is full.                    *)
AttemptsCapOne == 1

AttemptsCap == Cardinality(AttemptIds)

SendAttempt(t, a) ==
    /\ apc[t][a] = "send" /\ Cardinality(attempts[t]) < AttemptsCap
    /\ attempts' = [attempts EXCEPT ![t] = @ \cup {a}]
    /\ apc' = [apc EXCEPT ![t][a] = "done"]
    /\ UNCHANGED <<ctx, refreshDone, alts, outcome, lateTraces, targetVars, results, reportVars>>

-----------------------------------------------------------------------------
(* runRouteTarget: the attempts received so far that found hops.           *)
Successful(t) == {a \in taken[t] : outcome[t][a] \in {"hops", "fallback"}}

ReceiveAttempt(t) ==
    /\ tpc[t] = "collect" /\ taken[t] # AttemptIds
    /\ \E a \in attempts[t] :
          /\ attempts' = [attempts EXCEPT ![t] = @ \ {a}]
          /\ taken' = [taken EXCEPT ![t] = @ \cup {a}]
    /\ UNCHANGED <<ctx, refreshDone, attemptVars, tpc, local, results, reportVars>>

(* After the loop: unavailable without a successful attempt.               *)
JudgedAvailable(t) ==
    [status |-> "available", successful |-> Cardinality(Successful(t)),
     fallback |-> \E a \in taken[t] : outcome[t][a] = "fallback"]

Judged(t) ==
    IF Successful(t) = {} THEN [NoReport EXCEPT !.status = "unavailable"]
    ELSE [status |-> "available", successful |-> Cardinality(Successful(t)),
          fallback |-> \E a \in Successful(t) : outcome[t][a] = "fallback"]

AllAttemptsReceived(t) ==
    /\ tpc[t] = "collect" /\ taken[t] = AttemptIds
    /\ local' = [local EXCEPT ![t] = Judged(t)]
    /\ tpc' = [tpc EXCEPT ![t] = "send"]
    /\ UNCHANGED <<ctx, refreshDone, attemptVars, attempts, taken, results, reportVars>>

(* The ctx.Done branch: what has been received is discarded.               *)
TargetGivesUpMissing(t) == FALSE

TargetGivesUp(t) ==
    /\ tpc[t] = "collect" /\ taken[t] # AttemptIds /\ ctx # "live"
    /\ local' = [local EXCEPT ![t] = Canceled]
    /\ tpc' = [tpc EXCEPT ![t] = "send"]
    /\ UNCHANGED <<ctx, refreshDone, attemptVars, attempts, taken, results, reportVars>>

(* results <- indexedReport: blocks while the buffer is full.              *)
ResultsCap == Cardinality(Targets)

SendReport(t) ==
    /\ tpc[t] = "send" /\ Cardinality(results) < ResultsCap
    /\ results' = results \cup {t}
    /\ tpc' = [tpc EXCEPT ![t] = "done"]
    /\ UNCHANGED <<ctx, refreshDone, attemptVars, attempts, taken, local, reportVars>>

-----------------------------------------------------------------------------
(* The collector of RunRouteReport.  received[index] is reports[t] being   *)
(* filled in.                                                              *)
Received(t) == reports[t] # NoReport

AllReceived == \A t \in Targets : Received(t)

ReceiveReport ==
    /\ rpc = "collect" /\ ~AllReceived
    /\ \E t \in results :
          /\ results' = results \ {t}
          /\ reports' = [reports EXCEPT ![t] = local[t]]
    /\ UNCHANGED <<ctx, refreshDone, attemptVars, attempts, targetVars, config, rpc>>

CollectorOverwrites(t) == Canceled

Kept(t) == IF Received(t) THEN reports[t] ELSE Canceled

CollectorGivesUp ==
    /\ rpc = "collect" /\ ~AllReceived /\ ctx # "live"
    /\ reports' = [t \in Targets |-> Kept(t)]
    /\ UNCHANGED <<ctx, refreshDone, attemptVars, attempts, targetVars, results, config, rpc>>

ReturnReport ==
    /\ rpc = "collect" /\ AllReceived
    /\ rpc' = "returned"
    /\ UNCHANGED <<ctx, refreshDone, attemptVars, attempts, targetVars, results, config, reports>>

-----------------------------------------------------------------------------
TraceReturns(t, a) ==
    \/ PrimaryFindsHops(t, a) \/ PrimaryFails(t, a) \/ TracePanics(t, a)
    \/ CandidateFindsHops(t, a) \/ CandidateFails(t, a)

AttemptSteps(t, a) ==
    \/ InvalidAddress(t, a) \/ Alternatives(t, a) \/ NoMoreCandidates(t, a)
    \/ SkipCandidate(t, a) \/ TraceCandidate(t, a) \/ SendAttempt(t, a)

TargetSteps(t) ==
    ReceiveAttempt(t) \/ AllAttemptsReceived(t) \/ TargetGivesUp(t) \/ SendReport(t)

CollectorSteps == ReceiveReport \/ CollectorGivesUp \/ ReturnReport

(* The report has been returned and nothing of it runs any more.           *)
Quiet ==
    /\ rpc = "returned" /\ refreshDone /\ ctx # "live"
    /\ \A t \in Targets : tpc[t] = "done" /\ \A a \in AttemptIds : apc[t][a] = "done"

Finished == Quiet /\ UNCHANGED vars

Next ==
    \/ ContextEnds \/ RefreshReturns
    \/ \E t \in Targets : \E a \in AttemptIds : TraceReturns(t, a) \/ AttemptSteps(t, a)
    \/ \E t \in Targets : TargetSteps(t)
    \/ CollectorSteps
    \/ Finished

(* The goroutines run and the context's timer fires.  Nothing is assumed   *)
(* of the traces and the refresh: either may hang.                         *)
Fairness ==
    /\ WF_vars(ContextEnds) /\ WF_vars(CollectorSteps)
    /\ \A t \in AllTargets :
          /\ WF_vars(t \in Targets /\ TargetSteps(t))
          /\ \A a \in AllAttempts : WF_vars(t \in Targets /\ a \in AttemptIds /\ AttemptSteps(t, a))

Spec == Init /\ [][Next]_vars /\ Fairness

-----------------------------------------------------------------------------
(* The report states what the attempts came to: "available" with as many   *)
(* successful attempts as found hops and a fallback only if one of them    *)
(* used it, "unavailable" only when every attempt ended without hops,      *)
(* "timeout" and "canceled" only for the way the context ended.            *)
ReportJustified ==
    \A t \in Targets :
        LET found == {a \in AttemptIds : outcome[t][a] \in {"hops", "fallback"}}
            r == reports[t]
        IN  /\ r.status = "available" =>
                  /\ r.successful = Cardinality(found) /\ r.successful > 0
                  /\ r.fallback <=> \E a \in found : outcome[t][a] = "fallback"
            /\ r.status = "unavailable" =>
                  found = {} /\ \A a \in AttemptIds : outcome[t][a] # "none"
            /\ r.status \in {"timeout", "canceled"} => r.status = ctx

(* Once the context has ended an attempt starts at most one more trace of  *)
(* an alternative address, however many it has left.                       *)
StopsPromptly == \A t \in Targets, a \in AttemptIds : lateTraces[t][a] <= 1

(* RunRouteReport returns and its target goroutines end even when no trace *)
(* and no refresh ever does: only the attempts are left behind.            *)
ReportReturned == <>(rpc = "returned" /\ \A t \in Targets : tpc[t] = "done")

(* No goroutine of a report stays blocked on a channel nobody reads: if    *)
(* the traces return (Tracer's TraceReturns) and the refresh does, whose   *)
(* requests carry the context, all of them end, the ones whose target or   *)
(* report has given up included.                                           *)
GoroutinesEnd ==
    (/\ WF_vars(RefreshReturns)
     /\ \A t \in AllTargets, a \in AllAttempts :
           WF_vars(t \in Targets /\ a \in AttemptIds /\ TraceReturns(t, a)))
    => <>Quiet

(* The runner implements its abstract specification.                       *)
Promise == INSTANCE RouteReportSpec WITH
    targets <- Targets,
    attempts <- AttemptIds,
    verdict <- [t \in Targets |-> reports[t].status],
    context <- ctx,
    returned <- rpc = "returned"

ImplementsPromise == Promise!Spec
=============================================================================
