-------------------------- MODULE RouteReportSpec --------------------------
(***************************************************************************)
(* What RunRouteReport (bk/route_report.go) promises, whatever goroutines  *)
(* and channels it uses.  Every target gets exactly one verdict:           *)
(* "available" when some attempt found responding hops, "unavailable" when *)
(* all attempts ended without any, and otherwise the reason the context    *)
(* ended.  The report is returned when every target has its verdict.       *)
(***************************************************************************)
EXTENDS FiniteSets

VARIABLES
    targets,   \* what is asked for: the targets, and
    attempts,  \* the attempts at each of them
    verdict,   \* "pending", or the status a target was given
    outcome,   \* what each attempt of each target came to
    context,   \* "live", "timeout" or "canceled"
    returned   \* RunRouteReport has returned

asked == <<targets, attempts>>
svars == <<asked, verdict, outcome, context, returned>>

Outcomes == {"hops", "fallback", "fail"}

SpecInit ==
    /\ IsFiniteSet(targets) /\ IsFiniteSet(attempts)
    /\ verdict = [t \in targets |-> "pending"]
    /\ outcome = [t \in targets |-> [a \in attempts |-> "none"]]
    /\ context = "live"
    /\ returned = FALSE

(* An attempt ends; it may do so after its target's verdict.               *)
EndAttempt(t, a) ==
    /\ outcome[t][a] = "none"
    /\ \E o \in Outcomes : outcome' = [outcome EXCEPT ![t][a] = o]
    /\ UNCHANGED <<asked, verdict, context, returned>>

EndContext ==
    /\ context = "live"
    /\ context' \in {"timeout", "canceled"}
    /\ UNCHANGED <<asked, verdict, outcome, returned>>

Found(t) == \E a \in attempts : outcome[t][a] \in {"hops", "fallback"}
AllEnded(t) == \A a \in attempts : outcome[t][a] # "none"

Judge(t) ==
    /\ verdict[t] = "pending"
    /\ \/ AllEnded(t) /\ Found(t) /\ verdict' = [verdict EXCEPT ![t] = "available"]
       \/ AllEnded(t) /\ ~Found(t) /\ verdict' = [verdict EXCEPT ![t] = "unavailable"]
       \/ context # "live" /\ verdict' = [verdict EXCEPT ![t] = context]
    /\ UNCHANGED <<asked, outcome, context, returned>>

(* Every target still without a verdict gets the reason the context ended. *)
JudgeRest ==
    /\ context # "live" /\ \E t \in targets : verdict[t] = "pending"
    /\ verdict' = [t \in targets |-> IF verdict[t] = "pending" THEN context ELSE verdict[t]]
    /\ UNCHANGED <<asked, outcome, context, returned>>

Return ==
    /\ ~returned /\ \A t \in targets : verdict[t] # "pending"
    /\ returned' = TRUE
    /\ UNCHANGED <<asked, verdict, outcome, context>>

SpecNext ==
    \/ \E t \in targets : Judge(t) \/ \E a \in attempts : EndAttempt(t, a)
    \/ EndContext \/ JudgeRest \/ Return

Spec == SpecInit /\ [][SpecNext]_svars
=============================================================================
