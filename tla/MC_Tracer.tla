----------------------------- MODULE MC_Tracer -----------------------------
(* Small instances of Tracer: two Trace calls of one target, as the runner *)
(* of route_report.go starts them, which send no more than three requests  *)
(* between them, or a single one with more hops.                           *)
EXTENDS Tracer, TLC

CONSTANTS s1, s2, ip, ip6

OneSession == {s1}
TwoSessions == {s1, s2}
OneV4 == [s \in Sessions |-> ip]
OneV6 == [s \in Sessions |-> ip6]

Router == [target |-> FALSE, ttl |-> 1]
Target == [target |-> TRUE, ttl |-> 1]

(* The target is the second router or a later one, depending on the path a *)
(* packet takes.  It may report an unreachable port, quoting the TTL that  *)
(* was left: 2 if the packet could have gone one router farther.  The last *)
(* packet always reaches it, and is quoted with a TTL larger than the      *)
(* number of routers it passed.                                            *)
Farther == [target |-> TRUE, ttl |-> 2]

Path == [t \in 1 .. MaxHops + 1 |->
            IF t > MaxHops THEN {Target, [target |-> TRUE, ttl |-> t + 1]}
            ELSE {Router, Target, Farther}]

(* Any packet may reach the target or expire, and a device on the way may  *)
(* have raised the TTL that the target quotes.                             *)
Either == [t \in 1 .. MaxHops + 1 |-> {Router, Target, [target |-> TRUE, ttl |-> t + 1]}]

(* Two requests, by one session or by each, are followed to their end, and *)
(* a third one until it is sent.                                           *)
FewRequests == seq <= 2

SessionSymmetry == Permutations(Sessions)
=============================================================================
