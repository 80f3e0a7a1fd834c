-------------------------- MODULE MC_RouteEvidence --------------------------
(* Three attempts over two hops to a target: the first hop is either of    *)
(* two routers, and the target replies at its distance and beyond it.      *)
EXTENDS RouteEvidence

CONSTANTS X, Y, T

SomeReplies ==
    {[hops |-> 1, ip |-> X], [hops |-> 1, ip |-> Y], [hops |-> 2, ip |-> T], [hops |-> 3, ip |-> T]}

As(x, y, t) == [n \in Nodes |-> CASE n = X -> x [] n = Y -> y [] n = T -> t]

(* By one map only, or by two of which the second replaces the first.      *)
Fixed(carrier, asn) == [carrier |-> carrier, asn |-> asn, later |-> asn]

SomeReadings ==
    {Fixed("CT", As("AS4809", "AS4134", "AS4809")),
     Fixed("CT", As("AS4809", "AS4134", "AS4134")),
     Fixed("CU", As("AS9929", "AS4837", "AS4837")),
     Fixed("CU", As("AS10099", "AS4837", "AS9929")),
     Fixed("CM", As("AS58807", "AS58453", "AS9808")),
     [carrier |-> "CT", asn |-> As("AS23764", "", "AS4134"), later |-> As("AS4809", "", "AS4809")],
     [carrier |-> "CM", asn |-> As("", "", ""), later |-> As("AS58453", "", "AS58807")]}
=============================================================================
