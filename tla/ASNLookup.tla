----------------------------- MODULE ASNLookup -----------------------------
(***************************************************************************)
(* ipv4Asn and ipv6Asn (bk/ipv4_asn.go, bk/ipv6_asn.go), which name the AS *)
(* of a hop while PrefixRegistry may be replacing the prefixes.  A lookup  *)
(* takes the active map once; the map it has taken is never changed, so    *)
(* the lookup is a single step.  It ranges over the map in the random      *)
(* order of Go.                                                            *)
(***************************************************************************)
EXTENDS PrefixRegistry, SequencesExt

CONSTANTS
    Match,      \* bits of the longest prefix in a version of an ASN's list
                \* that contains the IPv6 address looked up; -1 if none does
    Rank        \* the order of the ASNs' names

ASSUME MatchAssumption == Match \in [KnownASNs -> [Versions \cup {Embedded} -> -1 .. 128]]
ASSUME RankAssumption == Rank \in [KnownASNs -> Nat]
                         /\ \A a, b \in KnownASNs : Rank[a] = Rank[b] => a = b

VARIABLE answer   \* the ASN the address was given last, "" for none

(* isCMIN2IPv4, of the second and third octet.                             *)
CMIN2 ==
    {118} \X {32} \cup {120} \X (128 .. 255)
    \cup {119} \X (8 .. 15 \cup 26 .. 29 \cup 32 .. 37 \cup {74, 75, 88, 89, 100, 252, 253})

(* The cases of ipv4Asn, in their order, for an address given by its first *)
(* three octets.  "61.14" is a prefix of the text: it also begins 61.140   *)
(* to 61.149.                                                              *)
Begins(o, first, seconds) ==
    o[1] = first /\ \E p \in seconds : o[2] = p \/ o[2] \div 10 = p

Cases(o) == <<
    [asn |-> "AS4809",  if |-> Begins(o, 59, {43})],
    [asn |-> "AS4134",  if |-> Begins(o, 202, {97})],
    [asn |-> "AS9929",  if |-> Begins(o, 218, {105}) \/ Begins(o, 210, {51})],
    [asn |-> "AS10099", if |-> Begins(o, 202, {77}) \/ Begins(o, 43, {252}) \/ Begins(o, 61, {14})],
    [asn |-> "AS4837",  if |-> Begins(o, 219, {158})],
    [asn |-> "AS58807", if |-> o[1] = 223 /\ <<o[2], o[3]>> \in CMIN2],
    [asn |-> "AS58453", if |-> Begins(o, 223, {118, 119, 120, 121})],
    [asn |-> "AS9808",  if |-> Begins(o, 221, {183}) \/ Begins(o, 111, {24})],
    [asn |-> "AS23764", if |-> Begins(o, 69, {194}) \/ Begins(o, 203, {22})],
    [asn |-> "",        if |-> TRUE] >>

IPv4Asn(o) ==
    LET cases == Cases(o)
        i == CHOOSE i \in DOMAIN cases : cases[i].if /\ \A j \in 1 .. i - 1 : ~cases[j].if
    IN  cases[i].asn

-----------------------------------------------------------------------------
(* ipv6Asn keeps the most specific match so far, of two equally specific   *)
(* ones the one with the smaller name.                                     *)
NoMatch == [asn |-> "", bits |-> -1]

KeepFirst(best, m) == IF m.bits > best.bits THEN m ELSE best

KeepBetter(best, m) ==
    IF m.bits > best.bits \/ (m.bits = best.bits /\ m # NoMatch /\ Rank[m.asn] < Rank[best.asn])
    THEN m ELSE best

MatchOf(map, a) ==
    LET bits == Match[a][map[a].version] IN IF bits < 0 THEN NoMatch ELSE [asn |-> a, bits |-> bits]

(* The best match among the first ASNs of an order.                        *)
BestOf(map, order) ==
    LET best[n \in 0 .. Len(order)] ==
            IF n = 0 THEN NoMatch ELSE KeepBetter(best[n - 1], MatchOf(map, order[n]))
    IN  best

IPv6Asn(map, order) == BestOf(map, order)[Len(order)].asn

LookUp ==
    /\ \E order \in SetToSeqs(KnownASNs) : answer' = IPv6Asn(active, order)
    /\ UNCHANGED vars

LookupInit == Init /\ answer = "none"

RefreshStep == Next /\ UNCHANGED answer

LookupNext == RefreshStep \/ LookUp

LookupSpec == LookupInit /\ [][LookupNext]_<<vars, answer>> /\ Fairness

-----------------------------------------------------------------------------
(* The CMIN2 ranges lie inside blocks of CMI that a later case matches; an *)
(* IPv4 hop is of CMIN2 in all of those ranges and nowhere else.           *)
CMIN2ToldApart ==
    \A second \in 117 .. 122, third \in 0 .. 255 :
        IPv4Asn(<<223, second, third>>) =
            IF <<second, third>> \in CMIN2 THEN "AS58807"
            ELSE IF second \in 118 .. 121 THEN "AS58453" ELSE ""

(* Whatever order a map is walked in, and whatever the refresh does, an    *)
(* IPv6 hop belongs to the ASN whose prefix is the most specific in the    *)
(* map in use; so once the refresh is over a hop is judged alike in every  *)
(* report, and before that its ASN changes at most once.                   *)
BestAsns(map) ==
    {a \in KnownASNs :
        LET bits(b) == Match[b][map[b].version]
        IN  /\ bits(a) >= 0
            /\ \A b \in KnownASNs : bits(b) < bits(a) \/ (bits(b) = bits(a) /\ Rank[a] <= Rank[b])}

JudgedAlike ==
    [][answer' # answer =>
          /\ IF BestAsns(active) = {} THEN answer' = "" ELSE answer' \in BestAsns(active)
          /\ answer = "none" \/ active # EmbeddedMap
          /\ CMIN2ToldApart]_<<vars, answer>>
=============================================================================
