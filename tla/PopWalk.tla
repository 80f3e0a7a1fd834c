------------------------------ MODULE PopWalk ------------------------------
(***************************************************************************)
(* GetPoPInfo of bgptools/pop.go: the prefix page of an address names the  *)
(* picture of its connectivity graph; the picture is downloaded, and the   *)
(* upstreams of the target AS are read off the graph.  Behind a single     *)
(* direct upstream the walk records every AS, behind several ones only the *)
(* first tier 1 AS of each.                                                *)
(*                                                                         *)
(* The site answers as it likes.  Of a picture only the graph is kept: the *)
(* ASes drawn, in order, which of them are drawn as the target or as tier  *)
(* 1, and the arrows, which may lead to an AS without a card of its own.   *)
(***************************************************************************)
EXTENDS Integers, Sequences, FiniteSets

CONSTANTS
    ASNs,      \* autonomous systems
    Graphs,    \* the graphs the site may serve
    NoAS       \* what a walk reaches where it cannot go on

Graph == [nodes : Seq(ASNs), edges : SUBSET (ASNs \X ASNs),
          green : SUBSET ASNs, tier1 : SUBSET ASNs]

ASSUME NoASAssumption == NoAS \notin ASNs
ASSUME GraphsAssumption ==
    \A g \in Graphs :
        /\ g \in Graph
        /\ \A i, j \in DOMAIN g.nodes : g.nodes[i] = g.nodes[j] => i = j

(* defaultRetryConfig: attempts of executeWithRetry, and of the loops of   *)
(* getSVGPath and downloadSVG around it.                                   *)
MaxRetries == 2

-----------------------------------------------------------------------------
VARIABLES
    stage,     \* where the call is
    tries,     \* requests used up in this stage, attempt by attempt
    graph,     \* the graph downloaded
    upstreams, \* the Upstream records found so far
    nth,       \* index of directUpstream
    current    \* currentASN

popVars == <<stage, tries, graph, upstreams, nth, current>>

Upstream == [asn : ASNs, direct : BOOLEAN]

NoGraph == [nodes |-> <<>>, edges |-> {}, green |-> {}, tier1 |-> {}]

PopTypeOK ==
    /\ stage \in {"idle", "page", "picture", "walk", "ok", "error"}
    /\ tries \in 0 .. MaxRetries * MaxRetries
    /\ graph \in Graph
    /\ upstreams \in Seq(Upstream)
    /\ nth \in Nat
    /\ current \in ASNs \cup {NoAS}

PopInit ==
    /\ stage = "idle" /\ tries = 0
    /\ graph = NoGraph /\ upstreams = <<>> /\ nth = 0 /\ current = NoAS

-----------------------------------------------------------------------------
(* GetPoPInfo is called; an address that does not parse fails at once.     *)
Call(valid) ==
    /\ stage' = IF valid THEN "page" ELSE "error"
    /\ tries' = 0
    /\ graph' = NoGraph /\ upstreams' = <<>> /\ nth' = 0 /\ current' = NoAS

UseUp(n) ==
    /\ tries' = n
    /\ stage' = IF n = MaxRetries * MaxRetries THEN "error" ELSE stage
    /\ UNCHANGED <<graph, upstreams, nth, current>>

(* executeWithRetry: an error or a status other than 200.                  *)
RequestFails ==
    /\ stage \in {"page", "picture"}
    /\ UseUp(tries + 1)

(* A response without the path of the picture, or whose body breaks off,   *)
(* ends the inner loop: the outer one starts the next attempt.             *)
ResponseUnusable ==
    /\ stage \in {"page", "picture"}
    /\ UseUp(MaxRetries * (tries \div MaxRetries + 1))

PageArrives ==
    /\ stage = "page"
    /\ stage' = "picture" /\ tries' = 0
    /\ UNCHANGED <<graph, upstreams, nth, current>>

-----------------------------------------------------------------------------
NodesOf(g) == {g.nodes[i] : i \in DOMAIN g.nodes}

(* findTargetASN: the first AS drawn green, else the first of all.         *)
TargetOf(g) ==
    LET isGreen(a) == a \in g.green
    IN  IF NodesOf(g) \cap g.green # {}
        THEN Head(SelectSeq(g.nodes, isGreen))
        ELSE g.nodes[1]

ExitsOf(g, a) == {b \in ASNs : <<a, b>> \in g.edges}

(* The k-th of a set of numbers in their order.                            *)
Rank(ns, i) == Cardinality({j \in ns : j <= i})

Nth(ns, k) == CHOOSE i \in ns : Rank(ns, i) = k

(* The direct upstreams, in the order they are drawn.                      *)
DirectOf(g) ==
    LET drawn == {i \in DOMAIN g.nodes : g.nodes[i] \in ExitsOf(g, TargetOf(g))}
    IN  [k \in 1 .. Cardinality(drawn) |-> g.nodes[Nth(drawn, k)]]

Listed == {upstreams[i].asn : i \in DOMAIN upstreams}
DirectUpstreams == {upstreams[i].asn : i \in {j \in DOMAIN upstreams : upstreams[j].direct}}
Single == Cardinality(DirectUpstreams) = 1

(* parseASAndEdges, findTargetASN and the first half of findUpstreams.     *)
PictureArrives ==
    /\ stage = "picture"
    /\ tries' = 0
    /\ graph' \in Graphs
    /\ IF graph'.nodes = <<>>
       THEN stage' = "error" /\ UNCHANGED <<upstreams, nth, current>>
       ELSE LET direct == DirectOf(graph')
            IN  /\ upstreams' = [i \in DOMAIN direct |-> [asn |-> direct[i], direct |-> TRUE]]
                /\ IF direct = <<>>
                   THEN stage' = "ok" /\ UNCHANGED <<nth, current>>
                   ELSE stage' = "walk" /\ nth' = 1 /\ current' = direct[1]

(* One AS further: the only exit of the current AS, unless it is listed    *)
(* already or has no card.                                                 *)
GoesOnListed(a) == ExitsOf(graph, current) = {a} /\ a \in NodesOf(graph)

GoesOn(a) ==
    /\ ExitsOf(graph, current) = {a}
    /\ a \notin Listed
    /\ a \in NodesOf(graph)

List(a) == upstreams' = Append(upstreams, [asn |-> a, direct |-> FALSE])

(* The walk behind this direct upstream is over; the next one's, if any.   *)
NextDirect ==
    IF nth < Cardinality(DirectUpstreams)
    THEN /\ nth' = nth + 1 /\ current' = upstreams[nth + 1].asn
         /\ UNCHANGED stage
    ELSE stage' = "ok" /\ UNCHANGED <<nth, current>>

WalkSingle(a) ==
    /\ stage = "walk" /\ Single /\ GoesOn(a)
    /\ List(a) /\ current' = a
    /\ UNCHANGED <<stage, tries, graph, nth>>

WalkToTier1(a) ==
    /\ stage = "walk" /\ ~Single /\ GoesOn(a) /\ a \in graph.tier1
    /\ List(a) /\ NextDirect
    /\ UNCHANGED <<tries, graph>>

WalkPast(a) ==
    /\ stage = "walk" /\ ~Single /\ GoesOn(a) /\ a \notin graph.tier1
    /\ current' = a
    /\ UNCHANGED <<stage, tries, graph, upstreams, nth>>

WalkEnds ==
    /\ stage = "walk" /\ ~ \E a \in ASNs : GoesOn(a)
    /\ NextDirect
    /\ UNCHANGED <<tries, graph, upstreams>>

PopNext ==
    \/ RequestFails \/ ResponseUnusable \/ PageArrives \/ PictureArrives
    \/ \E a \in ASNs : WalkSingle(a) \/ WalkToTier1(a) \/ WalkPast(a)
    \/ WalkEnds

-----------------------------------------------------------------------------
(* What the walk promises, independently of how it goes.  Beyond an AS is  *)
(* its only exit, if that has a card.                                      *)
Beyond == {e \in graph.edges : e[2] \in NodesOf(graph) /\ ExitsOf(graph, e[1]) = {e[2]}}

(* The chain of an AS: the ASes reached from it by going beyond again and  *)
(* again, up to the first one of a set if any.  Not the AS itself, unless  *)
(* the chain comes back to it.                                             *)
ClosedSets(a, ends) ==
    LET beyond == Beyond
    IN  {S \in SUBSET NodesOf(graph) :
            \A e \in beyond : e[1] \in {a} \cup (S \ ends) => e[2] \in S}

Chain(a, ends) ==
    LET closed == ClosedSets(a, ends) IN {b \in NodesOf(graph) : \A S \in closed : b \in S}

ChainASes == UNION {Chain(d, {}) : d \in DirectUpstreams}

(* The first AS of a chain that is tier 1 or a direct upstream itself.     *)
Ends == graph.tier1 \cup DirectUpstreams

FirstEnds == UNION {Chain(d, Ends) \cap Ends : d \in DirectUpstreams}

(* The result lists no AS twice, first the direct upstreams, and behind    *)
(* them what findUpstreams means to: the whole chain of a single upstream, *)
(* or the first tier 1 AS on the chain of each of several, whether or not  *)
(* the chains meet.                                                        *)
UpstreamsOfChains ==
    /\ Cardinality(Listed) = Len(upstreams)
    /\ stage = "ok" =>
          /\ DirectUpstreams = ExitsOf(graph, TargetOf(graph)) \cap NodesOf(graph)
          /\ Listed = DirectUpstreams \cup (IF Single THEN ChainASes ELSE FirstEnds)

(* A ring of ASes, none of them tier 1 or listed, each with the next one   *)
(* as its only exit: behind several direct upstreams nothing remembers     *)
(* that the walk has been there.                                           *)
InRing ==
    /\ stage = "walk" /\ ~Single
    /\ current \in Chain(current, {})
    /\ Chain(current, {}) \cap (Listed \cup graph.tier1) = {}
=============================================================================
