------------------------ MODULE RouteEvidence_proofs ------------------------
(***************************************************************************)
(* Proofs about RouteEvidence, for every value of its constants: any       *)
(* number of attempts and replies, any addresses, and whatever AS each of  *)
(* them belongs to.                                                        *)
(***************************************************************************)
EXTENDS RouteEvidence, SequenceTheorems, FiniteSetTheorems, WellFoundedInduction, TLAPS

-----------------------------------------------------------------------------
(* Numbers: a set of them has a least one, a sequence of them a bound, and *)
(* so the operators Min and Max mean what they say.                        *)
LEMMA LeastNumber ==
    ASSUME NEW S \in SUBSET Nat, S # {}
    PROVE  \E m \in S : \A x \in S : m <= x
<1>1. PICK m \in S : \A x \in S : ~(<<x, m>> \in OpToRel(<, Nat))
  BY NatLessThanWellFounded, WFMin
<1>2. \A x \in S : ~(x < m)
  BY <1>1 DEF OpToRel
<1> QED
  BY <1>2

LEMMA MinIsLeast ==
    ASSUME NEW S \in SUBSET Nat, S # {}
    PROVE  Min(S) \in S /\ \A x \in S : Min(S) <= x
BY LeastNumber DEF Min

LEMMA Bounded ==
    ASSUME NEW n \in Nat, NEW f, \A i \in 1 .. n : f[i] \in Nat
    PROVE  \E b \in Nat : \A i \in 1 .. n : f[i] <= b
<1> DEFINE BoundedTo(j) == \E b \in Nat : \A i \in 1 .. j : f[i] <= b
           Unbounded == {j \in 0 .. n : ~BoundedTo(j)}
<1>1. BoundedTo(0)
  <2>1. \A i \in 1 .. 0 : f[i] <= 0
    OBVIOUS
  <2> QED
    BY <2>1
<1>2. ASSUME NEW j \in 1 .. n, BoundedTo(j - 1)
      PROVE  BoundedTo(j)
  <2>1. PICK b \in Nat : \A i \in 1 .. j - 1 : f[i] <= b
    BY <1>2
  <2>2. f[j] \in Nat /\ b + f[j] \in Nat
    OBVIOUS
  <2>3. \A i \in 1 .. j : f[i] <= b + f[j]
    <3> TAKE i \in 1 .. j
    <3>1. CASE i = j
      BY <2>2, <3>1
    <3>2. CASE i # j
      <4>1. i \in 1 .. j - 1 /\ i \in 1 .. n
        BY <3>2
      <4> QED
        BY <2>1, <2>2, <4>1
    <3> QED
      BY <3>1, <3>2
  <2> QED
    BY <2>2, <2>3
<1> HIDE DEF BoundedTo
<1>3. Unbounded = {}
  <2> SUFFICES ASSUME Unbounded # {} PROVE FALSE
    OBVIOUS
  <2>0. Unbounded \in SUBSET Nat
    OBVIOUS
  <2>1. PICK j \in Unbounded : \A k \in Unbounded : j <= k
    BY <2>0, LeastNumber
  <2>2. j \in 1 .. n
    BY <1>1, <2>1
  <2>3. j - 1 \in 0 .. n /\ j - 1 \notin Unbounded
    BY <2>1, <2>2
  <2> QED
    BY <1>2, <2>1, <2>2, <2>3
<1>4. BoundedTo(n)
  BY <1>3
<1> QED
  BY <1>4 DEF BoundedTo

LEMMA MaxIsGreatest ==
    ASSUME NEW S \in SUBSET Nat, S # {}, NEW b \in Nat, \A x \in S : x <= b
    PROVE  Max(S) \in S /\ \A x \in S : x <= Max(S)
<1> DEFINE Bounds == {u \in Nat : \A x \in S : x <= u}
<1>1. PICK m \in Bounds : \A u \in Bounds : m <= u
  BY LeastNumber
<1>2. m \in S
  <2> SUFFICES ASSUME m \notin S PROVE FALSE
    OBVIOUS
  <2>1. \A x \in S : x \in Nat /\ x <= m /\ x # m
    BY <1>1
  <2>2. m \in Nat /\ m # 0
    <3>1. PICK x \in S : TRUE
      OBVIOUS
    <3>2. x \in Nat /\ x <= m /\ x # m /\ m \in Nat
      BY <1>1, <2>1
    <3> QED
      BY <3>2
  <2>3. m - 1 \in Bounds
    BY <2>1, <2>2
  <2> QED
    BY <1>1, <2>2, <2>3
<1>3. \A x \in S : m >= x
  BY <1>1
<1> QED
  BY <1>2, <1>3 DEF Max

-----------------------------------------------------------------------------
(* A sequence, of whatever elements.                                       *)
IsSeq(s) == s \in Seq({s[i] : i \in 1 .. Len(s)})

LEMMA SeqLen ==
    ASSUME NEW s, IsSeq(s)
    PROVE  Len(s) \in Nat /\ DOMAIN s = 1 .. Len(s)
BY DEF IsSeq

LEMMA SeqOf ==
    ASSUME NEW n \in Nat, NEW s, DOMAIN s = 1 .. n, s = [i \in 1 .. n |-> s[i]]
    PROVE  IsSeq(s) /\ Len(s) = n
<1>1. s \in [1 .. n -> {s[i] : i \in 1 .. n}]
  OBVIOUS
<1>2. s \in Seq({s[i] : i \in 1 .. n})
  BY <1>1
<1>3. Len(s) = n
  BY <1>2
<1> QED
  BY <1>2, <1>3 DEF IsSeq

LEMMA SeqFunction ==
    ASSUME NEW S, NEW s \in Seq(S)
    PROVE  Len(s) \in Nat /\ s \in [1 .. Len(s) -> S]
OBVIOUS

LEMMA AppendIsSeq ==
    ASSUME NEW s, IsSeq(s), NEW x
    PROVE  /\ IsSeq(Append(s, x)) /\ Len(Append(s, x)) = Len(s) + 1
           /\ \A i \in 1 .. Len(s) : Append(s, x)[i] = s[i]
           /\ Append(s, x)[Len(s) + 1] = x
<1> DEFINE S == {s[i] : i \in 1 .. Len(s)} \cup {x}
<1>1. s \in Seq(S)
  BY DEF IsSeq
<1> HIDE DEF S
<1>2. x \in S
  BY DEF S
<1>a. Len(s) \in Nat
  BY <1>1
<1>3. /\ Append(s, x) \in Seq(S) /\ Len(Append(s, x)) = Len(s) + 1
      /\ \A i \in 1 .. Len(s) : Append(s, x)[i] = s[i]
      /\ Append(s, x)[Len(s) + 1] = x
  BY <1>1, <1>2, AppendProperties
<1>4. Append(s, x) \in [1 .. Len(s) + 1 -> S] /\ Len(s) + 1 \in Nat
  BY <1>a, <1>3, SeqFunction
<1>5. IsSeq(Append(s, x))
  BY <1>4, SeqOf
<1> QED
  BY <1>3, <1>5

LEMMA PrefixIsSeq ==
    ASSUME NEW s, IsSeq(s), NEW n \in 0 .. Len(s)
    PROVE  /\ IsSeq(SubSeq(s, 1, n)) /\ Len(SubSeq(s, 1, n)) = n
           /\ \A i \in 1 .. n : SubSeq(s, 1, n)[i] = s[i]
<1> DEFINE S == {s[i] : i \in 1 .. Len(s)}
<1>1. s \in Seq(S)
  BY DEF IsSeq
<1> HIDE DEF S
<1>2. n \in Nat /\ n <= Len(s)
  BY <1>1
<1>3. /\ SubSeq(s, 1, n) \in Seq(S) /\ Len(SubSeq(s, 1, n)) = n
      /\ \A i \in 1 .. n : SubSeq(s, 1, n)[i] = s[i]
  BY <1>1, <1>2, SubSeqProperties
<1>4. SubSeq(s, 1, n) \in [1 .. n -> S]
  BY <1>3, SeqFunction
<1> QED
  BY <1>2, <1>3, <1>4, SeqOf
-----------------------------------------------------------------------------
(* The nodes of a distance: each address is there once.                    *)
RawNode == [ip : Nodes, rtts : Nat]

Distinct(nodes) == \A j, k \in 1 .. Len(nodes) : nodes[j].ip = nodes[k].ip => j = k

LEMMA AddNodeKeeps ==
    ASSUME NEW nodes \in Seq(RawNode), Distinct(nodes), NEW ip \in Nodes
    PROVE  AddNode(nodes, ip) \in Seq(RawNode) /\ Distinct(AddNode(nodes, ip))
<1>0. Len(nodes) \in Nat /\ \A i \in 1 .. Len(nodes) : nodes[i] \in RawNode
  OBVIOUS
<1>1. CASE \E i \in 1 .. Len(nodes) : nodes[i].ip = ip
  <2> DEFINE grown(i) == IF nodes[i].ip = ip THEN [nodes[i] EXCEPT !.rtts = @ + 1] ELSE nodes[i]
             after == [i \in 1 .. Len(nodes) |-> grown(i)]
  <2>1. \A i \in 1 .. Len(nodes) : grown(i) \in RawNode /\ grown(i).ip = nodes[i].ip
    BY <1>0 DEF RawNode
  <2> HIDE DEF grown
  <2>2. after \in [1 .. Len(nodes) -> RawNode]
    BY <2>1
  <2>3. after \in Seq(RawNode) /\ Len(after) = Len(nodes)
    BY <1>0, <2>2
  <2>4. \A i \in 1 .. Len(nodes) : after[i].ip = nodes[i].ip
    BY <2>1
  <2> HIDE DEF after
  <2>5. Distinct(after)
    BY <2>3, <2>4 DEF Distinct
  <2>6. AddNode(nodes, ip) = after
    BY <1>1 DEF AddNode, after, grown
  <2> QED
    BY <2>3, <2>5, <2>6
<1>2. CASE ~ \E i \in 1 .. Len(nodes) : nodes[i].ip = ip
  <2> DEFINE new == [ip |-> ip, rtts |-> 1]
             after == Append(nodes, new)
  <2>1. new \in RawNode /\ new.ip = ip
    BY DEF RawNode
  <2> HIDE DEF new
  <2>2. /\ after \in Seq(RawNode) /\ Len(after) = Len(nodes) + 1
        /\ \A i \in 1 .. Len(nodes) : after[i] = nodes[i]
        /\ after[Len(nodes) + 1] = new
    BY <2>1, AppendProperties
  <2> HIDE DEF after
  <2>3. Distinct(after)
    <3> SUFFICES ASSUME NEW j \in 1 .. Len(after), NEW k \in 1 .. Len(after),
                        after[j].ip = after[k].ip
                 PROVE  j = k
      BY DEF Distinct
    <3>1. CASE j \in 1 .. Len(nodes) /\ k \in 1 .. Len(nodes)
      BY <2>2, <3>1 DEF Distinct
    <3>2. CASE j = Len(nodes) + 1 /\ k \in 1 .. Len(nodes)
      BY <1>2, <2>1, <2>2, <3>2
    <3>3. CASE k = Len(nodes) + 1 /\ j \in 1 .. Len(nodes)
      BY <1>2, <2>1, <2>2, <3>3
    <3> QED
      BY <1>0, <2>2, <3>1, <3>2, <3>3
  <2>4. AddNode(nodes, ip) = after
    BY <1>2 DEF AddNode, after, new
  <2> QED
    BY <2>2, <2>3, <2>4
<1> QED
  BY <1>1, <1>2

-----------------------------------------------------------------------------
(* The rank of a distance grows with it, and every rank up to the number   *)
(* of distances is taken: Nth is well defined.                             *)
LEMMA RankGrows ==
    ASSUME NEW ds \in SUBSET Nat, IsFiniteSet(ds), NEW d \in ds, NEW e \in ds, d < e
    PROVE  Rank(ds, d) < Rank(ds, e)
<1> DEFINE below(x) == {y \in ds : y <= x}
<1>1. IsFiniteSet(below(d)) /\ IsFiniteSet(below(e))
  BY FS_Subset
<1>2. below(d) \in SUBSET below(e) /\ e \in below(e) /\ e \notin below(d)
  <2>1. d \in Nat /\ e \in Nat /\ \A y \in ds : y \in Nat
    OBVIOUS
  <2>2. \A y \in ds : y <= d => y <= e
    BY <2>1
  <2>3. e <= e /\ ~(e <= d)
    BY <2>1
  <2> QED
    BY <2>2, <2>3
<1> HIDE DEF below
<1>3. /\ Cardinality(below(d)) <= Cardinality(below(e))
      /\ Cardinality(below(d)) # Cardinality(below(e))
  BY <1>1, <1>2, FS_Subset
<1>4. Cardinality(below(d)) \in Nat /\ Cardinality(below(e)) \in Nat
  BY <1>1, FS_CardinalityType
<1> QED
  BY <1>3, <1>4 DEF Rank, below

LEMMA RankInRange ==
    ASSUME NEW ds \in SUBSET Nat, IsFiniteSet(ds), NEW d \in ds
    PROVE  Rank(ds, d) \in 1 .. Cardinality(ds)
<1> DEFINE below == {y \in ds : y <= d}
<1>1. below \in SUBSET ds /\ d \in below
  OBVIOUS
<1> HIDE DEF below
<1>2. IsFiniteSet(below) /\ Cardinality(below) <= Cardinality(ds)
  BY <1>1, FS_Subset
<1>3. Cardinality(below) \in Nat /\ Cardinality(ds) \in Nat
  BY <1>2, FS_CardinalityType
<1>4. Cardinality(below) # 0
  BY <1>1, <1>2, FS_EmptySet
<1> QED
  BY <1>2, <1>3, <1>4 DEF Rank, below

LEMMA NthHasRank ==
    ASSUME NEW ds \in SUBSET Nat, IsFiniteSet(ds), NEW i \in 1 .. Cardinality(ds)
    PROVE  Nth(ds, i) \in ds /\ Rank(ds, Nth(ds, i)) = i
<1> DEFINE T == 1 .. Cardinality(ds)
           rank == [d \in ds |-> Rank(ds, d)]
<1>1. Cardinality(ds) \in Nat
  BY FS_CardinalityType
<1>2. IsFiniteSet(T) /\ Cardinality(T) = Cardinality(ds)
  BY <1>1, FS_Interval
<1>3. rank \in [ds -> T]
  BY RankInRange
<1>4. \A d, e \in ds : rank[d] = rank[e] => d = e
  <2> SUFFICES ASSUME NEW d \in ds, NEW e \in ds, Rank(ds, d) = Rank(ds, e), d # e
               PROVE  FALSE
    OBVIOUS
  <2>1. d < e \/ e < d
    OBVIOUS
  <2>2. Rank(ds, d) \in Nat
    BY RankInRange
  <2> QED
    BY <2>1, <2>2, RankGrows
<1>5. rank \in Injection(ds, T)
  BY <1>3, <1>4 DEF Injection, IsInjective
<1>6. rank \in Surjection(ds, T)
  BY <1>2, <1>5, FS_Injection
<1>7. \E d \in ds : Rank(ds, d) = i
  BY <1>6 DEF Surjection
<1> QED
  BY <1>7 DEF Nth

-----------------------------------------------------------------------------
(* The hops of a path before and after the hops of the target at its end   *)
(* become one.                                                             *)
Ascending(path) ==
    \A i, j \in 1 .. Len(path) : i < j => path[i].distance < path[j].distance

HopOK(hop) ==
    /\ hop = [distance |-> hop.distance, nodes |-> hop.nodes]
    /\ hop.distance \in Nat /\ hop.nodes \in Seq(RawNode) /\ hop.nodes # <<>>
    /\ Distinct(hop.nodes)

SortedPath(path) ==
    IsSeq(path) /\ Ascending(path) /\ \A i \in 1 .. Len(path) : HopOK(path[i])

TargetLast(path) ==
    \A i \in 1 .. Len(path) - 1 :
        /\ TargetOnly(path[i]) /\ TargetOnly(path[i + 1])
        /\ \E k \in 1 .. Len(path) : ~TargetOnly(path[k])
        => \E j \in i + 2 .. Len(path) : ~TargetOnly(path[j])

PathOK(path) ==
    /\ IsSeq(path) /\ Ascending(path) /\ TargetLast(path)
    /\ \A i \in 1 .. Len(path) : Distinct(path[i].nodes)

LEMMA SortedSorts ==
    ASSUME NEW found \in [Distances -> Seq(RawNode)], \A d \in Distances : Distinct(found[d])
    PROVE  SortedPath(Sorted(found))
<1> DEFINE ds == Touched(found)
           n == Cardinality(ds)
           hop(i) == [distance |-> Nth(ds, i), nodes |-> found[Nth(ds, i)]]
           path == Sorted(found)
<1>1. ds \in SUBSET Nat /\ ds \in SUBSET Distances /\ \A d \in ds : found[d] # <<>>
  BY ReplyAssumption DEF Touched
<1>2. IsFiniteSet(ds)
  BY <1>1, ReplyAssumption, FS_Subset
<1>3. n \in Nat
  BY <1>2, FS_CardinalityType
<1>4. path = [i \in 1 .. n |-> hop(i)]
  BY DEF Sorted
<1> HIDE DEF ds, path
<1>5. \A i \in 1 .. n : Nth(ds, i) \in ds /\ Rank(ds, Nth(ds, i)) = i
  BY <1>1, <1>2, NthHasRank
<1>6. \A i \in 1 .. n : /\ path[i] = [distance |-> path[i].distance, nodes |-> path[i].nodes]
                        /\ path[i].distance = Nth(ds, i) /\ path[i].nodes = found[Nth(ds, i)]
  BY <1>4
<1>7. IsSeq(path) /\ Len(path) = n
  BY <1>3, <1>4, SeqOf
<1>8. ASSUME NEW i \in 1 .. n
      PROVE  HopOK(path[i])
  <2>1. Nth(ds, i) \in Distances /\ Nth(ds, i) \in Nat /\ found[Nth(ds, i)] # <<>>
    BY <1>1, <1>5
  <2>2. found[Nth(ds, i)] \in Seq(RawNode) /\ Distinct(found[Nth(ds, i)])
    BY <2>1
  <2> QED
    BY <1>6, <2>1, <2>2 DEF HopOK
<1>9. Ascending(path)
  <2> SUFFICES ASSUME NEW i \in 1 .. n, NEW j \in 1 .. n, i < j, ~(Nth(ds, i) < Nth(ds, j))
               PROVE  FALSE
    BY <1>6, <1>7 DEF Ascending
  <2>1. Nth(ds, i) \in ds /\ Nth(ds, j) \in ds /\ Nth(ds, i) \in Nat /\ Nth(ds, j) \in Nat
    BY <1>1, <1>5
  <2>2. Nth(ds, i) = Nth(ds, j) \/ Nth(ds, j) < Nth(ds, i)
    BY <2>1
  <2>3. Rank(ds, Nth(ds, j)) <= Rank(ds, Nth(ds, i))
    <3>1. CASE Nth(ds, i) = Nth(ds, j)
      BY <1>5, <3>1
    <3>2. CASE Nth(ds, j) < Nth(ds, i)
      BY <1>1, <1>2, <1>5, <2>1, <3>2, RankGrows
    <3> QED
      BY <2>2, <3>1, <3>2
  <2> QED
    BY <1>5, <2>3
<1> QED
  BY <1>7, <1>8, <1>9 DEF SortedPath, path
LEMMA CollapseCases ==
    ASSUME NEW path, Others(path) # {}, NEW first, first = Max(Others(path)) + 1
    PROVE  /\ first > Len(path) => Collapse(path) = path
           /\ ~(first > Len(path)) =>
                 Collapse(path) = Append(SubSeq(path, 1, first - 1), Joined(path, first))
BY DEF Collapse

LEMMA CollapseKeeps ==
    ASSUME NEW path, SortedPath(path)
    PROVE  PathOK(Collapse(path))
<1> DEFINE m == Max(Others(path))
           last == Joined(path, m + 1)
<1>1. IsSeq(path) /\ Ascending(path) /\ Len(path) \in Nat
      /\ \A i \in 1 .. Len(path) : HopOK(path[i])
  BY SeqLen DEF SortedPath
<1>2. \A i \in 1 .. Len(path) : Distinct(path[i].nodes)
  BY <1>1 DEF HopOK
<1>3. CASE Others(path) = {}
  <2>1. Collapse(path) = path
    BY <1>3 DEF Collapse
  <2>2. TargetLast(path)
    BY <1>3 DEF TargetLast, Others
  <2> QED
    BY <1>1, <1>2, <2>1, <2>2 DEF PathOK
<1>4. CASE Others(path) # {}
  <2>1. Others(path) \in SUBSET Nat /\ Others(path) \in SUBSET (1 .. Len(path))
    BY <1>1 DEF Others
  <2>2. m \in Others(path) /\ \A x \in Others(path) : x <= m
    <3>1. \A x \in Others(path) : x <= Len(path)
      BY <2>1
    <3> QED
      BY <1>1, <1>4, <2>1, <3>1, MaxIsGreatest
  <2>3. m \in 1 .. Len(path) /\ ~TargetOnly(path[m])
    BY <2>2 DEF Others
  <2>4. /\ m + 1 > Len(path) => Collapse(path) = path
        /\ ~(m + 1 > Len(path)) => Collapse(path) = Append(SubSeq(path, 1, m), last)
    <3>1. PICK first : first = m + 1
      OBVIOUS
    <3>2. first = Max(Others(path)) + 1
      BY <3>1
    <3> HIDE DEF m
    <3>3. /\ first > Len(path) => Collapse(path) = path
          /\ ~(first > Len(path)) =>
                Collapse(path) = Append(SubSeq(path, 1, first - 1), Joined(path, first))
      BY <1>4, <3>2, CollapseCases
    <3>4. first - 1 = m
      BY <1>1, <2>3, <3>1
    <3> QED
      BY <3>1, <3>3, <3>4
  <2>5. \A i \in 1 .. Len(path) : i > m => TargetOnly(path[i])
    BY <1>1, <2>2, <2>3 DEF Others
  <2> HIDE DEF m
  <2>6. CASE m + 1 > Len(path)
    <3>1. m = Len(path) /\ Collapse(path) = path
      BY <1>1, <1>4, <2>3, <2>4, <2>6
    <3>2. TargetLast(path)
      <4> SUFFICES ASSUME NEW i \in 1 .. Len(path) - 1,
                          TargetOnly(path[i]), TargetOnly(path[i + 1])
                   PROVE  \E j \in i + 2 .. Len(path) : ~TargetOnly(path[j])
        BY DEF TargetLast
      <4>1. i + 1 # m
        BY <2>3
      <4>2. m \in i + 2 .. Len(path)
        BY <1>1, <2>3, <3>1, <4>1
      <4> QED
        BY <2>3, <4>2
    <3> QED
      BY <1>1, <1>2, <3>1, <3>2 DEF PathOK
  <2>7. CASE m + 1 <= Len(path)
    <3> DEFINE head == SubSeq(path, 1, m)
               q == Append(head, last)
    <3>1. m + 1 - 1 = m /\ ~(m + 1 > Len(path)) /\ m \in 0 .. Len(path) /\ m \in Nat
          /\ m + 1 \in 1 .. Len(path)
      BY <1>1, <2>3, <2>7
    <3>2. Collapse(path) = q
      BY <1>4, <2>4, <3>1
    <3>3. HopOK(path[m + 1]) /\ TargetOnly(path[m + 1])
      BY <1>1, <2>5, <3>1
    <3>4. last.distance = path[m + 1].distance /\ Distinct(last.nodes)
      <4>1. last.distance = path[m + 1].distance
        BY <3>3 DEF HopOK, Joined
      <4>2. DOMAIN path[m + 1].nodes = 1 .. 1 /\ Len(path[m + 1].nodes) = 1
        BY <3>3 DEF HopOK, TargetOnly
      <4>3. DOMAIN last.nodes = 1 .. 1 /\ last.nodes = [i \in 1 .. 1 |-> last.nodes[i]]
        BY <3>3, <4>2 DEF HopOK, Joined
      <4> HIDE DEF last
      <4>4. Len(last.nodes) = 1
        BY <4>3, SeqOf
      <4> QED
        BY <4>1, <4>4 DEF Distinct
    <3> HIDE DEF last
    <3>5. IsSeq(head) /\ Len(head) = m /\ \A i \in 1 .. m : head[i] = path[i]
      BY <1>1, <3>1, PrefixIsSeq
    <3> HIDE DEF head
    <3>6. IsSeq(q) /\ Len(q) = m + 1 /\ (\A i \in 1 .. m : q[i] = head[i]) /\ q[m + 1] = last
      BY <3>5, AppendIsSeq
    <3> HIDE DEF q
    <3>7. \A i \in 1 .. m + 1 : q[i].distance = path[i].distance /\ Distinct(q[i].nodes)
      <4> TAKE i \in 1 .. m + 1
      <4>1. CASE i = m + 1
        BY <3>4, <3>6, <4>1
      <4>2. CASE i # m + 1
        <5>1. i \in 1 .. m /\ i \in 1 .. Len(path)
          BY <3>1, <4>2
        <5> QED
          BY <1>2, <3>5, <3>6, <5>1
      <4> QED
        BY <4>1, <4>2
    <3>8. Ascending(q)
      BY <1>1, <3>1, <3>6, <3>7 DEF Ascending
    <3>9. TargetLast(q)
      <4> SUFFICES ASSUME NEW i \in 1 .. m, TargetOnly(q[i]), TargetOnly(q[i + 1])
                   PROVE  \E j \in i + 2 .. m + 1 : ~TargetOnly(q[j])
        BY <3>1, <3>6 DEF TargetLast
      <4>1. q[m] = path[m] /\ ~TargetOnly(q[m])
        BY <2>3, <3>1, <3>5, <3>6
      <4>2. i # m /\ i + 1 # m
        BY <4>1
      <4>3. m \in i + 2 .. m + 1
        BY <3>1, <4>2
      <4> QED
        BY <4>1, <4>3
    <3> QED
      BY <3>2, <3>6, <3>7, <3>8, <3>9 DEF PathOK
  <2> QED
    BY <1>1, <2>3, <2>6, <2>7
<1> QED
  BY <1>3, <1>4

-----------------------------------------------------------------------------
(* The nodes of the trace under way list each address once; the successful *)
(* attempts are paths; and a report that has been made was made from them, *)
(* after which they do not change.                                         *)
HopsInv == hops \in [Distances -> Seq(RawNode)] /\ \A d \in Distances : Distinct(hops[d])

PathsInv == IsSeq(paths) /\ \A n \in 1 .. Len(paths) : PathOK(paths[n])

Outcome(r) ==
    \E reading \in Readings, merged \in Merges(paths) :
       \E swap \in Swaps(Append(paths, merged), reading) : r = Verdict(merged, reading, swap)

ReportInv ==
    /\ report # NoReport => ~Tracing
    /\ Judged => paths # <<>> /\ Outcome(report)

(* The inductive invariant of the evidence.                                *)
IInv == HopsInv /\ PathsInv /\ ReportInv

LEMMA NoHopsOK == NoHops \in [Distances -> Seq(RawNode)] /\ \A d \in Distances : Distinct(NoHops[d])
BY DEF NoHops, Distinct

LEMMA InitInv == Init => IInv
<1> SUFFICES ASSUME Init PROVE IInv
  OBVIOUS
<1>1. HopsInv
  BY NoHopsOK DEF Init, HopsInv
<1>2. PathsInv
  <2>1. paths = <<>> /\ Len(paths) = 0 /\ IsSeq(paths)
    BY DEF Init, IsSeq
  <2> QED
    BY <2>1 DEF PathsInv
<1>3. ReportInv
  BY DEF Init, ReportInv, NoReport, Judged
<1> QED
  BY <1>1, <1>2, <1>3 DEF IInv

LEMMA TakeReplyKeeps ==
    ASSUME IInv, TakeReply
    PROVE  IInv'
<1>1. UNCHANGED <<ended, paths, report>>
  BY DEF TakeReply
<1>2. PICK r \in Replies : hops' = [hops EXCEPT ![r.hops] = AddNode(hops[r.hops], r.ip)]
  BY DEF TakeReply
<1>3. r.hops \in Distances /\ r.ip \in Nodes
  BY ReplyAssumption DEF Reply
<1>4. AddNode(hops[r.hops], r.ip) \in Seq(RawNode) /\ Distinct(AddNode(hops[r.hops], r.ip))
  BY <1>3, AddNodeKeeps DEF IInv, HopsInv
<1>5. HopsInv'
  BY <1>2, <1>3, <1>4 DEF IInv, HopsInv
<1>6. PathsInv' /\ ReportInv'
  BY <1>1 DEF IInv, PathsInv, ReportInv, Tracing, Judged, Outcome, Verdict
<1> QED
  BY <1>5, <1>6 DEF IInv

LEMMA TraceEndsKeeps ==
    ASSUME IInv, TraceEnds
    PROVE  IInv'
<1>1. hops' = NoHops /\ report' = report /\ paths' = Append(paths, Collapse(Sorted(hops)))
  BY DEF TraceEnds
<1>2. HopsInv'
  BY <1>1, NoHopsOK DEF HopsInv
<1>3. PathOK(Collapse(Sorted(hops)))
  BY SortedSorts, CollapseKeeps DEF IInv, HopsInv
<1>4. IsSeq(paths) /\ Len(paths) \in Nat
  BY SeqLen DEF IInv, PathsInv
<1>5. /\ IsSeq(paths') /\ Len(paths') = Len(paths) + 1
      /\ \A i \in 1 .. Len(paths) : paths'[i] = paths[i]
      /\ paths'[Len(paths) + 1] = Collapse(Sorted(hops))
  BY <1>1, <1>4, AppendIsSeq
<1>6. PathsInv'
  <2>1. ASSUME NEW n \in 1 .. Len(paths')
        PROVE  PathOK(paths'[n])
    <3>1. CASE n = Len(paths) + 1
      BY <1>3, <1>5, <3>1
    <3>2. CASE n # Len(paths) + 1
      <4>1. n \in 1 .. Len(paths)
        BY <1>4, <1>5, <3>2
      <4> QED
        BY <1>5, <4>1 DEF IInv, PathsInv
    <3> QED
      BY <3>1, <3>2
  <2> QED
    BY <1>5, <2>1 DEF PathsInv
<1>7. report = NoReport
  BY DEF TraceEnds, IInv, ReportInv
<1>8. ReportInv'
  BY <1>1, <1>7 DEF ReportInv, NoReport, Judged
<1> QED
  BY <1>2, <1>6, <1>8 DEF IInv

LEMMA TraceFailsKeeps ==
    ASSUME IInv, TraceFails
    PROVE  IInv'
<1>1. hops' = NoHops /\ report' = report /\ paths' = paths
  BY DEF TraceFails
<1>2. HopsInv' /\ PathsInv'
  BY <1>1, NoHopsOK DEF HopsInv, IInv, PathsInv
<1>3. report = NoReport
  BY DEF TraceFails, IInv, ReportInv
<1>4. ReportInv'
  BY <1>1, <1>3 DEF ReportInv, NoReport, Judged
<1> QED
  BY <1>2, <1>4 DEF IInv

LEMMA JudgeKeeps ==
    ASSUME IInv, NothingToJudge \/ Judge
    PROVE  IInv'
<1>1. ~Tracing /\ UNCHANGED <<hops, ended, paths>>
  BY DEF NothingToJudge, Judge
<1>2. HopsInv' /\ PathsInv' /\ ~Tracing'
  BY <1>1 DEF HopsInv, IInv, PathsInv, Tracing
<1>3. CASE NothingToJudge
  BY <1>2, <1>3 DEF NothingToJudge, Unavailable, ReportInv, Judged, IInv
<1>4. CASE Judge
  <2>1. paths # <<>> /\ paths' = paths
    BY <1>4 DEF Judge
  <2>2. Outcome(report')
    BY <1>4 DEF Judge, Outcome
  <2>3. \A r : Outcome(r)' <=> Outcome(r)
    BY <2>1 DEF Outcome, Verdict
  <2> QED
    BY <1>2, <2>1, <2>2, <2>3 DEF ReportInv, IInv
<1> QED
  BY <1>3, <1>4

LEMMA NextKeeps ==
    ASSUME IInv, [Next]_vars
    PROVE  IInv'
<1>1. CASE UNCHANGED vars
  BY <1>1 DEF vars, IInv, HopsInv, PathsInv, ReportInv, Tracing, Judged, Outcome, Verdict
<1>2. CASE Next
  BY <1>1, <1>2, TakeReplyKeeps, TraceEndsKeeps, TraceFailsKeeps, JudgeKeeps DEF Next, Reported
<1> QED
  BY <1>1, <1>2

LEMMA Inductive == Spec => []IInv
<1>1. IInv /\ [Next]_vars => IInv'
  BY NextKeeps
<1> QED
  BY InitInv, <1>1, PTL DEF Spec

(* What the merge and the verdict are given are paths: hops in the order   *)
(* of their distance, without an address twice, and with one hop of the    *)
(* target at the end for all at which only the target replied.             *)
THEOREM PathsOrderedHolds == Spec => []PathsOrdered
<1>1. ASSUME NEW path, PathOK(path)
      PROVE  LET farther == {i \in 1 .. Len(path) - 1 :
                                 TargetOnly(path[i]) /\ TargetOnly(path[i + 1])}
             IN  /\ \A i, j \in 1 .. Len(path) : i < j => path[i].distance < path[j].distance
                 /\ \A i \in 1 .. Len(path) : \A j, k \in 1 .. Len(path[i].nodes) :
                       path[i].nodes[j].ip = path[i].nodes[k].ip => j = k
                 /\ (\E i \in 1 .. Len(path) : ~TargetOnly(path[i])) =>
                       \A i \in farther : \E j \in i + 2 .. Len(path) : ~TargetOnly(path[j])
  BY <1>1 DEF PathOK, Ascending, TargetLast, Distinct
<1>2. IInv => PathsOrdered
  BY <1>1 DEF IInv, PathsInv, PathsOrdered
<1> QED
  BY Inductive, <1>2, PTL
-----------------------------------------------------------------------------
(* mergeHops.  The merged path is as long as the longest one, and each of  *)
(* its hops is the hop that some attempt had at this position.             *)
LEMMA LongestIsLongest ==
    ASSUME PathsInv, paths # <<>>
    PROVE  /\ Longest(paths) \in Nat
           /\ \A n \in 1 .. Len(paths) : Len(paths[n]) \in Nat /\ Len(paths[n]) <= Longest(paths)
           /\ \E n \in 1 .. Len(paths) : Len(paths[n]) = Longest(paths)
<1> DEFINE lens == {Len(paths[n]) : n \in 1 .. Len(paths)}
<1>1. \A n \in 1 .. Len(paths) : Len(paths[n]) \in Nat
  BY SeqLen DEF PathsInv, PathOK
<1>2. Len(paths) \in Nat /\ Len(paths) # 0
  <2>1. Len(paths) \in Nat
    BY SeqLen DEF PathsInv
  <2>2. paths \in Seq({paths[i] : i \in 1 .. Len(paths)})
    BY DEF PathsInv, IsSeq
  <2> QED
    BY <2>1, <2>2, EmptySeq
<1>3. \E b \in Nat : \A n \in 1 .. Len(paths) : Len(paths[n]) <= b
  <2> DEFINE f == [n \in 1 .. Len(paths) |-> Len(paths[n])]
  <2>1. \A n \in 1 .. Len(paths) : f[n] \in Nat
    BY <1>1
  <2> HIDE DEF f
  <2>2. \E b \in Nat : \A n \in 1 .. Len(paths) : f[n] <= b
    BY <1>2, <2>1, Bounded
  <2> QED
    BY <2>2 DEF f
<1>4. PICK b \in Nat : \A x \in lens : x <= b
  BY <1>3
<1>5. lens \in SUBSET Nat /\ lens # {}
  <2>1. Len(paths[1]) \in lens
    BY <1>2
  <2>2. lens \in SUBSET Nat
    BY <1>1
  <2> HIDE DEF lens
  <2> QED
    BY <2>1, <2>2
<1>6. Longest(paths) = Max(lens)
  BY DEF Longest
<1> HIDE DEF lens
<1>7. Max(lens) \in lens /\ \A x \in lens : x <= Max(lens)
  BY <1>4, <1>5, MaxIsGreatest
<1> QED
  BY <1>1, <1>5, <1>6, <1>7 DEF lens

(* Who had the first of some hops.                                         *)
LEMMA FirstIsOne ==
    ASSUME NEW all, NEW pos, NEW attempts \in SUBSET Nat, attempts # {}
    PROVE  Min(attempts) \in attempts /\ FirstOf(all, pos, attempts) = all[Min(attempts)][pos]
BY MinIsLeast DEF FirstOf

LEMMA HopIsSeen ==
    ASSUME NEW all, NEW pos, Available(all, pos) # {}, NEW hop \in HopsAt(all, pos)
    PROVE  \E i \in Available(all, pos) : hop = all[i][pos]
<1> DEFINE keys == {Key(all[i][pos]) : i \in Available(all, pos)}
<1>1. Available(all, pos) \in SUBSET Nat
  BY DEF Available
<1>2. \A k \in keys : Backing(all, pos, k) # {} /\ Backing(all, pos, k) \in SUBSET Nat
                      /\ Backing(all, pos, k) \in SUBSET Available(all, pos)
  BY <1>1 DEF Backing
<1>3. \/ \E k \in keys : hop = FirstOf(all, pos, Backing(all, pos, k))
      \/ hop = FirstOf(all, pos, Available(all, pos))
  BY DEF HopsAt, FirstArrived
<1>4. CASE hop = FirstOf(all, pos, Available(all, pos))
  BY <1>1, <1>4, FirstIsOne
<1>5. ASSUME NEW k \in keys, hop = FirstOf(all, pos, Backing(all, pos, k))
      PROVE  \E i \in Available(all, pos) : hop = all[i][pos]
  BY <1>2, <1>5, FirstIsOne
<1> QED
  BY <1>3, <1>4, <1>5

LEMMA MergedHops ==
    ASSUME PathsInv, paths # <<>>, NEW merged \in Merges(paths)
    PROVE  /\ Len(merged) = Longest(paths)
           /\ \A pos \in 1 .. Len(merged) :
                 /\ merged[pos] \in HopsAt(paths, pos)
                 /\ \E i \in 1 .. Len(paths) :
                       pos \in 1 .. Len(paths[i]) /\ merged[pos] = paths[i][pos]
<1>1. PICK S : merged \in [1 .. Longest(paths) -> S]
  BY DEF Merges
<1>2. \A pos \in 1 .. Longest(paths) : merged[pos] \in HopsAt(paths, pos)
  BY DEF Merges
<1>3. Longest(paths) \in Nat
  BY LongestIsLongest
<1>4. Len(merged) = Longest(paths)
  BY <1>1, <1>3
<1>5. ASSUME NEW pos \in 1 .. Longest(paths)
      PROVE  \E i \in 1 .. Len(paths) : pos \in 1 .. Len(paths[i]) /\ merged[pos] = paths[i][pos]
  <2>1. \A n \in 1 .. Len(paths) : Len(paths[n]) \in Nat
    BY LongestIsLongest
  <2>2. Available(paths, pos) # {}
    <3>1. PICK n \in 1 .. Len(paths) : Len(paths[n]) = Longest(paths)
      BY LongestIsLongest
    <3> QED
      BY <1>3, <3>1 DEF Available
  <2>3. PICK i \in Available(paths, pos) : merged[pos] = paths[i][pos]
    BY <1>2, <2>2, HopIsSeen
  <2> QED
    BY <2>1, <2>3 DEF Available
<1> QED
  BY <1>2, <1>4, <1>5
(* More than half of the attempts going over the same routers outvote the  *)
(* others at every hop of theirs.                                          *)
LEMMA MajorityHop ==
    ASSUME PathsInv, NEW n \in 1 .. Len(paths), NEW pos \in 1 .. Len(paths[n]),
           2 * Cardinality({i \in 1 .. Len(paths) : Routers(paths[i]) = Routers(paths[n])})
               > Len(paths),
           NEW hop \in HopsAt(paths, pos)
    PROVE  Key(hop) = Key(paths[n][pos])
<1> DEFINE same == {i \in 1 .. Len(paths) : Routers(paths[i]) = Routers(paths[n])}
           key == Key(paths[n][pos])
           keys == {Key(paths[i][pos]) : i \in Available(paths, pos)}
           Votes(k) == Cardinality(Backing(paths, pos, k))
           most == {k \in keys : \A other \in keys : Votes(other) <= Votes(k)}
<1>1. Len(paths) \in Nat /\ \A i \in 1 .. Len(paths) : Len(paths[i]) \in Nat
  BY SeqLen DEF PathsInv, PathOK
<1>2. ASSUME NEW i \in same
      PROVE  i \in Backing(paths, pos, key)
  <2>1. Routers(paths[i]) = Routers(paths[n]) /\ i \in 1 .. Len(paths)
    OBVIOUS
  <2>2. 1 .. Len(paths[i]) = 1 .. Len(paths[n])
    BY <2>1 DEF Routers
  <2>3. Len(paths[i]) = Len(paths[n])
    BY <1>1, <2>1, <2>2
  <2>4. Key(paths[i][pos]) = Key(paths[n][pos])
    BY <2>1, <2>3 DEF Routers
  <2> QED
    BY <1>1, <2>1, <2>3, <2>4 DEF Backing, Available
<1>3. IsFiniteSet(1 .. Len(paths)) /\ Cardinality(1 .. Len(paths)) = Len(paths)
  <2>1. 1 \in Int /\ Len(paths) \in Int /\ ~(1 > Len(paths)) /\ Len(paths) - 1 + 1 = Len(paths)
    BY <1>1
  <2>2. /\ IsFiniteSet(1 .. Len(paths))
        /\ Cardinality(1 .. Len(paths)) = IF 1 > Len(paths) THEN 0 ELSE Len(paths) - 1 + 1
    BY <2>1, FS_Interval
  <2> QED
    BY <2>1, <2>2
<1>4. same \in SUBSET (1 .. Len(paths)) /\ n \in same /\ same \in SUBSET Backing(paths, pos, key)
  BY <1>2
<1>5. \A k : Backing(paths, pos, k) \in SUBSET (1 .. Len(paths))
  BY DEF Backing, Available
<1>6. IsFiniteSet(same) /\ \A k : IsFiniteSet(Backing(paths, pos, k))
  BY <1>3, <1>4, <1>5, FS_Subset
<1>7. Cardinality(same) \in Nat /\ \A k : Votes(k) \in Nat
  BY <1>6, FS_CardinalityType
<1>8. Cardinality(same) <= Votes(key) /\ 2 * Cardinality(same) > Len(paths)
  BY <1>4, <1>6, FS_Subset
<1> HIDE DEF same
<1>9. ASSUME NEW k, k # key
      PROVE  Votes(k) < Votes(key)
  <2>1. Backing(paths, pos, k) \cap Backing(paths, pos, key) = {}
    BY <1>9 DEF Backing
  <2>2. Cardinality(Backing(paths, pos, k) \cup Backing(paths, pos, key)) = Votes(k) + Votes(key) - 0
    BY <1>6, <2>1, FS_Union, FS_EmptySet
  <2>3. Cardinality(Backing(paths, pos, k) \cup Backing(paths, pos, key)) <= Len(paths)
    <3>1. Backing(paths, pos, k) \cup Backing(paths, pos, key) \in SUBSET (1 .. Len(paths))
      BY <1>5
    <3> QED
      BY <1>3, <3>1, FS_Subset
  <2> QED
    BY <1>1, <1>7, <1>8, <2>2, <2>3
<1>10. n \in Available(paths, pos) /\ key \in keys
  BY <1>1 DEF Available
<1>11. most \subseteq {key}
  <2> SUFFICES ASSUME NEW k \in most, k # key PROVE FALSE
    OBVIOUS
  <2>1. Votes(key) <= Votes(k)
    BY <1>10
  <2>2. Votes(k) < Votes(key)
    BY <1>9
  <2> HIDE DEF Votes
  <2> QED
    BY <1>7, <2>1, <2>2
<1>12. Backing(paths, pos, key) # {} /\ Backing(paths, pos, key) \in SUBSET Nat
  BY <1>4, <1>5
<1>13. Key(FirstOf(paths, pos, Backing(paths, pos, key))) = key
  <2>1. /\ Min(Backing(paths, pos, key)) \in Backing(paths, pos, key)
        /\ FirstOf(paths, pos, Backing(paths, pos, key))
              = paths[Min(Backing(paths, pos, key))][pos]
    BY <1>12, FirstIsOne
  <2> QED
    BY <2>1 DEF Backing
<1>14. CASE \E k \in keys : Votes(k) > 1
  <2>1. HopsAt(paths, pos) = {FirstOf(paths, pos, Backing(paths, pos, k)) : k \in most}
    BY <1>14 DEF HopsAt
  <2>2. PICK k \in most : hop = FirstOf(paths, pos, Backing(paths, pos, k))
    BY <2>1
  <2>3. k = key
    BY <1>11, <2>2
  <2> QED
    BY <1>13, <2>2, <2>3
<1>15. CASE \A k \in keys : ~(Votes(k) > 1)
  <2>1. ~(Votes(key) > 1)
    BY <1>10, <1>15
  <2>2. Len(paths) = 1 /\ n = 1
    <3>1. Votes(key) \in Nat /\ Cardinality(same) \in Nat
      BY <1>7
    <3> HIDE DEF Votes, key
    <3>2. Cardinality(same) <= 1
      BY <1>8, <2>1, <3>1
    <3>3. Len(paths) < 2 /\ Len(paths) \in Nat
      BY <1>1, <1>8, <3>1, <3>2
    <3> QED
      BY <3>3
  <2>3. Available(paths, pos) \in SUBSET {1} /\ Available(paths, pos) # {}
    BY <1>10, <2>2 DEF Available
  <2>4. PICK i \in Available(paths, pos) : hop = paths[i][pos]
    BY <2>3, HopIsSeen
  <2> QED
    BY <2>2, <2>3, <2>4
<1> QED
  BY <1>14, <1>15

(* The merged path is the path of the majority, as far as that goes.       *)
THEOREM MajorityPathStandsHolds == Spec => []MajorityPathStands
<1>1. ASSUME IInv, Judged, NEW n \in 1 .. Len(paths),
             2 * Cardinality({i \in 1 .. Len(paths) : Routers(paths[i]) = Routers(paths[n])})
                 > Len(paths),
             NEW pos \in 1 .. Len(paths[n])
      PROVE  Key(report.merged[pos]) = Key(paths[n][pos])
  <2>1. PathsInv /\ paths # <<>>
    BY <1>1 DEF IInv, ReportInv
  <2>2. PICK merged \in Merges(paths) : \E reading, swap : report = Verdict(merged, reading, swap)
    BY <1>1 DEF IInv, ReportInv, Outcome
  <2>3. report.merged = merged
    BY <2>2 DEF Verdict
  <2>4. Len(merged) = Longest(paths) /\ \A p \in 1 .. Len(merged) : merged[p] \in HopsAt(paths, p)
    BY <2>1, MergedHops
  <2>5. pos \in 1 .. Len(merged)
    BY <2>1, <2>4, LongestIsLongest
  <2>6. merged[pos] \in HopsAt(paths, pos)
    BY <2>4, <2>5
  <2> QED
    BY <1>1, <2>1, <2>3, <2>6, MajorityHop
<1>2. IInv => MajorityPathStands
  BY <1>1 DEF MajorityPathStands
<1> QED
  BY Inductive, <1>2, PTL
-----------------------------------------------------------------------------
(* The backbone lines that count as premium, by carrier: an attempt that   *)
(* saw one of them is never inconclusive, and a premium class needs one.   *)
Lines(carrier) ==
    CASE carrier = "CT" -> {"AS4809", "AS23764"}
      [] carrier = "CU" -> {"AS9929", "AS10099"}
      [] carrier = "CM" -> {"AS58807"}

GoesOver(evidence, carrier, code) ==
    LineOf[code] \in Lines(carrier) /\ Positions(evidence, LineOf[code]) # {}

LEMMA PositionsFinite ==
    ASSUME NEW evidence, Len(evidence) \in Nat, NEW as
    PROVE  /\ IsFiniteSet(Positions(evidence, as)) /\ Cardinality(Positions(evidence, as)) \in Nat
           /\ Cardinality(Positions(evidence, as)) = 0 <=> Positions(evidence, as) = {}
<1>1. IsFiniteSet(1 .. Len(evidence))
  BY FS_Interval
<1>2. Positions(evidence, as) \in SUBSET (1 .. Len(evidence))
  BY DEF Positions
<1>3. IsFiniteSet(Positions(evidence, as))
  BY <1>1, <1>2, FS_Subset
<1> QED
  BY <1>3, FS_CardinalityType, FS_EmptySet

LEMMA TelecomLines ==
    ASSUME NEW evidence, Len(evidence) \in Nat
    PROVE  /\ ClassifyTelecom(evidence) \in Inconclusive =>
                 \A as \in Lines("CT") : Positions(evidence, as) = {}
           /\ ClassifyTelecom(evidence) \in Premium =>
                 GoesOver(evidence, "CT", ClassifyTelecom(evidence))
<1>1. PICK cn2, ct163, ctg : /\ cn2 = Positions(evidence, "AS4809")
                             /\ ct163 = Positions(evidence, "AS4134")
                             /\ ctg = Positions(evidence, "AS23764")
  OBVIOUS
<1>2. /\ Cardinality(cn2) \in Nat /\ (Cardinality(cn2) = 0 <=> cn2 = {})
      /\ Cardinality(ct163) \in Nat /\ (Cardinality(ct163) = 0 <=> ct163 = {})
  BY <1>1, PositionsFinite
<1>3. CASE cn2 = {} /\ ctg = {}
  <2>1. ClassifyTelecom(evidence) \in {"ct_destination_only", "ct_163", "ct_unknown"}
    BY <1>1, <1>2, <1>3 DEF ClassifyTelecom
  <2> QED
    BY <1>1, <1>3, <2>1 DEF Lines, Premium, GoesOver, LineOf
<1>4. CASE cn2 = {} /\ ctg # {}
  <2>1. ClassifyTelecom(evidence) = "ct_ctgnet"
    BY <1>1, <1>2, <1>4 DEF ClassifyTelecom
  <2> QED
    BY <1>1, <1>4, <2>1 DEF Lines, Inconclusive, Premium, GoesOver, LineOf
<1>5. CASE cn2 # {}
  <2>1. Cardinality(cn2) = 1 \/ Cardinality(cn2) > 1
    BY <1>2, <1>5
  <2>2. ct163 = {} \/ Cardinality(ct163) = 1 \/ Cardinality(ct163) > 1
    BY <1>2
  <2>3. ClassifyTelecom(evidence) \in {"ct_cn2_mixed", "ct_cn2_gia", "ct_cn2_gt"}
    BY <1>1, <1>5, <2>1, <2>2 DEF ClassifyTelecom
  <2> QED
    BY <1>1, <1>5, <2>3 DEF Lines, Inconclusive, Premium, GoesOver, LineOf
<1> QED
  BY <1>3, <1>4, <1>5

LEMMA UnicomLines ==
    ASSUME NEW evidence
    PROVE  /\ ClassifyUnicom(evidence) \in Inconclusive =>
                 \A as \in Lines("CU") : Positions(evidence, as) = {}
           /\ ClassifyUnicom(evidence) \in Premium =>
                 GoesOver(evidence, "CU", ClassifyUnicom(evidence))
<1>1. PICK cu9929, cug, cu4837 : /\ cu9929 = Positions(evidence, "AS9929")
                                 /\ cug = Positions(evidence, "AS10099")
                                 /\ cu4837 = Positions(evidence, "AS4837")
  OBVIOUS
<1>2. CASE cu9929 = {} /\ cug = {}
  <2>1. ClassifyUnicom(evidence) \in {"cu_destination_only", "cu_4837", "cu_unknown"}
    BY <1>1, <1>2 DEF ClassifyUnicom
  <2> QED
    BY <1>1, <1>2, <2>1 DEF Lines, Premium, GoesOver, LineOf
<1>3. CASE cu9929 = {} /\ cug # {}
  <2>1. ClassifyUnicom(evidence) = "cu_cug"
    BY <1>1, <1>3 DEF ClassifyUnicom
  <2> QED
    BY <1>1, <1>3, <2>1 DEF Lines, Inconclusive, Premium, GoesOver, LineOf
<1>4. CASE cu9929 # {}
  <2>1. ClassifyUnicom(evidence) \in {"cu_9929_mixed", "cu_9929"}
    BY <1>1, <1>4 DEF ClassifyUnicom
  <2> QED
    BY <1>1, <1>4, <2>1 DEF Lines, Inconclusive, Premium, GoesOver, LineOf
<1> QED
  BY <1>2, <1>3, <1>4

LEMMA MobileLines ==
    ASSUME NEW evidence
    PROVE  /\ ClassifyMobile(evidence) \in Inconclusive =>
                 \A as \in Lines("CM") : Positions(evidence, as) = {}
           /\ ClassifyMobile(evidence) \in Premium =>
                 GoesOver(evidence, "CM", ClassifyMobile(evidence))
<1>1. PICK cmin2, cmi, cmnet : /\ cmin2 = Positions(evidence, "AS58807")
                               /\ cmi = Positions(evidence, "AS58453")
                               /\ cmnet = Positions(evidence, "AS9808")
  OBVIOUS
<1>2. CASE cmin2 = {}
  <2>1. ClassifyMobile(evidence) \in {"cm_cmi", "cm_cmnet", "cm_unknown"}
    BY <1>1, <1>2 DEF ClassifyMobile
  <2> QED
    BY <1>1, <1>2, <2>1 DEF Lines, Premium, GoesOver, LineOf
<1>3. CASE cmin2 # {}
  <2>1. ClassifyMobile(evidence) \in {"cm_cmin2_mixed", "cm_cmin2"}
    BY <1>1, <1>3 DEF ClassifyMobile
  <2> QED
    BY <1>1, <1>3, <2>1 DEF Lines, Inconclusive, Premium, GoesOver, LineOf
<1> QED
  BY <1>2, <1>3

LEMMA ClassifiedByLines ==
    ASSUME NEW carrier \in {"CT", "CU", "CM"}, NEW evidence, Len(evidence) \in Nat
    PROVE  /\ Classify(carrier, evidence) \in Inconclusive =>
                 \A as \in Lines(carrier) : Positions(evidence, as) = {}
           /\ Classify(carrier, evidence) \in Premium =>
                 GoesOver(evidence, carrier, Classify(carrier, evidence))
<1>1. CASE carrier = "CT"
  <2>1. Classify(carrier, evidence) = ClassifyTelecom(evidence)
    BY <1>1 DEF Classify
  <2> QED
    BY <1>1, <2>1, TelecomLines
<1>2. CASE carrier = "CU"
  <2>1. Classify(carrier, evidence) = ClassifyUnicom(evidence)
    BY <1>2 DEF Classify
  <2> QED
    BY <1>2, <2>1, UnicomLines
<1>3. CASE carrier = "CM"
  <2>1. Classify(carrier, evidence) = ClassifyMobile(evidence)
    BY <1>3 DEF Classify
  <2> QED
    BY <1>3, <2>1, MobileLines
<1> QED
  BY <1>1, <1>2, <1>3

(* What is judged: the paths of the attempts, and the merged path, whose   *)
(* hops are all hops of theirs.                                            *)
LEMMA JudgedPaths ==
    ASSUME PathsInv, paths # <<>>, NEW merged \in Merges(paths),
           NEW judged, judged = Append(paths, merged)
    PROVE  /\ Len(paths) \in Nat /\ Len(judged) = Len(paths) + 1
           /\ \A n \in 1 .. Len(paths) : judged[n] = paths[n]
           /\ judged[Len(paths) + 1] = merged
           /\ \A n \in 1 .. Len(judged) : Len(judged[n]) \in Nat
<1>1. IsSeq(paths) /\ Len(paths) \in Nat
  BY SeqLen DEF PathsInv
<1>2. /\ Len(judged) = Len(paths) + 1 /\ judged[Len(paths) + 1] = merged
      /\ \A n \in 1 .. Len(paths) : judged[n] = paths[n]
  BY <1>1, AppendIsSeq
<1>3. Len(merged) \in Nat /\ \A n \in 1 .. Len(paths) : Len(paths[n]) \in Nat
  BY LongestIsLongest, MergedHops
<1>4. \A n \in 1 .. Len(judged) : n \in 1 .. Len(paths) \/ n = Len(paths) + 1
  BY <1>1, <1>2
<1> QED
  BY <1>1, <1>2, <1>3, <1>4

(* A node that was looked up to be of an AS.                               *)
IsSeenAt(judged, reading, swap, as, n, i, j) ==
    /\ i \in 1 .. Len(judged[n]) /\ j \in 1 .. Len(judged[n][i].nodes)
    /\ LookUp(reading, swap, <<n, i, j>>, judged[n][i].nodes[j].ip) = as

LEMMA SeenInEvidence ==
    ASSUME NEW judged, NEW n, Len(judged[n]) \in Nat, NEW reading, NEW swap, NEW as
    PROVE  /\ Len(Evidence(judged, n, reading, swap)) = Len(judged[n])
           /\ Positions(Evidence(judged, n, reading, swap), as) # {} <=>
                 \E i, j : IsSeenAt(judged, reading, swap, as, n, i, j)
<1>1. PICK evidence : evidence = Evidence(judged, n, reading, swap)
  OBVIOUS
<1>2. evidence = [i \in 1 .. Len(judged[n]) |->
                    {LookUp(reading, swap, <<n, i, j>>, judged[n][i].nodes[j].ip) :
                         j \in 1 .. Len(judged[n][i].nodes)}]
  BY <1>1 DEF Evidence
<1>3. Len(evidence) = Len(judged[n])
  BY <1>2
<1>4. ASSUME NEW i \in 1 .. Len(judged[n])
      PROVE  as \in evidence[i] <=> \E j : IsSeenAt(judged, reading, swap, as, n, i, j)
  BY <1>2 DEF IsSeenAt
<1>5. Positions(evidence, as) # {} <=> \E i \in 1 .. Len(judged[n]) : as \in evidence[i]
  BY <1>3 DEF Positions
<1>6. \A i, j : IsSeenAt(judged, reading, swap, as, n, i, j) => i \in 1 .. Len(judged[n])
  BY DEF IsSeenAt
<1>7. Positions(evidence, as) # {} <=> \E i, j : IsSeenAt(judged, reading, swap, as, n, i, j)
  BY <1>4, <1>5, <1>6
<1> QED
  BY <1>1, <1>3, <1>7

(* Without a swap between the lookups they all read the same map.          *)
LEMMA OneMap ==
    ASSUME NEW judged, Len(judged) \in Nat, NEW reading,
           NEW swap, swap \in {<<1, 1, 1>>, AfterLast(judged)},
           NEW n \in 1 .. Len(judged), NEW m \in 1 .. Len(judged),
           NEW i \in Nat \ {0}, NEW j \in Nat \ {0}, NEW ip
    PROVE  LookUp(reading, swap, <<n, i, j>>, ip) = LookUp(reading, swap, <<m, i, j>>, ip)
<1>1. CASE swap = <<1, 1, 1>>
  <2>1. swap[1] = 1 /\ swap[2] = 1 /\ swap[3] = 1
    BY <1>1
  <2>2. ~Precedes(<<n, i, j>>, swap) /\ ~Precedes(<<m, i, j>>, swap)
    BY <2>1 DEF Precedes
  <2> QED
    BY <2>2 DEF LookUp
<1>2. CASE swap = AfterLast(judged)
  <2>1. swap[1] = Len(judged) + 1
    BY <1>2 DEF AfterLast
  <2>2. Precedes(<<n, i, j>>, swap) /\ Precedes(<<m, i, j>>, swap)
    BY <2>1 DEF Precedes
  <2> QED
    BY <2>2 DEF LookUp
<1> QED
  BY <1>1, <1>2

(* combineRouteClassifications, and what its result says when it is a      *)
(* premium class.                                                          *)
LEMMA CombineCases ==
    ASSUME NEW carrier, NEW codes
    PROVE  /\ Known(codes) = {} => Combine(carrier, codes) = codes[1]
           /\ Known(codes) # {} /\ Cardinality(Known(codes)) = 1 =>
                 Combine(carrier, codes) = CHOOSE code \in Known(codes) : TRUE
           /\ Known(codes) # {} /\ Cardinality(Known(codes)) # 1 =>
                 Combine(carrier, codes) = Dynamic(carrier)
<1>1. CASE Known(codes) = {}
  <2>1. Cardinality(Known(codes)) # 1
    BY <1>1, FS_EmptySet
  <2> QED
    BY <1>1, <2>1 DEF Combine
<1>2. CASE Known(codes) # {}
  BY <1>2 DEF Combine
<1> QED
  BY <1>1, <1>2

LEMMA CombinePremium ==
    ASSUME NEW carrier \in {"CT", "CU", "CM"}, NEW codes, IsSeq(codes), Len(codes) # 0,
           Combine(carrier, codes) \in Premium
    PROVE  /\ \E i \in 1 .. Len(codes) : codes[i] = Combine(carrier, codes)
           /\ \A i \in 1 .. Len(codes) : codes[i] \in Inconclusive \cup {Combine(carrier, codes)}
<1>1. Len(codes) \in Nat /\ 1 \in 1 .. Len(codes)
  BY SeqLen
<1>2. IsFiniteSet(Known(codes))
  <2>1. IsFiniteSet(1 .. Len(codes))
    BY <1>1, FS_Interval
  <2> DEFINE f == [i \in 1 .. Len(codes) |-> codes[i]]
             all == {codes[i] : i \in 1 .. Len(codes)}
  <2>2. f \in Surjection(1 .. Len(codes), all)
    BY DEF Surjection
  <2>3. IsFiniteSet(all)
    BY <2>1, <2>2, FS_Surjection
  <2>4. Known(codes) \in SUBSET all
    BY DEF Known
  <2> HIDE DEF all
  <2> QED
    BY <2>3, <2>4, FS_Subset
<1>3. CASE Known(codes) = {}
  <2>1. Combine(carrier, codes) = codes[1]
    BY <1>3, CombineCases
  <2>2. codes[1] \in Inconclusive
    BY <1>1, <1>3 DEF Known
  <2> QED
    BY <2>1, <2>2 DEF Inconclusive, Premium
<1>4. CASE Known(codes) # {} /\ Cardinality(Known(codes)) = 1
  <2>1. Combine(carrier, codes) = CHOOSE code \in Known(codes) : TRUE
    BY <1>4, CombineCases
  <2>2. PICK code : Known(codes) = {code}
    BY <1>2, <1>4, FS_Singleton
  <2>3. Combine(carrier, codes) = code
    BY <2>1, <2>2
  <2> QED
    BY <2>2, <2>3 DEF Known
<1>5. CASE Known(codes) # {} /\ Cardinality(Known(codes)) # 1
  <2>1. Combine(carrier, codes) = Dynamic(carrier)
    BY <1>5, CombineCases
  <2> QED
    BY <2>1 DEF Dynamic, Premium
<1> QED
  BY <1>3, <1>4, <1>5

(* A premium line is reported only when no attempt saw another one and an  *)
(* attempt saw it too, unless the map was replaced between the lookups;    *)
(* and an attempt went through a router that a map in use assigns to it.   *)
THEOREM PremiumUndisputedHolds == Spec => []PremiumUndisputed
<1>1. ASSUME IInv, Judged, report.code \in Premium
      PROVE  PremiumUndisputed
  <2>1. PathsInv /\ paths # <<>>
    BY <1>1 DEF IInv, ReportInv
  <2>2. PICK reading \in Readings, merged \in Merges(paths) :
             \E swap : report = Verdict(merged, reading, swap)
    BY <1>1 DEF IInv, ReportInv, Outcome
  <2>3. PICK swap : report = Verdict(merged, reading, swap)
    BY <2>2
  <2>4. PICK judged : judged = Append(paths, merged)
    OBVIOUS
  <2>5. PICK codes : codes = Codes(judged, reading, swap)
    OBVIOUS
  <2>6. PICK code : code = Combine(reading.carrier, codes)
    OBVIOUS
  <2>7. /\ report.reading = reading /\ report.codes = codes /\ report.code = code
        /\ report.twoMaps = (swap \notin {<<1, 1, 1>>, AfterLast(judged)})
    BY <2>3, <2>4, <2>5, <2>6 DEF Verdict
  <2>8. /\ Len(paths) \in Nat /\ Len(judged) = Len(paths) + 1
        /\ \A n \in 1 .. Len(paths) : judged[n] = paths[n]
        /\ judged[Len(paths) + 1] = merged
        /\ \A n \in 1 .. Len(judged) : Len(judged[n]) \in Nat
    BY <2>1, <2>4, JudgedPaths
  <2>9. codes = [n \in 1 .. Len(paths) + 1 |->
                    Classify(reading.carrier, Evidence(judged, n, reading, swap))]
    BY <2>5, <2>8 DEF Codes
  <2>10. IsSeq(codes) /\ Len(codes) = Len(paths) + 1
    <3>1. Len(paths) + 1 \in Nat
      BY <2>8
    <3> QED
      BY <2>9, <3>1, SeqOf
  <2>11. reading.carrier \in {"CT", "CU", "CM"} /\ Len(codes) # 0
    BY <2>8, <2>10, ReadingAssumption
  <2>12. /\ \E n \in 1 .. Len(codes) : codes[n] = code
         /\ \A n \in 1 .. Len(codes) : codes[n] \in Inconclusive \cup {code}
    BY <1>1, <2>6, <2>7, <2>10, <2>11, CombinePremium
  <2>13. AttemptsSaw = {codes[n] : n \in 1 .. Len(paths)}
    BY <2>7 DEF AttemptsSaw
  (* No attempt saw another line.                                          *)
  <2>14. AttemptsSaw \subseteq Inconclusive \cup {code}
    <3>1. \A n \in 1 .. Len(paths) : n \in 1 .. Len(codes)
      BY <2>8, <2>10
    <3> QED
      BY <2>12, <2>13, <3>1
  (* The line was looked up for a node of an attempt, or of the merged     *)
  (* path, where an attempt has it as well.                                *)
  <2>15. PICK as : as = LineOf[code]
    OBVIOUS
  <2>16. PICK n \in 1 .. Len(paths) + 1 : codes[n] = code
    BY <2>10, <2>12
  <2>17. as \in Lines(reading.carrier)
         /\ Positions(Evidence(judged, n, reading, swap), as) # {}
    <3>1. PICK evidence : evidence = Evidence(judged, n, reading, swap)
      OBVIOUS
    <3>2. Len(evidence) \in Nat
      BY <2>8, <3>1, SeenInEvidence
    <3>3. Classify(reading.carrier, evidence) = code /\ code \in Premium
      BY <1>1, <2>7, <2>9, <2>16, <3>1
    <3>4. GoesOver(evidence, reading.carrier, code)
      BY <2>11, <3>2, <3>3, ClassifiedByLines
    <3> QED
      BY <2>15, <3>1, <3>4 DEF GoesOver
  <2>18. PICK i, j : IsSeenAt(judged, reading, swap, as, n, i, j)
    BY <2>8, <2>17, SeenInEvidence
  <2>19. PICK m \in 1 .. Len(paths) : i \in 1 .. Len(paths[m]) /\ judged[n][i] = paths[m][i]
    <3>1. CASE n \in 1 .. Len(paths)
      BY <2>8, <2>18, <3>1 DEF IsSeenAt
    <3>2. CASE n = Len(paths) + 1
      <4>1. judged[n] = merged /\ i \in 1 .. Len(merged)
        BY <2>8, <2>18, <3>2 DEF IsSeenAt
      <4> QED
        BY <2>1, <4>1, MergedHops
    <3> QED
      BY <2>8, <3>1, <3>2
  <2>20. PICK node : node = paths[m][i].nodes[j]
    OBVIOUS
  <2>21. /\ j \in 1 .. Len(paths[m][i].nodes) /\ as = LookUp(reading, swap, <<n, i, j>>, node.ip)
         /\ as \in {reading.asn[node.ip], reading.later[node.ip]}
    BY <2>18, <2>19, <2>20 DEF IsSeenAt, LookUp
  <2>22. \E p \in 1 .. Len(paths) : \E q \in 1 .. Len(paths[p]) :
            \E x \in {paths[p][q].nodes[k] : k \in 1 .. Len(paths[p][q].nodes)} :
               as \in {reading.asn[x.ip], reading.later[x.ip]}
    BY <2>19, <2>20, <2>21
  (* With one map the attempt of that node saw the line itself.            *)
  <2>23. ASSUME ~report.twoMaps
         PROVE  code \in AttemptsSaw
    <3>1. swap \in {<<1, 1, 1>>, AfterLast(judged)}
      <4>1. report.twoMaps <=> swap \notin {<<1, 1, 1>>, AfterLast(judged)}
        BY Zenon, <2>7
      <4> QED
        BY Zenon, <2>23, <4>1
    <3>2. Len(judged) \in Nat
      BY <2>8
    <3>3. i \in Nat \ {0} /\ j \in Nat \ {0} /\ n \in 1 .. Len(judged) /\ m \in 1 .. Len(judged)
      BY <2>8, <2>16, <2>18, <2>19 DEF IsSeenAt
    <3>4. LookUp(reading, swap, <<n, i, j>>, node.ip) = LookUp(reading, swap, <<m, i, j>>, node.ip)
      BY <3>1, <3>2, <3>3, OneMap
    <3>5. judged[m] = paths[m]
      BY <2>8
    <3>6. IsSeenAt(judged, reading, swap, as, m, i, j)
      BY <2>19, <2>20, <2>21, <3>4, <3>5 DEF IsSeenAt
    <3>7. PICK evidence : evidence = Evidence(judged, m, reading, swap)
      OBVIOUS
    <3>8. Len(evidence) \in Nat /\ Positions(evidence, as) # {}
      BY <2>8, <3>3, <3>6, <3>7, SeenInEvidence
    <3>9. Classify(reading.carrier, evidence) \notin Inconclusive
      BY <2>11, <2>17, <3>8, ClassifiedByLines
    <3>10. codes[m] = Classify(reading.carrier, evidence)
      BY <2>8, <2>9, <3>3, <3>7
    <3> QED
      BY <2>13, <2>14, <3>9, <3>10
  <2> QED
    BY <2>7, <2>14, <2>15, <2>22, <2>23 DEF PremiumUndisputed
<1>2. IInv => PremiumUndisputed
  <2>1. ~(Judged /\ report.code \in Premium) => PremiumUndisputed
    BY DEF PremiumUndisputed
  <2> QED
    BY <1>1, <2>1
<1> QED
  BY Inductive, <1>2, PTL
-----------------------------------------------------------------------------
(* Sums.  What holds at nought, and at a number when it held before, holds *)
(* up to any number: so the sums of counts are what they are said to be.   *)
LEMMA UpTo ==
    ASSUME NEW n \in Nat, NEW S, 0 \in S, \A k \in 1 .. n : k - 1 \in S => k \in S
    PROVE  \A k \in 0 .. n : k \in S
<1> DEFINE missing == {k \in 0 .. n : k \notin S}
<1> SUFFICES ASSUME missing # {} PROVE FALSE
  OBVIOUS
<1>1. missing \in SUBSET Nat
  OBVIOUS
<1>2. PICK k \in missing : \A j \in missing : k <= j
  BY <1>1, LeastNumber
<1>3. k \in 1 .. n
  BY <1>2
<1>4. k - 1 \in 0 .. n /\ k - 1 \notin missing
  BY <1>2, <1>3
<1> QED
  BY <1>2, <1>3, <1>4

LEMMA SumUnfolds ==
    ASSUME NEW counts, Len(counts) \in Nat
    PROVE  SumTo(counts) =
              [k \in 0 .. Len(counts) |-> IF k = 0 THEN 0 ELSE SumTo(counts)[k - 1] + counts[k]]
<1>1. PICK len : len = Len(counts)
  OBVIOUS
<1>2. len \in Nat
  BY <1>1
<1> DEFINE Plus(sum, k) == sum + counts[k]
           IsSum(f, m) == f = [k \in 0 .. m |-> IF k = 0 THEN 0 ELSE Plus(f[k - 1], k)]
           S == {m \in 0 .. len : \E f : IsSum(f, m)}
<1>3. SumTo(counts) = CHOOSE f : IsSum(f, len)
  BY <1>1 DEF SumTo
<1> HIDE DEF Plus
<1>4. \E f : IsSum(f, 0)
  <2>1. IsSum([k \in 0 .. 0 |-> 0], 0)
    BY Z3
  <2> QED
    BY <2>1
<1>5. ASSUME NEW m \in 1 .. len, NEW f, IsSum(f, m - 1)
      PROVE  \E g : IsSum(g, m)
  <2>1. PICK v : v = Plus(f[m - 1], m)
    OBVIOUS
  <2>2. PICK g : g = [k \in 0 .. m |-> IF k = m THEN v ELSE f[k]]
    OBVIOUS
  <2>3. ASSUME NEW k \in 0 .. m
        PROVE  g[k] = IF k = 0 THEN 0 ELSE Plus(g[k - 1], k)
    <3>1. CASE k = m
      <4>1. m - 1 \in 0 .. m /\ m - 1 # m /\ m # 0
        BY <1>2
      <4>2. g[m] = v /\ g[m - 1] = f[m - 1]
        BY <1>2, <2>2, <4>1
      <4> QED
        BY <2>1, <3>1, <4>1, <4>2
    <3>2. CASE k # m
      <4>1. k \in 0 .. m - 1 /\ g[k] = f[k]
        BY <1>2, <2>2, <3>2
      <4>2. f[k] = IF k = 0 THEN 0 ELSE Plus(f[k - 1], k)
        BY <1>5, <4>1
      <4>3. k # 0 => k - 1 \in 0 .. m /\ k - 1 # m
        BY <1>2, <4>1
      <4>4. k # 0 => g[k - 1] = f[k - 1]
        BY <2>2, <4>3
      <4> QED
        BY <4>1, <4>2, <4>4
    <3> QED
      BY <3>1, <3>2
  <2>4. IsSum(g, m)
    BY <2>2, <2>3
  <2> QED
    BY <2>4
<1> HIDE DEF IsSum
<1>6. 0 \in S
  BY <1>2, <1>4
<1>7. \A m \in 1 .. len : m - 1 \in S => m \in S
  BY <1>2, <1>5
<1>8. len \in S
  <2> HIDE DEF S
  <2>1. \A m \in 0 .. len : m \in S
    BY <1>2, <1>6, <1>7, UpTo
  <2> QED
    BY <1>2, <2>1
<1>9. IsSum(SumTo(counts), len)
  BY <1>3, <1>8
<1> QED
  BY <1>1, <1>9 DEF IsSum, Plus

Counts(s) == IsSeq(s) /\ \A i \in 1 .. Len(s) : s[i] \in Nat

LEMMA SumSteps ==
    ASSUME NEW s, Counts(s)
    PROVE  /\ SumTo(s)[0] = 0
           /\ \A k \in 1 .. Len(s) : SumTo(s)[k] = SumTo(s)[k - 1] + s[k]
           /\ \A k \in 0 .. Len(s) : SumTo(s)[k] \in Nat
<1>1. Len(s) \in Nat /\ \A i \in 1 .. Len(s) : s[i] \in Nat
  BY SeqLen DEF Counts
<1>2. PICK sum : sum = SumTo(s)
  OBVIOUS
<1>3. sum = [k \in 0 .. Len(s) |-> IF k = 0 THEN 0 ELSE sum[k - 1] + s[k]]
  BY <1>1, <1>2, SumUnfolds
<1>4. sum[0] = 0 /\ \A k \in 1 .. Len(s) : sum[k] = sum[k - 1] + s[k]
  BY <1>1, <1>3
<1> DEFINE S == {k \in 0 .. Len(s) : sum[k] \in Nat}
<1>5. 0 \in S
  BY <1>1, <1>4
<1>6. \A k \in 1 .. Len(s) : k - 1 \in S => k \in S
  BY <1>1, <1>4
<1>7. \A k \in 0 .. Len(s) : k \in S
  <2> HIDE DEF S
  <2> QED
    BY <1>1, <1>5, <1>6, UpTo
<1> QED
  BY <1>2, <1>4, <1>7

LEMMA SumsAgree ==
    ASSUME NEW s, Counts(s), NEW t, Counts(t), NEW m \in Nat, m <= Len(s), m <= Len(t),
           \A i \in 1 .. m : s[i] = t[i]
    PROVE  SumTo(s)[m] = SumTo(t)[m]
<1>1. Len(s) \in Nat /\ Len(t) \in Nat
  BY SeqLen DEF Counts
<1> DEFINE S == {k \in 0 .. m : SumTo(s)[k] = SumTo(t)[k]}
<1>2. 0 \in S
  BY SumSteps
<1>3. \A k \in 1 .. m : k - 1 \in S => k \in S
  <2> TAKE k \in 1 .. m
  <2>1. k \in 1 .. Len(s) /\ k \in 1 .. Len(t)
    BY <1>1
  <2>2. SumTo(s)[k] = SumTo(s)[k - 1] + s[k] /\ SumTo(t)[k] = SumTo(t)[k - 1] + t[k]
    BY <2>1, SumSteps
  <2> QED
    BY <2>2
<1>4. \A k \in 0 .. m : k \in S
  <2> HIDE DEF S
  <2> QED
    BY <1>2, <1>3, UpTo
<1> QED
  BY <1>4

LEMMA SumBumped ==
    ASSUME NEW s, Counts(s), NEW t, Counts(t), Len(t) = Len(s), NEW i \in 1 .. Len(s),
           t[i] = s[i] + 1, \A j \in 1 .. Len(s) : j # i => t[j] = s[j]
    PROVE  Total(t) = Total(s) + 1
<1>1. Len(s) \in Nat /\ \A j \in 1 .. Len(s) : s[j] \in Nat /\ t[j] \in Nat
  BY SeqLen DEF Counts
<1>2. /\ SumTo(s)[0] = 0 /\ SumTo(t)[0] = 0
      /\ \A k \in 1 .. Len(s) : /\ SumTo(s)[k] = SumTo(s)[k - 1] + s[k]
                                /\ SumTo(t)[k] = SumTo(t)[k - 1] + t[k]
      /\ \A k \in 0 .. Len(s) : SumTo(s)[k] \in Nat /\ SumTo(t)[k] \in Nat
  BY SumSteps
<1> DEFINE S == {k \in 0 .. Len(s) : SumTo(t)[k] = SumTo(s)[k] + (IF k < i THEN 0 ELSE 1)}
<1>3. 0 \in S
  BY <1>1, <1>2
<1>4. \A k \in 1 .. Len(s) : k - 1 \in S => k \in S
  <2> SUFFICES ASSUME NEW k \in 1 .. Len(s), k - 1 \in S PROVE k \in S
    OBVIOUS
  <2>1. k \in 0 .. Len(s) /\ k - 1 \in 0 .. Len(s)
    BY <1>1
  <2>2. /\ SumTo(s)[k] = SumTo(s)[k - 1] + s[k] /\ SumTo(t)[k] = SumTo(t)[k - 1] + t[k]
        /\ SumTo(s)[k - 1] \in Nat /\ SumTo(t)[k - 1] \in Nat
    BY <1>2, <2>1
  <2>3. t[k] = s[k] + (IF k = i THEN 1 ELSE 0) /\ s[k] \in Nat
    BY <1>1
  <2>4. SumTo(t)[k - 1] = SumTo(s)[k - 1] + (IF k - 1 < i THEN 0 ELSE 1)
    OBVIOUS
  <2>5. k \in Int /\ i \in Int
    BY <1>1
  <2>6. SumTo(t)[k] = SumTo(s)[k] + (IF k < i THEN 0 ELSE 1)
    <3>1. CASE k < i
      BY <2>2, <2>3, <2>4, <2>5, <3>1
    <3>2. CASE k = i
      <4>1. t[k] = s[k] + 1
        BY <3>2
      <4>2. SumTo(t)[k - 1] = SumTo(s)[k - 1]
        BY <2>2, <2>4, <2>5, <3>2
      <4>3. PICK x \in Nat, y \in Nat : x = SumTo(s)[k - 1] /\ y = s[k]
        BY <2>2, <2>3
      <4>4. SumTo(s)[k] = x + y
        BY <2>2, <4>3
      <4>5. SumTo(t)[k] = x + (y + 1)
        BY <2>2, <4>1, <4>2, <4>3
      <4> QED
        BY <2>5, <3>2, <4>4, <4>5
    <3>3. CASE k > i
      BY <2>2, <2>3, <2>4, <2>5, <3>3
    <3> QED
      BY <2>5, <3>1, <3>2, <3>3
  <2> QED
    BY <2>1, <2>6
<1>5. \A k \in 0 .. Len(s) : k \in S
  <2> HIDE DEF S
  <2> QED
    BY <1>1, <1>3, <1>4, UpTo
<1>6. SumTo(t)[Len(s)] = SumTo(s)[Len(s)] + 1
  <2>1. Len(s) \in 0 .. Len(s) /\ ~(Len(s) < i)
    BY <1>1
  <2> QED
    BY <1>5, <2>1
<1> QED
  BY <1>6 DEF Total

LEMMA SumOfTail ==
    ASSUME NEW s, Counts(s), NEW m \in 0 .. Len(s), NEW r, Counts(r), Len(r) = Len(s) - m,
           \A j \in 1 .. Len(r) : r[j] = s[m + j]
    PROVE  Total(s) = SumTo(s)[m] + Total(r)
<1>1. Len(s) \in Nat /\ Len(r) \in Nat /\ m \in Nat /\ \A j \in 1 .. Len(r) : r[j] \in Nat
  BY SeqLen DEF Counts
<1>2. /\ SumTo(r)[0] = 0
      /\ \A k \in 1 .. Len(s) : SumTo(s)[k] = SumTo(s)[k - 1] + s[k]
      /\ \A k \in 0 .. Len(s) : SumTo(s)[k] \in Nat
      /\ \A k \in 1 .. Len(r) : SumTo(r)[k] = SumTo(r)[k - 1] + r[k]
      /\ \A k \in 0 .. Len(r) : SumTo(r)[k] \in Nat
  BY SumSteps
<1> DEFINE S == {k \in 0 .. Len(r) : SumTo(s)[m + k] = SumTo(s)[m] + SumTo(r)[k]}
<1>3. 0 \in S
  <2>1. m + 0 = m /\ SumTo(s)[m] \in Nat
    BY <1>1, <1>2
  <2> QED
    BY <1>1, <1>2, <2>1
<1>4. \A k \in 1 .. Len(r) : k - 1 \in S => k \in S
  <2> SUFFICES ASSUME NEW k \in 1 .. Len(r), k - 1 \in S PROVE k \in S
    OBVIOUS
  <2>1. k \in 0 .. Len(r) /\ k - 1 \in 0 .. Len(r) /\ m + k \in 1 .. Len(s)
        /\ (m + k) - 1 = m + (k - 1)
    BY <1>1
  <2>2. /\ SumTo(s)[m + k] = SumTo(s)[(m + k) - 1] + s[m + k]
        /\ SumTo(r)[k] = SumTo(r)[k - 1] + r[k]
        /\ SumTo(r)[k - 1] \in Nat /\ SumTo(s)[m] \in Nat
    BY <1>2, <2>1
  <2>3. SumTo(s)[m + (k - 1)] = SumTo(s)[m] + SumTo(r)[k - 1]
    OBVIOUS
  <2>4. r[k] = s[m + k] /\ r[k] \in Nat
    BY <1>1
  <2>5. SumTo(s)[(m + k) - 1] = SumTo(s)[m] + SumTo(r)[k - 1]
    BY <2>1, <2>3
  <2>6. SumTo(s)[m + k] = SumTo(s)[m] + SumTo(r)[k]
    BY <2>2, <2>4, <2>5
  <2> QED
    BY <2>1, <2>6
<1>5. \A k \in 0 .. Len(r) : k \in S
  <2> HIDE DEF S
  <2> QED
    BY <1>1, <1>3, <1>4, UpTo
<1>6. SumTo(s)[m + Len(r)] = SumTo(s)[m] + SumTo(r)[Len(r)]
  BY <1>1, <1>5
<1>7. m + Len(r) = Len(s)
  BY <1>1
<1> QED
  BY <1>6, <1>7 DEF Total

-----------------------------------------------------------------------------
(* What a reply adds, and what sorting and collapsing leave.               *)
LEMMA CountsOf ==
    ASSUME NEW n \in Nat, NEW s, DOMAIN s = 1 .. n, s = [i \in 1 .. n |-> s[i]],
           \A i \in 1 .. n : s[i] \in Nat
    PROVE  Counts(s) /\ Len(s) = n
<1>1. IsSeq(s) /\ Len(s) = n
  BY SeqOf
<1> QED
  BY <1>1 DEF Counts

LEMMA TotalIsNat ==
    ASSUME NEW s, Counts(s)
    PROVE  Total(s) \in Nat
<1>1. Len(s) \in 0 .. Len(s)
  BY SeqLen DEF Counts
<1> QED
  BY <1>1, SumSteps DEF Total

LEMMA RTTsAre ==
    ASSUME NEW nodes \in Seq(RawNode), NEW c, c = [i \in 1 .. Len(nodes) |-> nodes[i].rtts]
    PROVE  Counts(c) /\ Len(c) = Len(nodes) /\ RTTs(nodes) = Total(c) /\ RTTs(nodes) \in Nat
<1>1. Len(nodes) \in Nat /\ \A i \in 1 .. Len(nodes) : nodes[i].rtts \in Nat
  <2>1. Len(nodes) \in Nat /\ \A i \in 1 .. Len(nodes) : nodes[i] \in RawNode
    OBVIOUS
  <2>2. \A node \in RawNode : node.rtts \in Nat
    BY DEF RawNode
  <2> QED
    BY <2>1, <2>2
<1>2. DOMAIN c = 1 .. Len(nodes) /\ c = [i \in 1 .. Len(nodes) |-> c[i]]
      /\ \A i \in 1 .. Len(nodes) : c[i] \in Nat
  BY <1>1
<1>3. Counts(c) /\ Len(c) = Len(nodes)
  BY <1>1, <1>2, CountsOf
<1>4. RTTs(nodes) = Total(c)
  BY DEF RTTs
<1> QED
  BY <1>3, <1>4, TotalIsNat

LEMMA NoRTTs == RTTs(<<>>) = 0
<1>1. PICK nodes : nodes = <<>>
  OBVIOUS
<1>2. nodes \in Seq(RawNode) /\ Len(nodes) = 0
  BY <1>1
<1>3. PICK c : c = [i \in 1 .. Len(nodes) |-> nodes[i].rtts]
  OBVIOUS
<1>4. Counts(c) /\ Len(c) = 0 /\ RTTs(nodes) = Total(c)
  BY <1>2, <1>3, RTTsAre
<1>5. SumTo(c)[0] = 0
  BY <1>4, SumSteps
<1> QED
  BY <1>1, <1>4, <1>5 DEF Total

LEMMA AddNodeCounts ==
    ASSUME NEW nodes \in Seq(RawNode), Distinct(nodes), NEW ip \in Nodes
    PROVE  RTTs(AddNode(nodes, ip)) = RTTs(nodes) + 1
<1>1. Len(nodes) \in Nat /\ \A i \in 1 .. Len(nodes) : nodes[i] \in RawNode
  OBVIOUS
<1>2. PICK after : after = AddNode(nodes, ip)
  OBVIOUS
<1>3. after \in Seq(RawNode)
  BY <1>2, AddNodeKeeps
<1>4. PICK c : c = [i \in 1 .. Len(nodes) |-> nodes[i].rtts]
  OBVIOUS
<1>5. PICK d : d = [i \in 1 .. Len(after) |-> after[i].rtts]
  OBVIOUS
<1>6. Counts(c) /\ Len(c) = Len(nodes) /\ RTTs(nodes) = Total(c)
  BY <1>4, RTTsAre
<1>7. Counts(d) /\ Len(d) = Len(after) /\ RTTs(after) = Total(d)
  BY <1>3, <1>5, RTTsAre
<1>8. CASE \E i \in 1 .. Len(nodes) : nodes[i].ip = ip
  <2>1. after = [i \in 1 .. Len(nodes) |->
                    IF nodes[i].ip = ip THEN [nodes[i] EXCEPT !.rtts = @ + 1] ELSE nodes[i]]
    BY <1>2, <1>8 DEF AddNode
  <2>2. Len(after) = Len(nodes)
    BY <1>1, <2>1
  <2>3. PICK i \in 1 .. Len(nodes) : nodes[i].ip = ip
    BY <1>8
  <2>4. \A j \in 1 .. Len(nodes) : j # i => nodes[j].ip # ip
    BY <2>3 DEF Distinct
  <2>5. d[i] = c[i] + 1
    <3>1. after[i] = [nodes[i] EXCEPT !.rtts = @ + 1]
      BY <2>1, <2>3
    <3>2. after[i].rtts = nodes[i].rtts + 1
      BY <1>1, <3>1 DEF RawNode
    <3> QED
      BY <1>4, <1>5, <2>2, <3>2
  <2>6. \A j \in 1 .. Len(nodes) : j # i => d[j] = c[j]
    BY <1>4, <1>5, <2>1, <2>2, <2>4
  <2>7. Total(d) = Total(c) + 1
    <3>1. Len(d) = Len(c) /\ i \in 1 .. Len(c) /\ \A j \in 1 .. Len(c) : j # i => d[j] = c[j]
      BY <1>6, <1>7, <2>2, <2>6
    <3> QED
      BY <1>6, <1>7, <2>5, <3>1, SumBumped
  <2> QED
    BY <1>2, <1>6, <1>7, <2>7
<1>9. CASE ~ \E i \in 1 .. Len(nodes) : nodes[i].ip = ip
  <2>1. PICK new : new = [ip |-> ip, rtts |-> 1]
    OBVIOUS
  <2>2. new \in RawNode /\ new.rtts = 1
    BY <2>1 DEF RawNode
  <2>3. after = Append(nodes, new)
    BY <1>2, <1>9, <2>1 DEF AddNode
  <2>4. /\ Len(after) = Len(nodes) + 1 /\ after[Len(nodes) + 1] = new
        /\ \A i \in 1 .. Len(nodes) : after[i] = nodes[i]
    BY <2>2, <2>3, AppendProperties
  <2>5. d[Len(nodes) + 1] = 1 /\ \A i \in 1 .. Len(nodes) : d[i] = c[i]
    BY <1>1, <1>4, <1>5, <2>2, <2>4
  <2>6. SumTo(d)[Len(nodes)] = SumTo(c)[Len(nodes)]
    BY <1>1, <1>6, <1>7, <2>4, <2>5, SumsAgree
  <2>7. SumTo(d)[Len(nodes) + 1] = SumTo(d)[Len(nodes)] + 1
    <3>1. Len(nodes) + 1 \in 1 .. Len(d) /\ (Len(nodes) + 1) - 1 = Len(nodes)
      BY <1>1, <1>7, <2>4
    <3>2. SumTo(d)[Len(nodes) + 1] = SumTo(d)[(Len(nodes) + 1) - 1] + d[Len(nodes) + 1]
      BY <1>7, <3>1, SumSteps
    <3> QED
      BY <2>5, <3>1, <3>2
  <2>8. Total(d) = Total(c) + 1
    BY <1>6, <1>7, <2>4, <2>6, <2>7 DEF Total
  <2> QED
    BY <1>2, <1>6, <1>7, <2>8
<1> QED
  BY <1>8, <1>9

(* The replies of a trace, distance by distance up to the last of them.    *)
Farthest == CHOOSE b \in Nat : \A d \in Distances : d <= b

AtDistance(found) ==
    [d \in 1 .. Farthest |-> IF d \in Distances THEN RTTs(found[d]) ELSE 0]

LEMMA FarthestIsFarthest ==
    Farthest \in Nat /\ \A d \in Distances : d \in 1 .. Farthest
<1>1. PICK n \in Nat : \E f : f \in Bijection(1 .. n, Distances)
  <2>1. IsFiniteSet(Distances)
    BY ReplyAssumption
  <2> QED
    BY <2>1, FS_CountingElements, FS_NatBijection DEF ExistsBijection
<1>2. PICK f : f \in Bijection(1 .. n, Distances)
  BY <1>1
<1>3. f \in [1 .. n -> Distances] /\ \A d \in Distances : \E i \in 1 .. n : f[i] = d
  BY <1>2 DEF Bijection, Surjection
<1>4. Distances \subseteq Nat \ {0}
  BY ReplyAssumption
<1>5. \A i \in 1 .. n : f[i] \in Nat
  BY <1>3, <1>4
<1>6. PICK b \in Nat : \A i \in 1 .. n : f[i] <= b
  BY <1>5, Bounded
<1>7. \A d \in Distances : d <= b
  BY <1>3, <1>6
<1>8. Farthest \in Nat /\ \A d \in Distances : d <= Farthest
  BY <1>7 DEF Farthest
<1> QED
  BY <1>4, <1>8

LEMMA AtDistanceCounts ==
    ASSUME NEW found \in [Distances -> Seq(RawNode)]
    PROVE  Counts(AtDistance(found)) /\ Len(AtDistance(found)) = Farthest
<1>1. PICK s : s = AtDistance(found)
  OBVIOUS
<1>2. \A d \in Distances : RTTs(found[d]) \in Nat
  <2> TAKE d \in Distances
  <2>1. found[d] \in Seq(RawNode)
    OBVIOUS
  <2> QED
    BY <2>1, RTTsAre
<1>3. DOMAIN s = 1 .. Farthest /\ s = [i \in 1 .. Farthest |-> s[i]]
  BY <1>1 DEF AtDistance
<1>4. \A i \in 1 .. Farthest : s[i] \in Nat
  BY <1>1, <1>2 DEF AtDistance
<1> QED
  BY <1>1, <1>3, <1>4, CountsOf, FarthestIsFarthest

LEMMA ReplyIsCounted ==
    ASSUME NEW found \in [Distances -> Seq(RawNode)], \A d \in Distances : Distinct(found[d]),
           NEW dist \in Distances, NEW ip \in Nodes,
           NEW after, after = [found EXCEPT ![dist] = AddNode(found[dist], ip)]
    PROVE  Total(AtDistance(after)) = Total(AtDistance(found)) + 1
<1>1. AddNode(found[dist], ip) \in Seq(RawNode)
  BY AddNodeKeeps
<1>2. after \in [Distances -> Seq(RawNode)]
  BY <1>1
<1>3. PICK s : s = AtDistance(found)
  OBVIOUS
<1>4. PICK t : t = AtDistance(after)
  OBVIOUS
<1>5. Counts(s) /\ Counts(t) /\ Len(s) = Farthest /\ Len(t) = Farthest
  BY <1>2, <1>3, <1>4, AtDistanceCounts
<1>6. dist \in 1 .. Farthest
  BY FarthestIsFarthest
<1>7. RTTs(after[dist]) = RTTs(found[dist]) + 1
  BY AddNodeCounts
<1>8. t[dist] = s[dist] + 1
  BY <1>3, <1>4, <1>6, <1>7 DEF AtDistance
<1>9. \A d \in 1 .. Farthest : d # dist => t[d] = s[d]
  BY <1>3, <1>4 DEF AtDistance
<1>10. Len(t) = Len(s) /\ dist \in 1 .. Len(s) /\ \A d \in 1 .. Len(s) : d # dist => t[d] = s[d]
  BY <1>5, <1>6, <1>9
<1> QED
  BY <1>3, <1>4, <1>5, <1>8, <1>10, SumBumped

LEMMA NothingCounted == Total(AtDistance(NoHops)) = 0
<1>1. PICK s : s = AtDistance(NoHops)
  OBVIOUS
<1>2. Counts(s) /\ Len(s) = Farthest
  BY <1>1, NoHopsOK, AtDistanceCounts
<1>3. \A i \in 1 .. Farthest : s[i] = 0
  BY <1>1, NoRTTs DEF AtDistance, NoHops
<1>4. Farthest \in Nat
  BY FarthestIsFarthest
<1> DEFINE S == {k \in 0 .. Farthest : SumTo(s)[k] = 0}
<1>5. 0 \in S
  BY <1>2, <1>4, SumSteps
<1>6. \A k \in 1 .. Farthest : k - 1 \in S => k \in S
  <2> TAKE k \in 1 .. Farthest
  <2>1. SumTo(s)[k] = SumTo(s)[k - 1] + s[k]
    BY <1>2, SumSteps
  <2> QED
    BY <1>3, <1>4, <2>1
<1>7. \A k \in 0 .. Farthest : k \in S
  <2> HIDE DEF S
  <2> QED
    BY <1>4, <1>5, <1>6, UpTo
<1> QED
  BY <1>1, <1>2, <1>4, <1>7 DEF Total

(* Sorted leaves out the distances nobody replied at, and nothing else.    *)
HopCounts(path) == [i \in 1 .. Len(path) |-> RTTs(path[i].nodes)]

LEMMA HopCountsAre ==
    ASSUME NEW path, SortedPath(path), NEW c, c = HopCounts(path)
    PROVE  Counts(c) /\ Len(c) = Len(path) /\ \A i \in 1 .. Len(path) : c[i] = RTTs(path[i].nodes)
<1>1. Len(path) \in Nat /\ \A i \in 1 .. Len(path) : path[i].nodes \in Seq(RawNode)
  BY SeqLen DEF SortedPath, HopOK
<1>2. \A i \in 1 .. Len(path) : RTTs(path[i].nodes) \in Nat
  <2> TAKE i \in 1 .. Len(path)
  <2>1. path[i].nodes \in Seq(RawNode)
    BY <1>1
  <2> QED
    BY <2>1, RTTsAre
<1>3. DOMAIN c = 1 .. Len(path) /\ c = [i \in 1 .. Len(path) |-> c[i]]
      /\ \A i \in 1 .. Len(path) : c[i] = RTTs(path[i].nodes)
  BY DEF HopCounts
<1>4. \A i \in 1 .. Len(path) : c[i] \in Nat
  BY <1>2, <1>3
<1>5. Counts(c) /\ Len(c) = Len(path)
  BY <1>1, <1>3, <1>4, CountsOf
<1> QED
  BY <1>3, <1>5

LEMMA RankSteps ==
    ASSUME NEW ds \in SUBSET Nat, IsFiniteSet(ds), NEW k \in Nat \ {0}
    PROVE  /\ k \notin ds => Rank(ds, k) = Rank(ds, k - 1)
           /\ k \in ds => Rank(ds, k) = Rank(ds, k - 1) + 1
           /\ Rank(ds, k - 1) \in 0 .. Cardinality(ds) /\ Rank(ds, k) \in 0 .. Cardinality(ds)
<1> DEFINE below(x) == {y \in ds : y <= x}
<1>1. \A x : below(x) \in SUBSET ds
  OBVIOUS
<1>2. \A x : Rank(ds, x) = Cardinality(below(x))
  BY DEF Rank
<1>3. \A y \in ds : (y <= k) <=> (y <= k - 1 \/ y = k)
  OBVIOUS
<1>4. k \notin ds => below(k) = below(k - 1)
  BY <1>3
<1>5. k \in ds => below(k) = below(k - 1) \cup {k} /\ k \notin below(k - 1)
  <2> SUFFICES ASSUME k \in ds
               PROVE  below(k) = below(k - 1) \cup {k} /\ k \notin below(k - 1)
    OBVIOUS
  <2>1. \A y : y \in below(k) <=> y \in below(k - 1) \cup {k}
    BY <1>3
  <2>2. ~(k <= k - 1)
    OBVIOUS
  <2> QED
    BY <2>1, <2>2
<1> HIDE DEF below
<1>6. \A x : IsFiniteSet(below(x)) /\ Cardinality(below(x)) <= Cardinality(ds)
  BY <1>1, FS_Subset
<1>7. Cardinality(ds) \in Nat /\ \A x : Cardinality(below(x)) \in Nat
  BY <1>6, FS_CardinalityType
<1>8. k \in ds => Cardinality(below(k)) = Cardinality(below(k - 1)) + 1
  <2> SUFFICES ASSUME k \in ds PROVE Cardinality(below(k)) = Cardinality(below(k - 1)) + 1
    OBVIOUS
  <2>1. Cardinality(below(k - 1) \cup {k}) = Cardinality(below(k - 1)) + 1
    BY <1>5, <1>6, FS_AddElement
  <2> QED
    BY <1>5, <2>1
<1> QED
  BY <1>2, <1>4, <1>6, <1>7, <1>8

LEMMA SortedCounts ==
    ASSUME NEW found \in [Distances -> Seq(RawNode)], \A d \in Distances : Distinct(found[d])
    PROVE  Total(HopCounts(Sorted(found))) = Total(AtDistance(found))
<1>1. PICK ds : ds = Touched(found)
  OBVIOUS
<1>2. ds \in SUBSET Nat /\ IsFiniteSet(ds) /\ \A d \in ds : d \in Distances
  <2>1. ds \in SUBSET Distances /\ Distances \in SUBSET Nat
    BY <1>1, ReplyAssumption DEF Touched
  <2>2. IsFiniteSet(ds)
    BY <2>1, ReplyAssumption, FS_Subset
  <2> QED
    BY <2>1, <2>2
<1>3. PICK n : n = Cardinality(ds)
  OBVIOUS
<1>4. n \in Nat
  BY <1>2, <1>3, FS_CardinalityType
<1>5. PICK path : path = Sorted(found)
  OBVIOUS
<1>6. SortedPath(path)
  BY <1>5, SortedSorts
<1>7. path = [i \in 1 .. n |-> [distance |-> Nth(ds, i), nodes |-> found[Nth(ds, i)]]]
  BY <1>1, <1>3, <1>5 DEF Sorted
<1>8. Len(path) = n
  BY <1>4, <1>7
<1>9. PICK c : c = HopCounts(path)
  OBVIOUS
<1>10. Counts(c) /\ Len(c) = n /\ \A i \in 1 .. n : c[i] = RTTs(found[Nth(ds, i)])
  <2>1. Counts(c) /\ Len(c) = n /\ \A i \in 1 .. n : c[i] = RTTs(path[i].nodes)
    BY <1>6, <1>8, <1>9, HopCountsAre
  <2>2. \A i \in 1 .. n : path[i].nodes = found[Nth(ds, i)]
    BY <1>7
  <2> QED
    BY <2>1, <2>2
<1>11. PICK s : s = AtDistance(found)
  OBVIOUS
<1>12. Counts(s) /\ Len(s) = Farthest /\ Farthest \in Nat
  BY <1>11, AtDistanceCounts, FarthestIsFarthest
<1>13. \A d \in 1 .. Farthest : s[d] = IF d \in ds THEN RTTs(found[d]) ELSE 0
  <2> SUFFICES ASSUME NEW d \in 1 .. Farthest
               PROVE  s[d] = IF d \in ds THEN RTTs(found[d]) ELSE 0
    OBVIOUS
  <2>1. s[d] = IF d \in Distances THEN RTTs(found[d]) ELSE 0
    BY <1>11 DEF AtDistance
  <2>2. d \in ds <=> d \in Distances /\ found[d] # <<>>
    BY <1>1 DEF Touched
  <2> QED
    BY <2>1, <2>2, NoRTTs
<1> DEFINE Same(k) == SumTo(s)[k] = SumTo(c)[Rank(ds, k)]
           S == {k \in 0 .. Farthest : Same(k)}
<1>14. Same(0)
  <2>1. {e \in ds : e <= 0} = {}
    <3>1. \A e \in ds : e \in Nat /\ e # 0
      BY <1>2, ReplyAssumption
    <3> QED
      BY <3>1
  <2>2. Rank(ds, 0) = 0
    BY <2>1, FS_EmptySet DEF Rank
  <2> QED
    BY <1>10, <1>12, <2>2, SumSteps
<1>15. ASSUME NEW k \in 1 .. Farthest, Same(k - 1)
       PROVE  Same(k)
  <2>1. k \in Nat \ {0} /\ k \in 1 .. Len(s) /\ k - 1 \in 0 .. Len(s)
    BY <1>12
  <2>2. SumTo(s)[k] = SumTo(s)[k - 1] + s[k] /\ SumTo(s)[k - 1] \in Nat
    BY <1>12, <2>1, SumSteps
  <2>3. SumTo(s)[k - 1] = SumTo(c)[Rank(ds, k - 1)]
    BY <1>15
  <2>4. CASE k \notin ds
    <3>1. s[k] = 0
      BY <1>13, <2>4
    <3>2. Rank(ds, k) = Rank(ds, k - 1)
      BY <1>2, <2>1, <2>4, RankSteps
    <3> QED
      BY <2>2, <2>3, <3>1, <3>2
  <2>5. CASE k \in ds
    <3>1. Rank(ds, k) = Rank(ds, k - 1) + 1 /\ Rank(ds, k - 1) \in 0 .. n /\ Rank(ds, k) \in 0 .. n
      BY <1>2, <1>3, <2>1, <2>5, RankSteps
    <3>2. PICK r \in 1 .. n : r = Rank(ds, k)
      BY <1>4, <3>1
    <3>3. Rank(ds, k - 1) = r - 1
      BY <1>4, <3>1, <3>2
    <3>4. Nth(ds, r) = k
      <4>1. Nth(ds, r) \in ds /\ Rank(ds, Nth(ds, r)) = r
        BY <1>2, <1>3, <3>2, NthHasRank
      <4>2. PICK e \in ds : e = Nth(ds, r) /\ Rank(ds, e) = r
        BY <4>1
      <4>3. ~(e < k) /\ ~(k < e)
        <5>1. \A x, y \in ds : x < y => Rank(ds, x) < Rank(ds, y)
          BY <1>2, RankGrows
        <5> QED
          BY <1>4, <2>5, <3>2, <4>2, <5>1
      <4>4. e \in Nat /\ k \in Nat
        BY <1>2, <2>1
      <4> QED
        BY <4>2, <4>3, <4>4
    <3>5. c[r] = s[k]
      BY <1>10, <1>13, <2>5, <3>4
    <3>6. SumTo(c)[r] = SumTo(c)[r - 1] + c[r]
      BY <1>10, <3>2, SumSteps
    <3> QED
      BY <2>2, <2>3, <3>2, <3>3, <3>5, <3>6
  <2> QED
    BY <2>4, <2>5
<1> HIDE DEF Same
<1>16. \A k \in 0 .. Farthest : k \in S
  <2>1. 0 \in S
    BY <1>12, <1>14
  <2>2. \A k \in 1 .. Farthest : k - 1 \in S => k \in S
    BY <1>12, <1>15
  <2> HIDE DEF S
  <2> QED
    BY <1>12, <2>1, <2>2, UpTo
<1>17. SumTo(s)[Farthest] = SumTo(c)[Rank(ds, Farthest)]
  BY <1>12, <1>16 DEF Same
<1>18. Rank(ds, Farthest) = n
  <2>1. \A e \in ds : e <= Farthest
    BY <1>2, <1>12, FarthestIsFarthest
  <2>2. {e \in ds : e <= Farthest} = ds
    BY <2>1
  <2> QED
    BY <1>3, <2>2 DEF Rank
<1> QED
  BY <1>5, <1>9, <1>10, <1>11, <1>12, <1>17, <1>18 DEF Total

(* Collapse adds up the round-trip times of the hops it joins.             *)
LEMMA CollapseCounts ==
    ASSUME NEW path, SortedPath(path)
    PROVE  Total(HopCounts(Collapse(path))) = Total(HopCounts(path))
<1>1. IsSeq(path) /\ Len(path) \in Nat /\ \A i \in 1 .. Len(path) : HopOK(path[i])
  BY SeqLen DEF SortedPath
<1>2. SUFFICES ASSUME Others(path) # {},
                      NEW first, first = Max(Others(path)) + 1, ~(first > Len(path))
               PROVE  Total(HopCounts(Collapse(path))) = Total(HopCounts(path))
  <2>1. CASE Others(path) = {}
    BY <2>1 DEF Collapse
  <2>2. CASE Others(path) # {}
    BY <1>2, <2>2, CollapseCases
  <2> QED
    BY <2>1, <2>2
<1>3. PICK m : m = Max(Others(path))
  OBVIOUS
<1>4. m \in 1 .. Len(path) /\ \A x \in Others(path) : x <= m
  <2>1. Others(path) \in SUBSET Nat /\ Others(path) \in SUBSET (1 .. Len(path))
    BY <1>1 DEF Others
  <2>2. \A x \in Others(path) : x <= Len(path)
    BY <2>1
  <2>3. Max(Others(path)) \in Others(path) /\ \A x \in Others(path) : x <= Max(Others(path))
    BY <1>1, <1>2, <2>1, <2>2, MaxIsGreatest
  <2> QED
    BY <1>3, <2>1, <2>3
<1>5. first = m + 1 /\ first \in 1 .. Len(path) /\ first - 1 = m /\ m \in 0 .. Len(path)
  BY <1>1, <1>2, <1>3, <1>4
<1>6. \A i \in first .. Len(path) : TargetOnly(path[i])
  <2> TAKE i \in first .. Len(path)
  <2>1. i \in 1 .. Len(path) /\ ~(i <= m)
    BY <1>1, <1>4, <1>5
  <2> QED
    BY <1>4, <2>1 DEF Others
<1>7. PICK last : last = Joined(path, first)
  OBVIOUS
<1>8. PICK head : head = SubSeq(path, 1, m)
  OBVIOUS
<1>9. PICK q : q = Append(head, last)
  OBVIOUS
<1>10. Collapse(path) = q
  BY <1>2, <1>5, <1>7, <1>8, <1>9, CollapseCases
<1>11. IsSeq(head) /\ Len(head) = m /\ \A i \in 1 .. m : head[i] = path[i]
  BY <1>1, <1>5, <1>8, PrefixIsSeq
<1>12. IsSeq(q) /\ Len(q) = m + 1 /\ (\A i \in 1 .. m : q[i] = path[i]) /\ q[m + 1] = last
  BY <1>9, <1>11, AppendIsSeq
<1>13. PICK c : c = HopCounts(path)
  OBVIOUS
<1>14. Counts(c) /\ Len(c) = Len(path) /\ \A i \in 1 .. Len(path) : c[i] = RTTs(path[i].nodes)
  BY <1>13, HopCountsAre
(* The tail: one node per hop, so its round-trip times are those of it.    *)
<1>15. PICK r : r = [j \in 1 .. Len(path) - first + 1 |-> path[first + j - 1].nodes[1].rtts]
  OBVIOUS
<1>16. ASSUME NEW nodes \in Seq(RawNode), Len(nodes) = 1
       PROVE  RTTs(nodes) = nodes[1].rtts /\ nodes[1].rtts \in Nat
  <2>1. PICK one : one = [i \in 1 .. Len(nodes) |-> nodes[i].rtts]
    OBVIOUS
  <2>2. Counts(one) /\ Len(one) = 1 /\ RTTs(nodes) = Total(one)
    BY <1>16, <2>1, RTTsAre
  <2>3. one[1] = nodes[1].rtts
    BY <1>16, <2>1
  <2>4. one[1] \in Nat
    <3>1. 1 \in 1 .. Len(one)
      BY <2>2
    <3> QED
      BY <2>2, <3>1 DEF Counts
  <2>5. SumTo(one)[0] = 0 /\ SumTo(one)[1] = SumTo(one)[1 - 1] + one[1]
    <3>1. 1 \in 1 .. Len(one)
      BY <2>2
    <3> QED
      BY <2>2, <3>1, SumSteps
  <2>6. SumTo(one)[1] = one[1]
    BY <2>4, <2>5
  <2> QED
    BY <2>2, <2>3, <2>4, <2>6 DEF Total
<1>17. \A j \in 1 .. Len(path) - m : r[j] = c[m + j] /\ r[j] \in Nat
  <2> TAKE j \in 1 .. Len(path) - m
  <2>1. m + j \in first .. Len(path) /\ m + j \in 1 .. Len(path) /\ first + j - 1 = m + j
        /\ j \in 1 .. Len(path) - first + 1
    BY <1>1, <1>4, <1>5
  <2>2. r[j] = path[m + j].nodes[1].rtts
    BY <1>15, <2>1
  <2>3. path[m + j].nodes \in Seq(RawNode) /\ Len(path[m + j].nodes) = 1
    BY <1>1, <1>6, <2>1 DEF HopOK, TargetOnly
  <2>4. c[m + j] = RTTs(path[m + j].nodes)
    BY <1>14, <2>1
  <2>5. RTTs(path[m + j].nodes) = path[m + j].nodes[1].rtts
        /\ path[m + j].nodes[1].rtts \in Nat
    BY <1>16, <2>3
  <2> QED
    BY <2>2, <2>4, <2>5
<1>18. Counts(r) /\ Len(r) = Len(path) - m
  <2>1. Len(path) - m \in Nat /\ Len(path) - first + 1 = Len(path) - m
    BY <1>1, <1>4, <1>5
  <2>2. DOMAIN r = 1 .. Len(path) - m /\ r = [j \in 1 .. Len(path) - m |-> r[j]]
    BY <1>15, <2>1
  <2> QED
    BY <1>17, <2>1, <2>2, CountsOf
<1>19. Total(c) = SumTo(c)[m] + Total(r)
  BY <1>5, <1>14, <1>17, <1>18, SumOfTail
(* The hop they become.                                                    *)
<1>20. last.nodes \in Seq(RawNode) /\ Len(last.nodes) = 1 /\ RTTs(last.nodes) = Total(r)
  <2>1. Absorbed(path, first) = Total(r) /\ Total(r) \in Nat
    BY <1>15, <1>18, TotalIsNat DEF Absorbed
  <2>2. PICK hop : hop = path[first]
    OBVIOUS
  <2>3. HopOK(hop) /\ TargetOnly(hop)
    BY <1>1, <1>5, <1>6, <2>2
  <2>4. hop.nodes \in Seq(RawNode) /\ Len(hop.nodes) = 1 /\ hop.nodes[1] \in RawNode
    BY <2>3 DEF HopOK, TargetOnly
  <2>5. PICK t : t = Total(r)
    OBVIOUS
  <2>6. last = [hop EXCEPT !.nodes = [hop.nodes EXCEPT ![1] = [hop.nodes[1] EXCEPT !.rtts = t]]]
    <3>1. last = [path[first] EXCEPT !.nodes[1].rtts = Absorbed(path, first)]
      BY <1>7 DEF Joined
    <3> QED
      BY <2>1, <2>2, <2>5, <3>1
  <2>7. PICK node : node = [hop.nodes[1] EXCEPT !.rtts = t]
    OBVIOUS
  <2>8. node \in RawNode /\ node.rtts = t
    BY <2>1, <2>4, <2>5, <2>7 DEF RawNode
  <2>9. last.nodes = [hop.nodes EXCEPT ![1] = node]
    BY <2>3, <2>6, <2>7 DEF HopOK
  <2>10. last.nodes \in Seq(RawNode) /\ Len(last.nodes) = 1 /\ last.nodes[1] = node
    BY <2>4, <2>8, <2>9
  <2>11. RTTs(last.nodes) = last.nodes[1].rtts
    BY <1>16, <2>10
  <2> QED
    BY <2>5, <2>8, <2>10, <2>11
<1>21. PICK d : d = HopCounts(q)
  OBVIOUS
<1>22. d = [i \in 1 .. m + 1 |-> RTTs(q[i].nodes)]
  BY <1>12, <1>21 DEF HopCounts
<1>23. d[m + 1] = Total(r) /\ \A i \in 1 .. m : d[i] = c[i]
  <2>1. m + 1 \in 1 .. m + 1 /\ \A i \in 1 .. m : i \in 1 .. m + 1 /\ i \in 1 .. Len(path)
    BY <1>1, <1>4
  <2> QED
    BY <1>12, <1>14, <1>20, <1>22, <2>1
<1>24. Counts(d) /\ Len(d) = m + 1
  <2>1. m + 1 \in Nat
    BY <1>4
  <2>2. \A i \in 1 .. m + 1 : d[i] \in Nat
    <3> TAKE i \in 1 .. m + 1
    <3>1. CASE i = m + 1
      BY <1>18, <1>23, <3>1, TotalIsNat
    <3>2. CASE i # m + 1
      <4>1. i \in 1 .. m /\ i \in 1 .. Len(path)
        BY <1>1, <1>4, <3>2
      <4>2. c[i] \in Nat
        BY <1>14, <4>1 DEF Counts
      <4> QED
        BY <1>23, <4>1, <4>2
    <3> QED
      BY <3>1, <3>2
  <2>3. DOMAIN d = 1 .. m + 1 /\ d = [i \in 1 .. m + 1 |-> d[i]]
    BY <1>22
  <2> QED
    BY <2>1, <2>2, <2>3, CountsOf
<1>25. SumTo(d)[m] = SumTo(c)[m]
  <2>1. m \in Nat /\ m <= Len(c) /\ m <= Len(d)
    BY <1>1, <1>4, <1>14, <1>24
  <2> QED
    BY <1>14, <1>23, <1>24, <2>1, SumsAgree
<1>26. SumTo(d)[m + 1] = SumTo(d)[m] + d[m + 1]
  <2>1. m + 1 \in 1 .. Len(d) /\ (m + 1) - 1 = m
    BY <1>4, <1>24
  <2>2. SumTo(d)[m + 1] = SumTo(d)[(m + 1) - 1] + d[m + 1]
    BY <1>24, <2>1, SumSteps
  <2> QED
    BY <2>1, <2>2
<1>27. Total(d) = Total(c)
  BY <1>19, <1>23, <1>24, <1>25, <1>26 DEF Total
<1> QED
  BY <1>10, <1>13, <1>21, <1>27

(* Every reply of the trace under way is counted at its distance, and the  *)
(* samples of the attempts that have ended are in their paths.             *)
TakenInv ==
    /\ taken \in Seq(Nat) /\ Len(taken) = Len(paths) + 1
    /\ taken[Len(paths) + 1] = Total(AtDistance(hops))

SamplesInv == TakenInv /\ SamplesKept

LEMMA InitSamples == Init => SamplesInv
<1> SUFFICES ASSUME Init PROVE SamplesInv
  OBVIOUS
<1>1. taken = <<0>> /\ paths = <<>> /\ hops = NoHops
  BY DEF Init
<1>2. Len(paths) = 0
  BY <1>1
<1>3. taken \in Seq(Nat) /\ Len(taken) = 1 /\ taken[1] = 0
  BY <1>1
<1>4. TakenInv
  BY <1>1, <1>2, <1>3, NothingCounted DEF TakenInv
<1>5. SamplesKept
  BY <1>2 DEF SamplesKept
<1> QED
  BY <1>4, <1>5 DEF SamplesInv

LEMMA TakeReplySamples ==
    ASSUME IInv, SamplesInv, TakeReply
    PROVE  SamplesInv'
<1>1. paths' = paths /\ taken' = [taken EXCEPT ![Len(taken)] = taken[Len(taken)] + 1]
  BY DEF TakeReply
<1>2. PICK r \in Replies : hops' = [hops EXCEPT ![r.hops] = AddNode(hops[r.hops], r.ip)]
  BY DEF TakeReply
<1>3. r.hops \in Distances /\ r.ip \in Nodes
  BY ReplyAssumption DEF Reply
<1>4. /\ taken \in Seq(Nat) /\ Len(taken) = Len(paths) + 1
      /\ taken[Len(paths) + 1] = Total(AtDistance(hops))
  BY DEF SamplesInv, TakenInv
<1>5. Len(paths) \in Nat
  BY SeqLen DEF IInv, PathsInv
<1>6. Total(AtDistance(hops')) = Total(AtDistance(hops)) + 1
  <2>1. PICK after : after = hops'
    OBVIOUS
  <2>2. after = [hops EXCEPT ![r.hops] = AddNode(hops[r.hops], r.ip)]
    BY <1>2, <2>1
  <2>3. hops \in [Distances -> Seq(RawNode)] /\ \A d \in Distances : Distinct(hops[d])
    BY DEF IInv, HopsInv
  <2>4. PICK dist \in Distances, ip \in Nodes : dist = r.hops /\ ip = r.ip
    BY <1>3
  <2>5. after = [hops EXCEPT ![dist] = AddNode(hops[dist], ip)]
    BY <2>2, <2>4
  <2>6. Total(AtDistance(after)) = Total(AtDistance(hops)) + 1
    BY <2>3, <2>5, ReplyIsCounted
  <2> QED
    BY <2>1, <2>6
<1>7. /\ taken' \in Seq(Nat) /\ Len(taken') = Len(paths) + 1
      /\ taken'[Len(paths) + 1] = taken[Len(paths) + 1] + 1
      /\ \A i \in 1 .. Len(paths) : taken'[i] = taken[i]
  <2>1. Len(paths) + 1 \in 1 .. Len(taken)
    BY <1>4, <1>5
  <2>2. PICK v \in Nat : v = taken[Len(paths) + 1] + 1
    BY <1>4, <2>1
  <2>3. taken' = [taken EXCEPT ![Len(taken)] = v]
    BY <1>1, <1>4, <2>2
  <2> QED
    BY <1>4, <1>5, <2>2, <2>3
<1>8. TakenInv'
  BY <1>1, <1>4, <1>6, <1>7 DEF TakenInv
<1>9. SamplesKept'
  BY <1>1, <1>7 DEF SamplesInv, SamplesKept
<1> QED
  BY <1>8, <1>9 DEF SamplesInv

LEMMA TraceEndsSamples ==
    ASSUME IInv, SamplesInv, TraceEnds
    PROVE  SamplesInv'
<1>1. PICK path : path = Collapse(Sorted(hops))
  OBVIOUS
<1>2. hops' = NoHops /\ paths' = Append(paths, path) /\ taken' = Append(taken, 0)
  BY <1>1 DEF TraceEnds
<1>3. /\ taken \in Seq(Nat) /\ Len(taken) = Len(paths) + 1
      /\ taken[Len(paths) + 1] = Total(AtDistance(hops))
  BY DEF SamplesInv, TakenInv
<1>4. Len(paths) \in Nat /\ IsSeq(paths)
  BY SeqLen DEF IInv, PathsInv
<1>5. /\ Len(paths') = Len(paths) + 1 /\ paths'[Len(paths) + 1] = path
      /\ \A n \in 1 .. Len(paths) : paths'[n] = paths[n]
  BY <1>2, <1>4, AppendIsSeq
<1>6. /\ taken' \in Seq(Nat) /\ Len(taken') = Len(taken) + 1 /\ taken'[Len(taken) + 1] = 0
      /\ \A n \in 1 .. Len(taken) : taken'[n] = taken[n]
  BY <1>2, <1>3, AppendProperties
<1>7. TakenInv'
  BY <1>2, <1>3, <1>5, <1>6, NothingCounted DEF TakenInv
<1>8. Total(HopCounts(path)) = taken[Len(paths) + 1]
  <2>1. PICK sorted : sorted = Sorted(hops)
    OBVIOUS
  <2>2. SortedPath(sorted)
    BY <2>1, SortedSorts DEF IInv, HopsInv
  <2>3. Total(HopCounts(Collapse(sorted))) = Total(HopCounts(sorted))
    BY <2>2, CollapseCounts
  <2>4. Total(HopCounts(sorted)) = Total(AtDistance(hops))
    BY <2>1, SortedCounts DEF IInv, HopsInv
  <2> QED
    BY <1>1, <1>3, <2>1, <2>3, <2>4
<1>9. ASSUME NEW n \in 1 .. Len(paths')
      PROVE  taken'[n] = Total([i \in 1 .. Len(paths'[n]) |-> RTTs(paths'[n][i].nodes)])
  <2>1. CASE n = Len(paths) + 1
    <3>1. n \in 1 .. Len(taken) /\ taken'[n] = taken[Len(paths) + 1] /\ paths'[n] = path
      BY <1>3, <1>4, <1>5, <1>6, <2>1
    <3> QED
      BY <1>8, <3>1 DEF HopCounts
  <2>2. CASE n # Len(paths) + 1
    <3>1. n \in 1 .. Len(paths) /\ n \in 1 .. Len(taken)
      BY <1>3, <1>4, <1>5, <2>2
    <3>2. taken'[n] = taken[n] /\ paths'[n] = paths[n]
      BY <1>5, <1>6, <3>1
    <3>3. taken[n] = Total([i \in 1 .. Len(paths[n]) |-> RTTs(paths[n][i].nodes)])
      BY <3>1 DEF SamplesInv, SamplesKept
    <3> QED
      BY <3>2, <3>3
  <2> QED
    BY <2>1, <2>2
<1>10. SamplesKept'
  BY <1>9 DEF SamplesKept
<1> QED
  BY <1>7, <1>10 DEF SamplesInv

LEMMA TraceFailsSamples ==
    ASSUME IInv, SamplesInv, TraceFails
    PROVE  SamplesInv'
<1>1. paths' = paths /\ hops' = NoHops /\ taken' = [taken EXCEPT ![Len(taken)] = 0]
  BY DEF TraceFails
<1>2. taken \in Seq(Nat) /\ Len(taken) = Len(paths) + 1
  BY DEF SamplesInv, TakenInv
<1>3. Len(paths) \in Nat
  BY SeqLen DEF IInv, PathsInv
<1>4. /\ taken' \in Seq(Nat) /\ Len(taken') = Len(paths) + 1 /\ taken'[Len(paths) + 1] = 0
      /\ \A i \in 1 .. Len(paths) : taken'[i] = taken[i]
  BY <1>1, <1>2, <1>3
<1>5. TakenInv'
  BY <1>1, <1>4, NothingCounted DEF TakenInv
<1>6. SamplesKept'
  BY <1>1, <1>4 DEF SamplesInv, SamplesKept
<1> QED
  BY <1>5, <1>6 DEF SamplesInv

LEMMA NextSamples ==
    ASSUME IInv, SamplesInv, [Next]_vars
    PROVE  SamplesInv'
<1>1. CASE UNCHANGED <<hops, paths, taken>>
  BY <1>1 DEF SamplesInv, TakenInv, SamplesKept
<1>2. CASE NothingToJudge \/ Judge \/ Reported \/ UNCHANGED vars
  BY <1>1, <1>2 DEF NothingToJudge, Judge, Reported, vars
<1> QED
  BY <1>2, TakeReplySamples, TraceEndsSamples, TraceFailsSamples DEF Next

(* Grouping, sorting and collapsing lose no measurement: a path has as     *)
(* many round-trip times as its trace was given replies.                   *)
THEOREM SamplesKeptHolds == Spec => []SamplesKept
<1>1. IInv /\ SamplesInv /\ [Next]_vars => SamplesInv'
  BY NextSamples
<1>2. SamplesInv => SamplesKept
  BY DEF SamplesInv
<1> QED
  BY Inductive, InitSamples, <1>1, <1>2, PTL DEF Spec
=============================================================================
