--------------------------- MODULE Tracer_proofs ---------------------------
(***************************************************************************)
(* Proofs about Tracer, for every value of its constants.                  *)
(***************************************************************************)
EXTENDS Tracer, TLAPS, SequenceTheorems, FiniteSetTheorems

(* What TakeReply leaves of the types.                                     *)
LEMMA TakeReplyType ==
    ASSUME TypeOK, NEW s \in Sessions, TakeReply(s)
    PROVE  /\ ch' \in [Sessions -> Seq(Reply)]
           /\ got' \in [Sessions -> Seq(Reply)]
           /\ max' \in [Sessions -> 1 .. MaxHops]
           /\ NewMax(s, Head(ch[s])) \in 1 .. MaxHops
<1>1. ch[s] \in Seq(Reply) /\ ch[s] # <<>> /\ got[s] \in Seq(Reply)
  BY DEF TypeOK, ReplyTypeOK, TakeReply
<1>2. Head(ch[s]) \in Reply /\ Tail(ch[s]) \in Seq(Reply)
  BY <1>1, HeadTailProperties
<1>3. NewMax(s, Head(ch[s])) \in 1 .. MaxHops
  <2>1. Head(ch[s]).hops \in Nat \ {0}
    BY <1>2 DEF Reply
  <2>2. max[s] \in 1 .. MaxHops /\ MaxHops \in Nat
    BY ConfigAssumption DEF TypeOK, TraceTypeOK
  <2>3. max[s] > Head(ch[s]).hops => Head(ch[s]).hops \in 1 .. MaxHops
    BY <2>1, <2>2
  <2> QED
    BY <2>2, <2>3 DEF NewMax
<1>4. max' \in [Sessions -> 1 .. MaxHops]
  BY <1>3 DEF TypeOK, TraceTypeOK, TakeReply
<1>5. Append(got[s], Head(ch[s])) \in Seq(Reply)
  BY <1>1, <1>2
<1>6. ch' \in [Sessions -> Seq(Reply)] /\ got' \in [Sessions -> Seq(Reply)]
  BY <1>2, <1>5 DEF TypeOK, ReplyTypeOK, TakeReply
<1> QED
  BY <1>3, <1>4, <1>6

(* The head of Trace's for loops keeps ttl within 1..MaxHops.              *)
LEMMA NextPingType ==
    ASSUME TypeOK, NEW s \in Sessions, NEW m \in 1 .. MaxHops, NextPing(s, m)
    PROVE  /\ ttl' \in [Sessions -> 1 .. MaxHops]
           /\ round' \in [Sessions -> Nat]
           /\ pc' \in [Sessions -> Location]
<1>1. /\ ttl \in [Sessions -> 1 .. MaxHops] /\ round \in [Sessions -> Nat]
      /\ pc \in [Sessions -> Location] /\ MaxHops \in Nat \ {0}
  BY ConfigAssumption DEF TypeOK, TraceTypeOK
<1>2. ttl' \in [Sessions -> 1 .. MaxHops]
  BY <1>1 DEF NextPing
<1>3. round' \in [Sessions -> Nat]
  BY <1>1 DEF NextPing
<1>4. "ping" \in Location /\ "check" \in Location
  BY DEF Location
<1>5. pc' \in [Sessions -> Location]
  BY <1>1, <1>4 DEF NextPing
<1> QED
  BY <1>2, <1>3, <1>5

LEMMA OlderType ==
    ASSUME NEW P \in SUBSET Packet
    PROVE  Older(P) \in SUBSET Packet
BY ConfigAssumption DEF Older, Packet

LEMMA InitType == Init => TypeOK
<1> SUFFICES ASSUME Init PROVE TypeOK
  OBVIOUS
<1>1. TraceTypeOK
  BY ConfigAssumption DEF Init, TraceTypeOK, Location
<1>2. ReplyTypeOK
  BY DEF Init, ReplyTypeOK
<1>3. RequestTypeOK
  BY DEF Init, RequestTypeOK
<1>4. NoRes \in Arrival
  BY DEF NoRes, Arrival
<1>5. ServeTypeOK
  BY <1>4 DEF Init, ServeTypeOK
<1> QED
  BY <1>1, <1>2, <1>3, <1>5 DEF TypeOK

(* The steps of a Trace call, apart from the first four, only disturb the  *)
(* types of the variables they assign.                                     *)
LEMMA TraceStepType ==
    ASSUME TypeOK, NEW s \in Sessions, Trace(s)
    PROVE  TypeOK'
<1>1. CASE NewSession(s) \/ NewSessionFails(s) \/ AddSession(s)
  <2>1. TraceTypeOK'
    BY <1>1 DEF NewSession, NewSessionFails, AddSession, Return, TypeOK, TraceTypeOK, Location,
                traceVars
  <2>2. ServeTypeOK'
    BY <1>1, DestsAssumption
    DEF NewSession, NewSessionFails, AddSession, TypeOK, ServeTypeOK, serveVars
  <2>3. ReplyTypeOK' /\ RequestTypeOK'
    BY <1>1 DEF NewSession, NewSessionFails, AddSession, TypeOK, ReplyTypeOK, RequestTypeOK,
                serveVars
  <2> QED
    BY <2>1, <2>2, <2>3 DEF TypeOK
<1>2. CASE SendRequest(s)
  <2>1. TraceTypeOK'
    BY <1>2 DEF SendRequest, TypeOK, TraceTypeOK, Location, traceVars
  <2>2. ttl[s] \in 1 .. MaxHops /\ seq \in Nat /\ MaxHops \in Nat
    BY ConfigAssumption DEF TypeOK, TraceTypeOK, RequestTypeOK
  <2>3. [n |-> seq + 1, ttl |-> ttl[s] + 1, age |-> 0] \in Packet
    BY <2>2, ConfigAssumption DEF Packet
  <2>4. [n |-> seq + 1, s |-> s, ttl |-> ttl[s] + 1] \in [n : Nat, s : Sessions, ttl : 1 .. MaxHops + 1]
    BY <2>2
  <2>5. RequestTypeOK'
    BY <1>2, <2>3, <2>4 DEF SendRequest, TypeOK, RequestTypeOK
  <2>6. ReplyTypeOK' /\ ServeTypeOK'
    BY <1>2 DEF SendRequest, TypeOK, ReplyTypeOK, ServeTypeOK, serveVars
  <2> QED
    BY <2>1, <2>5, <2>6 DEF TypeOK
<1>3. CASE SendRequestFails(s) \/ AppendProbe(s)
  <2>1. TraceTypeOK'
    BY <1>3 DEF SendRequestFails, AppendProbe, Return, TypeOK, TraceTypeOK, Location, traceVars
  <2>2. RequestTypeOK'
    <3>1. seq + 1 \in Nat /\ probes[s] \cup sending[s] \in SUBSET Packet /\ {} \in SUBSET Packet
      BY DEF TypeOK, RequestTypeOK
    <3>2. CASE SendRequestFails(s)
      BY <3>1, <3>2 DEF SendRequestFails, TypeOK, RequestTypeOK
    <3>3. CASE AppendProbe(s)
      BY <3>1, <3>3 DEF AppendProbe, TypeOK, RequestTypeOK
    <3> QED
      BY <1>3, <3>2, <3>3
  <2>3. ReplyTypeOK' /\ ServeTypeOK'
    BY <1>3 DEF SendRequestFails, AppendProbe, TypeOK, ReplyTypeOK, ServeTypeOK, serveVars
  <2> QED
    BY <2>1, <2>2, <2>3 DEF TypeOK
<1>4. CASE DelayTick(s)
  <2>1. max[s] \in 1 .. MaxHops
    BY DEF TypeOK, TraceTypeOK
  <2>2. TraceTypeOK'
    BY <1>4, <2>1, NextPingType DEF DelayTick, TypeOK, TraceTypeOK
  <2>3. ReplyTypeOK' /\ RequestTypeOK' /\ ServeTypeOK'
    BY <1>4 DEF DelayTick, TypeOK, ReplyTypeOK, RequestTypeOK, ServeTypeOK, serveVars
  <2> QED
    BY <2>2, <2>3 DEF TypeOK
<1>5. CASE ReceiveWhilePinging(s) \/ ReceiveWhileDraining(s)
  <2>1. TakeReply(s)
    BY <1>5 DEF ReceiveWhilePinging, ReceiveWhileDraining
  <2>2. /\ ttl' \in [Sessions -> 1 .. MaxHops] /\ round' \in [Sessions -> Nat]
        /\ pc' \in [Sessions -> Location]
    BY <1>5, <2>1, TakeReplyType, NextPingType
    DEF ReceiveWhilePinging, ReceiveWhileDraining, TypeOK, TraceTypeOK, Location
  <2>3. TraceTypeOK'
    BY <1>5, <2>1, <2>2, TakeReplyType
    DEF ReceiveWhilePinging, ReceiveWhileDraining, TypeOK, TraceTypeOK
  <2>4. ReplyTypeOK'
    BY <1>5, <2>1, TakeReplyType
    DEF ReceiveWhilePinging, ReceiveWhileDraining, TypeOK, ReplyTypeOK, serveVars
  <2>5. RequestTypeOK' /\ ServeTypeOK'
    BY <1>5 DEF ReceiveWhilePinging, ReceiveWhileDraining, TypeOK, RequestTypeOK, ServeTypeOK,
                serveVars
  <2> QED
    BY <2>3, <2>4, <2>5 DEF TypeOK
<1>6. CASE CheckDone(s) \/ CheckNotDone(s) \/ Deadline(s) \/ CtxReturn(s)
  <2>1. TraceTypeOK'
    BY <1>6, ConfigAssumption
    DEF CheckDone, CheckNotDone, Deadline, CtxReturn, Return, TypeOK, TraceTypeOK, Location
  <2>2. ReplyTypeOK' /\ RequestTypeOK' /\ ServeTypeOK'
    BY <1>6 DEF CheckDone, CheckNotDone, Deadline, CtxReturn, TypeOK, ReplyTypeOK, RequestTypeOK,
                ServeTypeOK, serveVars
  <2> QED
    BY <2>1, <2>2 DEF TypeOK
<1>7. CASE Close(s) \/ RemoveSession(s)
  <2>1. TraceTypeOK'
    BY <1>7 DEF Close, RemoveSession, TypeOK, TraceTypeOK, Location, traceVars
  <2>2. ServeTypeOK'
    BY <1>7 DEF Close, RemoveSession, SessWithout, TypeOK, ServeTypeOK, serveVars
  <2>3. ReplyTypeOK' /\ RequestTypeOK'
    BY <1>7 DEF Close, RemoveSession, TypeOK, ReplyTypeOK, RequestTypeOK, serveVars
  <2> QED
    BY <2>1, <2>2, <2>3 DEF TypeOK
<1> QED
  BY <1>1, <1>2, <1>3, <1>4, <1>5, <1>6, <1>7 DEF Trace

LEMMA ServeStepType ==
    ASSUME TypeOK, NEW q \in sent, Serve(q)
    PROVE  TypeOK'
<1>1. q \in [n : Nat, s : Sessions, ttl : 1 .. MaxHops + 1]
  BY DEF TypeOK, RequestTypeOK
<1>2. DestOf[q.s] \in Dests /\ FamilyOf(DestOf[q.s]) \in Families
  BY <1>1, DestsAssumption DEF FamilyOf, Families
<1>3. Late(sess[DestOf[q.s]]) \in SUBSET Nat
  BY <1>2 DEF Late, Packet, TypeOK, RequestTypeOK, ServeTypeOK
<1>4. Answers[q.ttl] \in SUBSET Answer
  BY <1>1, AnswersAssumption
<1>5. \A a \in Answers[q.ttl] :
         [n |-> q.n, target |-> a.target, ttl |-> a.ttl, late |-> Late(sess[DestOf[q.s]])] \in Arrival
  BY <1>1, <1>3, <1>4 DEF Answer, Arrival
<1>6. res' \in [Families -> Arrival]
  BY <1>2, <1>5 DEF Serve, TypeOK, ServeTypeOK
<1>7. todo' \in [Families -> SUBSET Sessions]
  BY <1>2 DEF Serve, TypeOK, ServeTypeOK
<1>8. ServeTypeOK'
  BY <1>6, <1>7 DEF Serve, TypeOK, ServeTypeOK
<1>9. TraceTypeOK' /\ ReplyTypeOK' /\ RequestTypeOK'
  BY DEF Serve, TypeOK, TraceTypeOK, ReplyTypeOK, RequestTypeOK, traceVars
<1> QED
  BY <1>8, <1>9 DEF TypeOK

LEMMA ScanType ==
    ASSUME TypeOK, NEW f \in Families, NEW s \in Sessions, Scan(f, s)
    PROVE  TraceTypeOK' /\ RequestTypeOK' /\ ServeTypeOK'
<1>1. TraceTypeOK'
  BY DEF Scan, TypeOK, TraceTypeOK, traceVars
<1>2. {p.n : p \in TimedOut(f, s)} \in SUBSET Nat
  BY DEF TimedOut, Packet, TypeOK, RequestTypeOK
<1>3. RequestTypeOK'
  BY <1>2 DEF Scan, TypeOK, RequestTypeOK
<1>4. ServeTypeOK'
  BY DEF Scan, TypeOK, ServeTypeOK
<1> QED
  BY <1>1, <1>3, <1>4

LEMMA ServeGoroutineType ==
    ASSUME TypeOK, NEW f \in Families, ServeGoroutine(f)
    PROVE  TypeOK'
<1>1. ASSUME NEW s \in Sessions, HandleUnmatched(f, s) PROVE TypeOK'
  <2>1. ReplyTypeOK'
    BY <1>1 DEF HandleUnmatched, Scan, TypeOK, ReplyTypeOK
  <2> QED
    BY <1>1, <2>1, ScanType DEF HandleUnmatched, TypeOK
<1>2. ASSUME NEW s \in Sessions, HandleMatched(f, s) PROVE TypeOK'
  <2> DEFINE r(p) == [req |-> p.n, cause |-> res[f].n, target |-> res[f].target,
                      hops |-> HopsOf(p.ttl, res[f].ttl)]
  <2>1. PICK p \in Matches(f, s) : out' = [out EXCEPT ![f] = [s |-> s, reply |-> r(p)]]
    BY <1>2 DEF HandleMatched
  <2>2. p \in Packet /\ res[f] \in Arrival
    BY DEF Matches, TypeOK, RequestTypeOK, ServeTypeOK
  <2>3. HopsOf(p.ttl, res[f].ttl) \in Nat \ {0}
    BY <2>2 DEF HopsOf, Packet, Arrival
  <2>4. r(p) \in Reply
    BY <2>2, <2>3 DEF Packet, Reply, Arrival
  <2>5. [s |-> s, reply |-> r(p)] \in [s : Sessions, reply : Reply]
    BY <2>4
  <2>6. ReplyTypeOK'
    BY <1>2, <2>1, <2>5 DEF HandleMatched, Scan, TypeOK, ReplyTypeOK
  <2> QED
    BY <1>2, <2>6, ScanType DEF HandleMatched, TypeOK
<1>3. CASE Deliver(f)
  <2>1. out[f] \in [s : Sessions, reply : Reply]
    BY <1>3 DEF Deliver, TypeOK, ReplyTypeOK
  <2>2. Append(ch[out[f].s], out[f].reply) \in Seq(Reply)
    BY <2>1 DEF TypeOK, ReplyTypeOK
  <2>3. ReplyTypeOK'
    BY <1>3, <2>1, <2>2 DEF Deliver, TypeOK, ReplyTypeOK
  <2>4. TraceTypeOK' /\ RequestTypeOK' /\ ServeTypeOK'
    BY <1>3 DEF Deliver, TypeOK, TraceTypeOK, RequestTypeOK, ServeTypeOK, traceVars
  <2> QED
    BY <2>3, <2>4 DEF TypeOK
<1> QED
  BY <1>1, <1>2, <1>3 DEF ServeGoroutine

LEMMA TickType ==
    ASSUME TypeOK, Tick
    PROVE  TypeOK'
<1>1. RequestTypeOK'
  <2>1. \A s \in Sessions : Older(probes[s]) \in SUBSET Packet /\ Older(sending[s]) \in SUBSET Packet
    BY OlderType DEF TypeOK, RequestTypeOK
  <2> QED
    BY <2>1 DEF Tick, TypeOK, RequestTypeOK
<1>2. timer' \in [Sessions -> 0 .. Timeout]
  <2>1. timer \in [Sessions -> 0 .. Timeout] /\ Timeout \in Nat
    BY ConfigAssumption DEF TypeOK, TraceTypeOK
  <2> QED
    BY <2>1 DEF Tick
<1>3. TraceTypeOK'
  BY <1>2 DEF Tick, TypeOK, TraceTypeOK
<1>4. ReplyTypeOK' /\ ServeTypeOK'
  BY DEF Tick, TypeOK, ReplyTypeOK, ServeTypeOK, serveVars
<1> QED
  BY <1>1, <1>3, <1>4 DEF TypeOK

LEMMA NextType ==
    ASSUME TypeOK, [Next]_vars
    PROVE  TypeOK'
<1>1. CASE InitTracer \/ CtxDone
  <2>1. ServeTypeOK'
    BY <1>1 DEF InitTracer, CtxDone, TypeOK, ServeTypeOK, serveVars
  <2>2. TraceTypeOK' /\ ReplyTypeOK' /\ RequestTypeOK'
    BY <1>1 DEF InitTracer, CtxDone, TypeOK, TraceTypeOK, ReplyTypeOK, RequestTypeOK, serveVars,
                traceVars
  <2> QED
    BY <2>1, <2>2 DEF TypeOK
<1>2. CASE Finished \/ UNCHANGED vars
  BY <1>2 DEF Finished, vars, traceVars, serveVars, TypeOK, TraceTypeOK, ReplyTypeOK, RequestTypeOK,
              ServeTypeOK
<1> QED
  BY <1>1, <1>2, TraceStepType, ServeStepType, ServeGoroutineType, TickType DEF Next

(* The state of the tracer has its types: in particular a reported         *)
(* distance is at least 1, and ttl and max stay between 1 and MaxHops.     *)
THEOREM TypeCorrect == Spec => []TypeOK
<1>1. TypeOK /\ [Next]_vars => TypeOK'
  BY NextType
<1> QED
  BY <1>1, InitType, PTL DEF Spec

-----------------------------------------------------------------------------
(* Where the matched replies of a session go.                              *)
ReplyVars == <<ch, got, out>>

LEMMA SameReplies ==
    ASSUME UNCHANGED ReplyVars, NEW s \in Sessions
    PROVE  MatchedFor(s)' = MatchedFor(s)
BY DEF ReplyVars, MatchedFor, Replies

LEMMA AppendElements ==
    ASSUME NEW S, NEW q \in Seq(S), NEW e \in S
    PROVE  /\ Append(q, e) \in Seq(S) /\ Len(Append(q, e)) = Len(q) + 1 /\ Len(q) \in Nat
           /\ \A i \in 1 .. Len(q) : Append(q, e)[i] = q[i]
           /\ Append(q, e)[Len(q) + 1] = e
OBVIOUS

(* Moving the head of one sequence to the end of another keeps what they   *)
(* hold together, in the same order.                                       *)
LEMMA MoveHead ==
    ASSUME NEW S, NEW a \in Seq(S), NEW b \in Seq(S), b # <<>>
    PROVE  Append(a, Head(b)) \o Tail(b) = a \o b
<1> DEFINE h == Head(b)
           c == Append(a, h)
           d == Tail(b)
<1>1. /\ h \in S /\ d \in Seq(S) /\ Len(d) = Len(b) - 1 /\ h = b[1]
      /\ \A i \in 1 .. Len(d) : d[i] = b[i + 1]
  BY HeadTailProperties
<1>2. /\ c \in Seq(S) /\ Len(c) = Len(a) + 1 /\ Len(a) \in Nat /\ c[Len(a) + 1] = h
      /\ \A i \in 1 .. Len(a) : c[i] = a[i]
  BY <1>1, AppendElements
<1>3. Len(b) \in Nat \ {0}
  BY EmptySeq
<1> HIDE DEF h, c, d
<1>4. /\ c \o d \in Seq(S) /\ Len(c \o d) = Len(c) + Len(d)
      /\ \A i \in 1 .. Len(c) + Len(d) : (c \o d)[i] = IF i <= Len(c) THEN c[i] ELSE d[i - Len(c)]
  BY <1>1, <1>2, ConcatProperties
<1>5. /\ a \o b \in Seq(S) /\ Len(a \o b) = Len(a) + Len(b)
      /\ \A i \in 1 .. Len(a) + Len(b) : (a \o b)[i] = IF i <= Len(a) THEN a[i] ELSE b[i - Len(a)]
  BY ConcatProperties
<1>6. ASSUME NEW i \in 1 .. Len(a) + Len(b) PROVE (c \o d)[i] = (a \o b)[i]
  <2>1. CASE i <= Len(a)
    BY <2>1, <1>1, <1>2, <1>3, <1>4, <1>5
  <2>2. CASE i = Len(a) + 1
    <3>1. (c \o d)[i] = c[i] /\ (a \o b)[i] = b[1]
      BY <2>2, <1>1, <1>2, <1>3, <1>4, <1>5
    <3> QED
      BY <3>1, <2>2, <1>1, <1>2
  <2>3. CASE i > Len(a) + 1
    <3>1. i - Len(c) \in 1 .. Len(d) /\ i - Len(c) + 1 = i - Len(a)
      BY <2>3, <1>1, <1>2, <1>3
    <3>2. (c \o d)[i] = d[i - Len(c)] /\ (a \o b)[i] = b[i - Len(a)]
      BY <2>3, <1>1, <1>2, <1>3, <1>4, <1>5
    <3> QED
      BY <3>1, <3>2, <1>1
  <2>4. Len(a) \in Int /\ i \in Int
    BY <1>2, <1>3
  <2>5. i <= Len(a) \/ i = Len(a) + 1 \/ i > Len(a) + 1
    BY <2>4
  <2> QED
    BY <2>1, <2>2, <2>3, <2>5, Zenon
<1>7. Len(c \o d) = Len(a \o b)
  BY <1>1, <1>2, <1>3, <1>4, <1>5
<1>8. c \o d = a \o b
  BY <1>4, <1>5, <1>6, <1>7, SeqEqual
<1> QED
  BY <1>8 DEF c, d, h

LEMMA AppendToConcat ==
    ASSUME NEW S, NEW a \in Seq(S), NEW b \in Seq(S), NEW e \in S
    PROVE  /\ a \o b \in Seq(S)
           /\ a \o Append(b, e) = Append(a \o b, e)
<1> DEFINE c == Append(b, e)
           d == a \o b
           f == Append(d, e)
<1>1. /\ c \in Seq(S) /\ Len(c) = Len(b) + 1 /\ Len(b) \in Nat /\ Len(a) \in Nat
      /\ c[Len(b) + 1] = e /\ \A i \in 1 .. Len(b) : c[i] = b[i]
  BY AppendElements
<1>2. /\ d \in Seq(S) /\ Len(d) = Len(a) + Len(b)
      /\ \A i \in 1 .. Len(a) + Len(b) : d[i] = IF i <= Len(a) THEN a[i] ELSE b[i - Len(a)]
  BY ConcatProperties
<1>3. /\ f \in Seq(S) /\ Len(f) = Len(d) + 1 /\ f[Len(d) + 1] = e
      /\ \A i \in 1 .. Len(d) : f[i] = d[i]
  BY <1>2, AppendElements
<1> HIDE DEF c, d, f
<1>4. /\ a \o c \in Seq(S) /\ Len(a \o c) = Len(a) + Len(c)
      /\ \A i \in 1 .. Len(a) + Len(c) : (a \o c)[i] = IF i <= Len(a) THEN a[i] ELSE c[i - Len(a)]
  BY <1>1, ConcatProperties
<1>5. ASSUME NEW i \in 1 .. Len(a) + Len(b) + 1 PROVE (a \o c)[i] = f[i]
  <2>1. CASE i <= Len(a)
    BY <2>1, <1>1, <1>2, <1>3, <1>4
  <2>2. CASE i > Len(a) /\ i <= Len(a) + Len(b)
    <3>1. i - Len(a) \in 1 .. Len(b) /\ i \in 1 .. Len(d)
      BY <2>2, <1>1, <1>2
    <3>2. (a \o c)[i] = c[i - Len(a)] /\ d[i] = b[i - Len(a)]
      BY <2>2, <1>1, <1>2, <1>4
    <3> QED
      BY <3>1, <3>2, <1>1, <1>3
  <2>3. CASE i = Len(a) + Len(b) + 1
    <3>1. (a \o c)[i] = c[i - Len(a)] /\ i - Len(a) = Len(b) + 1
      BY <2>3, <1>1, <1>4
    <3> QED
      BY <3>1, <2>3, <1>1, <1>2, <1>3
  <2> QED
    BY <2>1, <2>2, <2>3, <1>1
<1>6. Len(a \o c) = Len(f) /\ Len(f) = Len(a) + Len(b) + 1
  BY <1>1, <1>2, <1>3, <1>4
<1>7. a \o c = f
  BY <1>3, <1>4, <1>5, <1>6, SeqEqual
<1> QED
  BY <1>2, <1>7 DEF c, d, f

(* h consumes the head of the channel: the replies of every session stay.  *)
LEMMA TakeReplyMoves ==
    ASSUME TypeOK, NEW s \in Sessions, TakeReply(s), NEW t \in Sessions
    PROVE  Replies(t)' = Replies(t)
<1>1. /\ ch \in [Sessions -> Seq(Reply)] /\ got \in [Sessions -> Seq(Reply)] /\ ch[s] # <<>>
      /\ ch' = [ch EXCEPT ![s] = Tail(@)] /\ got' = [got EXCEPT ![s] = Append(@, Head(ch[s]))]
  BY DEF TypeOK, ReplyTypeOK, TakeReply
<1>2. CASE t = s
  <2>1. Append(got[s], Head(ch[s])) \o Tail(ch[s]) = got[s] \o ch[s]
    BY <1>1, MoveHead
  <2>2. ch'[s] = Tail(ch[s]) /\ got'[s] = Append(got[s], Head(ch[s]))
    BY <1>1
  <2> QED
    BY <1>2, <2>1, <2>2 DEF Replies
<1>3. CASE t # s
  <2>1. ch'[t] = ch[t] /\ got'[t] = got[t]
    BY <1>1, <1>3
  <2> QED
    BY <2>1 DEF Replies
<1> QED
  BY <1>2, <1>3

(* The send of handle: the reply moves from out to the channel, or is      *)
(* dropped because the channel is full.                                    *)
LEMMA DeliverMoves ==
    ASSUME TypeOK, NEW f \in Families, Deliver(f), NEW t \in Sessions
    PROVE  \/ Replies(t)' = Replies(t)
           \/ t = out[f].s /\ Replies(t)' = Append(Replies(t), out[f].reply)
<1>1. /\ ch \in [Sessions -> Seq(Reply)] /\ got \in [Sessions -> Seq(Reply)] /\ got' = got
      /\ out[f].reply \in Reply /\ out[f].s \in Sessions
      /\ \/ ch' = ch
         \/ ch' = [ch EXCEPT ![out[f].s] = Append(@, out[f].reply)]
  BY DEF TypeOK, ReplyTypeOK, Deliver
<1>2. CASE ch'[t] = ch[t]
  BY <1>1, <1>2 DEF Replies
<1>3. CASE ch'[t] # ch[t]
  <2>1. t = out[f].s /\ ch'[t] = Append(ch[t], out[f].reply)
    BY <1>1, <1>3
  <2>2. got[t] \o Append(ch[t], out[f].reply) = Append(got[t] \o ch[t], out[f].reply)
    BY <1>1, AppendToConcat
  <2> QED
    BY <1>1, <2>1, <2>2 DEF Replies
<1> QED
  BY <1>2, <1>3

LEMMA RepliesType ==
    ASSUME TypeOK, NEW t \in Sessions
    PROVE  Replies(t) \in Seq(Reply)
BY ConcatProperties DEF Replies, TypeOK, ReplyTypeOK

-----------------------------------------------------------------------------
(* The inductive invariant.  It has three kinds of steps: those that leave *)
(* every reply where it is and answer no request, those that move a reply, *)
(* and HandleMatched, which turns an unanswered request into a reply.      *)

(* What a step that matches nothing does to the replies of all sessions.   *)
RepliesKept ==
    \A t \in Sessions : Replies(t)' = Replies(t)

(* What such a step does to the requests: it may draw a fresh number.      *)
RequestsKept ==
    /\ seq' >= seq /\ seq' \in Nat /\ sent \subseteq sent'
    /\ \A t \in Sessions : \A p \in Unanswered(t)' : \E q \in Unanswered(t) : q.n = p.n

LEMMA MatchedForType ==
    ASSUME TypeOK, NEW t \in Sessions
    PROVE  MatchedFor(t) \subseteq Reply
<1>1. \A i \in 1 .. Len(Replies(t)) : Replies(t)[i] \in Reply
  BY RepliesType, ElementOfSeq
<1>2. \A f \in Families : out[f] # NoReply => out[f].reply \in Reply
  BY DEF TypeOK, ReplyTypeOK
<1> QED
  BY <1>1, <1>2 DEF MatchedFor

LEMMA KeptMatchedInv ==
    ASSUME TypeOK, MatchedInv, RequestsKept,
           \A t \in Sessions : MatchedFor(t)' \subseteq MatchedFor(t)
    PROVE  MatchedInv'
<1> SUFFICES ASSUME NEW s \in Sessions, NEW r \in MatchedFor(s)'
             PROVE  /\ r.req <= seq' /\ \E q \in sent' : q.n = r.req /\ q.s = s
                    /\ \A p \in Unanswered(s)' : p.n # r.req
  BY DEF MatchedInv
<1>1. r \in MatchedFor(s) /\ r \in Reply
  BY MatchedForType
<1>2. r.req <= seq /\ r.req \in Nat /\ seq \in Nat
  BY <1>1 DEF MatchedInv, Reply, TypeOK, RequestTypeOK
<1>3. r.req <= seq'
  BY <1>2 DEF RequestsKept
<1>4. \E q \in sent' : q.n = r.req /\ q.s = s
  BY <1>1 DEF MatchedInv, RequestsKept
<1>5. \A p \in Unanswered(s)' : p.n # r.req
  BY <1>1 DEF MatchedInv, RequestsKept
<1> QED
  BY <1>3, <1>4, <1>5

LEMMA KeptAttributed ==
    ASSUME TypeOK, AttributedToCause, seq' >= seq, seq' \in Nat, sent \subseteq sent',
           \A t \in Sessions : MatchedFor(t)' \subseteq MatchedFor(t)
    PROVE  AttributedToCause'
<1>1. seq' < IdSpace => seq < IdSpace
  BY ConfigAssumption DEF TypeOK, RequestTypeOK
<1> QED
  BY <1>1 DEF AttributedToCause, FamilyOf

LEMMA KeptAnsweredOnce ==
    ASSUME AnsweredOnce, RepliesKept, UNCHANGED out
    PROVE  AnsweredOnce'
BY DEF AnsweredOnce, RepliesKept, DistinctReqs, NotAmong

LEMMA KeptMatchedFor ==
    ASSUME RepliesKept, UNCHANGED out, NEW t \in Sessions
    PROVE  MatchedFor(t)' = MatchedFor(t)
BY DEF RepliesKept, MatchedFor

(* A request in flight is not yet registered.                              *)
SendingUnregistered ==
    \A t \in Sessions : \A p \in probes[t], q \in sending[t] : p.n # q.n

LEMMA KeptRequestInv ==
    ASSUME TypeOK, RequestInv, RequestsKept, SendingUnregistered'
    PROVE  RequestInv'
<1> SUFFICES ASSUME NEW t \in Sessions, NEW p \in Unanswered(t)'
             PROVE  p.n <= seq' /\ \E q \in sent' : q.n = p.n /\ q.s = t
  BY DEF RequestInv, SendingUnregistered
<1>1. PICK u \in Unanswered(t) : u.n = p.n
  BY DEF RequestsKept
<1>2. u.n \in Nat /\ u.n <= seq /\ seq \in Nat /\ \E q \in sent : q.n = u.n /\ q.s = t
  BY DEF RequestInv, Unanswered, TypeOK, RequestTypeOK, Packet
<1> QED
  BY <1>1, <1>2 DEF RequestsKept

(* Steps that match and send nothing.                                      *)
LEMMA QuietStep ==
    ASSUME IInv, TypeOK', RepliesKept, UNCHANGED out, RequestsKept, SendingUnregistered', ServeInv'
    PROVE  IInv'
<1>1. TypeOK /\ RequestInv /\ MatchedInv /\ AnsweredOnce /\ AttributedToCause
  BY DEF IInv
<1>2. RequestInv' /\ AnsweredOnce'
  BY <1>1, KeptRequestInv, KeptAnsweredOnce
<1>3. \A t \in Sessions : MatchedFor(t)' \subseteq MatchedFor(t)
  BY KeptMatchedFor
<1>4. MatchedInv'
  BY <1>1, <1>3, KeptMatchedInv
<1>5. AttributedToCause'
  BY <1>1, <1>3, KeptAttributed DEF RequestsKept
<1> QED
  BY <1>2, <1>4, <1>5 DEF IInv

LEMMA SameRepliesKept ==
    ASSUME UNCHANGED <<ch, got>>
    PROVE  RepliesKept
BY DEF RepliesKept, Replies

LEMMA SameRequestsKept ==
    ASSUME TypeOK, RequestInv, UNCHANGED <<seq, sent, probes, sending>>
    PROVE  RequestsKept /\ SendingUnregistered'
<1>1. seq \in Nat
  BY DEF TypeOK, RequestTypeOK
<1>2. \A t \in Sessions : Unanswered(t)' = Unanswered(t)
  BY DEF Unanswered
<1>3. RequestsKept
  BY <1>1, <1>2 DEF RequestsKept
<1> QED
  BY <1>3 DEF SendingUnregistered, RequestInv

(* ServeInv only depends on the registered sessions and on what is served. *)
LEMMA SameServeInv ==
    ASSUME TypeOK, TypeOK', ServeInv, UNCHANGED <<sess, todo, res>>, seq' >= seq,
           \A q \in sent' : q \in sent \/ q.n <= seq'
    PROVE  ServeInv'
<1>1. \A q \in sent' : q.n <= seq'
  <2>1. \A q \in sent : q.n \in Nat /\ q.n <= seq
    BY DEF TypeOK, RequestTypeOK, ServeInv
  <2>2. seq \in Nat /\ seq' \in Nat
    BY DEF TypeOK, RequestTypeOK
  <2> QED
    BY <2>1, <2>2
<1>2. \A f \in Families : res[f].n \in Nat /\ res[f].n <= seq
  BY DEF TypeOK, ServeTypeOK, Arrival, ServeInv
<1>3. \A f \in Families : res'[f].n <= seq'
  <2>1. seq \in Nat /\ seq' \in Nat
    BY DEF TypeOK, RequestTypeOK
  <2> QED
    BY <1>2, <2>1
<1> QED
  BY <1>1, <1>3 DEF ServeInv, FamilyOf

(* Steps that assign neither replies nor requests nor what is served.      *)
LEMMA IdleStep ==
    ASSUME IInv, TypeOK', UNCHANGED <<ch, got, out, seq, sent, probes, sending, sess, todo, res>>
    PROVE  IInv'
<1>1. TypeOK /\ RequestInv /\ ServeInv
  BY DEF IInv
<1>2. RepliesKept
  BY SameRepliesKept
<1>3. RequestsKept /\ SendingUnregistered'
  BY <1>1, SameRequestsKept
<1>4. seq' >= seq /\ \A q \in sent' : q \in sent \/ q.n <= seq'
  BY <1>1 DEF TypeOK, RequestTypeOK
<1>5. ServeInv'
  BY <1>1, <1>4, SameServeInv
<1> QED
  BY <1>2, <1>3, <1>5, QuietStep

(* Distinct numbers below IdSpace have distinct identifiers.               *)
LEMMA DistinctIDs ==
    ASSUME NEW m \in Nat, NEW n \in Nat, m < IdSpace, n < IdSpace, ID(m) = ID(n)
    PROVE  m = n
BY ConfigAssumption DEF ID

-----------------------------------------------------------------------------
(* Ping, first half: the request gets a number nothing carries yet.        *)
LEMMA SendRequestStep ==
    ASSUME IInv, TypeOK', NEW s \in Sessions, SendRequest(s)
    PROVE  IInv'
<1> DEFINE new == [n |-> seq + 1, ttl |-> ttl[s] + 1, age |-> 0]
<1>1. TypeOK /\ RequestInv /\ MatchedInv /\ ServeInv /\ AnsweredOnce /\ AttributedToCause
  BY DEF IInv
<1>2. /\ seq \in Nat /\ seq' = seq + 1 /\ sending \in [Sessions -> SUBSET Packet]
      /\ sent' = sent \cup {[n |-> seq + 1, s |-> s, ttl |-> ttl[s] + 1]}
      /\ sending' = [sending EXCEPT ![s] = {new}]
      /\ UNCHANGED <<sess, probes, ch, got, out, todo, res>>
  BY <1>1 DEF SendRequest, TypeOK, RequestTypeOK, serveVars
<1>3. \A t \in Sessions : \A p \in Unanswered(t) : p.n \in Nat /\ p.n <= seq
  BY <1>1 DEF TypeOK, RequestTypeOK, RequestInv, Unanswered, Packet
<1>4. \A t \in Sessions : \A p \in Unanswered(t)' : p \in Unanswered(t) \/ (t = s /\ p = new)
  BY <1>2 DEF Unanswered
<1>5. RepliesKept /\ \A t \in Sessions : MatchedFor(t)' = MatchedFor(t)
  BY <1>2, SameRepliesKept, KeptMatchedFor
<1>6. RequestInv'
  <2>1. ASSUME NEW t \in Sessions, NEW p \in Unanswered(t)'
        PROVE  p.n <= seq' /\ \E q \in sent' : q.n = p.n /\ q.s = t
    <3>1. CASE p \in Unanswered(t)
      BY <3>1, <1>1, <1>2, <1>3 DEF RequestInv
    <3>2. CASE t = s /\ p = new
      <4>1. PICK w \in sent' : w.n = seq + 1 /\ w.s = s
        <5> DEFINE w == [n |-> seq + 1, s |-> s, ttl |-> ttl[s] + 1]
        <5>1. w \in sent' /\ w.n = seq + 1 /\ w.s = s
          BY <1>2
        <5> QED
          BY <5>1, Zenon
      <4>2. p.n = seq + 1 /\ p.n <= seq'
        <5>1. new.n = seq + 1
          OBVIOUS
        <5>2. p.n = seq + 1
          BY <3>2, <5>1
        <5> QED
          BY <5>2, <1>2
      <4> QED
        BY <3>2, <4>1, <4>2
    <3> QED
      BY <2>1, <3>1, <3>2, <1>4
  <2>2. ASSUME NEW t \in Sessions, NEW p \in probes'[t], NEW q \in sending'[t] PROVE p.n # q.n
    <3>1. p \in probes[t] /\ p.n \in Nat /\ p.n <= seq
      BY <1>2, <1>3 DEF Unanswered
    <3>2. CASE t = s
      <4>1. q = new
        BY <3>2, <1>2
      <4> QED
        BY <4>1, <3>1, <1>2
    <3>3. CASE t # s
      BY <3>1, <3>3, <1>1, <1>2 DEF RequestInv
    <3> QED
      BY <3>2, <3>3
  <2> QED
    BY <2>1, <2>2 DEF RequestInv
<1>7. MatchedInv'
  <2> SUFFICES ASSUME NEW t \in Sessions, NEW r \in MatchedFor(t)
               PROVE  /\ r.req <= seq' /\ \E q \in sent' : q.n = r.req /\ q.s = t
                      /\ \A p \in Unanswered(t)' : p.n # r.req
    BY <1>5 DEF MatchedInv
  <2>1. /\ r.req \in Nat /\ r.req <= seq /\ \E q \in sent : q.n = r.req /\ q.s = t
        /\ \A p \in Unanswered(t) : p.n # r.req
    BY <1>1, MatchedForType DEF MatchedInv, Reply
  <2>2. r.req <= seq' /\ new.n # r.req
    BY <2>1, <1>2
  <2> QED
    BY <2>1, <2>2, <1>2, <1>4
<1>8. ServeInv'
  <2>1. seq' >= seq /\ \A q \in sent' : q \in sent \/ q.n <= seq'
    BY <1>2
  <2> QED
    BY <2>1, <1>1, <1>2, SameServeInv
<1>9. AnsweredOnce'
  BY <1>1, <1>2, <1>5, KeptAnsweredOnce
<1>10. AttributedToCause'
  <2>1. seq' >= seq /\ seq' \in Nat /\ sent \subseteq sent'
    BY <1>2
  <2> QED
    BY <2>1, <1>1, <1>5, KeptAttributed
<1> QED
  BY <1>6, <1>7, <1>8, <1>9, <1>10 DEF IInv

(* Ping, second half, and a Ping that fails after drawing its number.      *)
LEMMA AppendProbeStep ==
    ASSUME IInv, TypeOK', NEW s \in Sessions, AppendProbe(s) \/ SendRequestFails(s)
    PROVE  IInv'
<1>1. TypeOK /\ RequestInv /\ ServeInv /\ seq \in Nat
      /\ probes \in [Sessions -> SUBSET Packet] /\ sending \in [Sessions -> SUBSET Packet]
  BY DEF IInv, TypeOK, RequestTypeOK
<1>2. UNCHANGED <<sess, ch, got, out, todo, res, sent>> /\ (seq' = seq \/ seq' = seq + 1)
  BY DEF AppendProbe, SendRequestFails, serveVars
<1>3. \A t \in Sessions : /\ Unanswered(t)' \subseteq Unanswered(t)
                          /\ sending'[t] = {} \/ (probes'[t] = probes[t] /\ sending'[t] = sending[t])
  BY <1>1 DEF AppendProbe, SendRequestFails, Unanswered
<1>4. seq' >= seq /\ seq' \in Nat
  BY <1>1, <1>2
<1>5. RequestsKept
  BY <1>2, <1>3, <1>4 DEF RequestsKept
<1>6. SendingUnregistered'
  BY <1>1, <1>3 DEF SendingUnregistered, RequestInv
<1>7. ServeInv'
  BY <1>1, <1>2, <1>4, SameServeInv
<1> QED
  BY <1>2, <1>5, <1>6, <1>7, SameRepliesKept, QuietStep

LEMMA ReceiveStep ==
    ASSUME IInv, TypeOK', NEW s \in Sessions, ReceiveWhilePinging(s) \/ ReceiveWhileDraining(s)
    PROVE  IInv'
<1>1. TypeOK /\ RequestInv /\ ServeInv
  BY DEF IInv
<1>2. TakeReply(s) /\ UNCHANGED <<seq, sent, probes, sending, sess, out, todo, res>>
  BY DEF ReceiveWhilePinging, ReceiveWhileDraining, serveVars
<1>3. RepliesKept
  BY <1>1, <1>2, TakeReplyMoves DEF RepliesKept
<1>4. RequestsKept /\ SendingUnregistered'
  BY <1>1, <1>2, SameRequestsKept
<1>5. seq' >= seq /\ \A q \in sent' : q \in sent \/ q.n <= seq'
  BY <1>1, <1>2 DEF TypeOK, RequestTypeOK
<1>6. ServeInv'
  BY <1>1, <1>2, <1>5, SameServeInv
<1> QED
  BY <1>2, <1>3, <1>4, <1>6, QuietStep

LEMMA RegistrationStep ==
    ASSUME IInv, TypeOK', NEW s \in Sessions, AddSession(s) \/ RemoveSession(s)
    PROVE  IInv'
<1>1. TypeOK /\ RequestInv /\ ServeInv
  BY DEF IInv
<1>2. UNCHANGED <<seq, sent, probes, sending, ch, got, out, todo, res>>
  BY DEF AddSession, RemoveSession, serveVars
<1>3. RequestsKept /\ SendingUnregistered'
  BY <1>1, <1>2, SameRequestsKept
<1>4. \A d \in Dests : \A t \in sess'[d] : t \in sess[d] \/ (t = s /\ d = DestOf[s])
  BY <1>1 DEF AddSession, RemoveSession, SessWithout, TypeOK, ServeTypeOK
<1>5. ServeInv'
  BY <1>1, <1>2, <1>4 DEF ServeInv, FamilyOf
<1> QED
  BY <1>2, <1>3, <1>5, SameRepliesKept, QuietStep

LEMMA TraceStep ==
    ASSUME IInv, TypeOK', NEW s \in Sessions, Trace(s)
    PROVE  IInv'
<1>1. CASE \/ NewSession(s) \/ NewSessionFails(s) \/ DelayTick(s) \/ CheckDone(s)
           \/ CheckNotDone(s) \/ Deadline(s) \/ CtxReturn(s) \/ Close(s)
  <2>1. UNCHANGED <<ch, got, out, seq, sent, probes, sending, sess, todo, res>>
    BY <1>1 DEF NewSession, NewSessionFails, DelayTick, CheckDone, CheckNotDone, Deadline, CtxReturn,
                Close, serveVars
  <2> QED
    BY <2>1, IdleStep
<1> QED
  BY <1>1, SendRequestStep, AppendProbeStep, ReceiveStep, RegistrationStep DEF Trace

-----------------------------------------------------------------------------
(* A reply is bound to the sessions registered for its destination.        *)
LEMMA ServeStep ==
    ASSUME IInv, TypeOK', NEW q \in sent, Serve(q)
    PROVE  IInv'
<1>1. TypeOK /\ RequestInv /\ ServeInv
  BY DEF IInv
<1>2. UNCHANGED <<seq, sent, probes, sending, ch, got, out, sess>>
  BY DEF Serve
<1>3. RequestsKept /\ SendingUnregistered'
  BY <1>1, <1>2, SameRequestsKept
<1> DEFINE d == DestOf[q.s]
           f == FamilyOf(d)
<1>4. q.n <= seq /\ q.s \in Sessions /\ d \in Dests /\ f \in Families
  BY <1>1, DestsAssumption DEF ServeInv, TypeOK, RequestTypeOK, FamilyOf, Families
<1>5. res'[f].n = q.n /\ \A g \in Families \ {f} : res'[g] = res[g]
  BY <1>1, <1>4 DEF Serve, TypeOK, ServeTypeOK
<1>6. todo'[f] = sess[d] /\ \A g \in Families \ {f} : todo'[g] = todo[g]
  BY <1>1, <1>4 DEF Serve, TypeOK, ServeTypeOK
<1>7. \A s \in sess[d] : FamilyOf(DestOf[s]) = f
  BY <1>1, <1>4 DEF ServeInv
<1>8. \A g \in Families : res'[g].n <= seq /\ \A s \in todo'[g] : FamilyOf(DestOf[s]) = g
  BY <1>1, <1>4, <1>5, <1>6, <1>7 DEF ServeInv
<1>9. ServeInv'
  BY <1>1, <1>2, <1>8 DEF ServeInv, FamilyOf
<1> QED
  BY <1>2, <1>3, <1>9, SameRepliesKept, QuietStep

(* What the scan of handle leaves, whether or not it found a match.        *)
LEMMA ScanKeeps ==
    ASSUME IInv, TypeOK', NEW f \in Families, NEW s \in Sessions, Scan(f, s)
    PROVE  /\ RequestsKept /\ SendingUnregistered' /\ ServeInv' /\ RepliesKept
           /\ \A t \in Sessions : Unanswered(t)' \subseteq Unanswered(t)
           /\ Unanswered(s)' = (probes[s] \ Gone(f, s)) \cup sending[s]
<1>1. TypeOK /\ RequestInv /\ ServeInv /\ seq \in Nat /\ probes \in [Sessions -> SUBSET Packet]
      /\ todo \in [Families -> SUBSET Sessions]
  BY DEF IInv, TypeOK, RequestTypeOK, ServeTypeOK
<1>2. /\ UNCHANGED <<seq, sent, sending, ch, got, sess, res>>
      /\ probes'[s] = probes[s] \ Gone(f, s)
      /\ \A t \in Sessions : probes'[t] \subseteq probes[t]
      /\ \A g \in Families : todo'[g] \subseteq todo[g]
  BY <1>1 DEF Scan
<1>3. /\ \A t \in Sessions : Unanswered(t)' \subseteq Unanswered(t)
      /\ Unanswered(s)' = (probes[s] \ Gone(f, s)) \cup sending[s]
  BY <1>2 DEF Unanswered
<1>4. RequestsKept
  BY <1>1, <1>2, <1>3 DEF RequestsKept
<1>5. SendingUnregistered'
  BY <1>1, <1>2 DEF SendingUnregistered, RequestInv
<1>6. ServeInv'
  BY <1>1, <1>2 DEF ServeInv, FamilyOf
<1> QED
  BY <1>2, <1>3, <1>4, <1>5, <1>6, SameRepliesKept

(* handle found a match: the request p becomes a reply.  It was unanswered *)
(* before the step and is not afterwards.                                  *)
LEMMA HandleMatchedStep ==
    ASSUME IInv, TypeOK', NEW f \in Families, NEW s \in Sessions, HandleMatched(f, s)
    PROVE  IInv'
<1> DEFINE r(p) == [req |-> p.n, cause |-> res[f].n, target |-> res[f].target,
                    hops |-> HopsOf(p.ttl, res[f].ttl)]
<1>1. TypeOK /\ RequestInv /\ MatchedInv /\ ServeInv /\ AnsweredOnce /\ AttributedToCause
  BY DEF IInv
<1>2. PICK p \in Matches(f, s) : out' = [out EXCEPT ![f] = [s |-> s, reply |-> r(p)]]
  BY DEF HandleMatched
<1>3. Scan(f, s)
  BY DEF HandleMatched
<1>4. /\ RequestsKept /\ SendingUnregistered' /\ ServeInv' /\ RepliesKept
      /\ \A t \in Sessions : Unanswered(t)' \subseteq Unanswered(t)
      /\ Unanswered(s)' = (probes[s] \ Gone(f, s)) \cup sending[s]
  BY <1>3, ScanKeeps
<1>5. out[f] = NoReply /\ s \in todo[f] /\ seq' = seq /\ sent' = sent
  BY <1>3 DEF Scan
<1>6. p \in probes[s] /\ p \in Unanswered(s) /\ p \in Packet /\ p.n \in Nat
  BY <1>1 DEF Matches, TypeOK, RequestTypeOK, Packet, Unanswered
<1>7. /\ out'[f] = [s |-> s, reply |-> r(p)] /\ out'[f] # NoReply
      /\ \A g \in Families \ {f} : out'[g] = out[g]
  BY <1>1, <1>2 DEF TypeOK, ReplyTypeOK, NoReply
<1>8. p.n <= seq /\ \E q \in sent : q.n = p.n /\ q.s = s
  BY <1>1, <1>6 DEF RequestInv
<1>9. \A u \in Unanswered(s)' : u.n # p.n
  <2>1. \A u \in probes[s] : u.n = p.n => u \in Gone(f, s)
    BY DEF Gone, Matches, TimedOut, ID
  <2>2. \A u \in sending[s] : u.n # p.n
    BY <1>1, <1>6 DEF RequestInv
  <2> QED
    BY <1>4, <2>1, <2>2
<1>10. \A t \in Sessions : \A x \in MatchedFor(t)' : x \in MatchedFor(t) \/ (t = s /\ x = r(p))
  BY <1>4, <1>7 DEF MatchedFor, RepliesKept
<1>11. r(p).req = p.n /\ r(p).cause = res[f].n
  OBVIOUS
<1>12. RequestInv'
  BY <1>1, <1>4, KeptRequestInv
<1>13. MatchedInv'
  <2> SUFFICES ASSUME NEW t \in Sessions, NEW x \in MatchedFor(t)'
               PROVE  /\ x.req <= seq /\ \E q \in sent : q.n = x.req /\ q.s = t
                      /\ \A u \in Unanswered(t)' : u.n # x.req
    BY <1>5 DEF MatchedInv
  <2>1. CASE x \in MatchedFor(t)
    BY <2>1, <1>1, <1>4 DEF MatchedInv
  <2>2. CASE t = s /\ x = r(p)
    BY <2>2, <1>8, <1>9, <1>11
  <2> QED
    BY <2>1, <2>2, <1>10
<1>14. AttributedToCause'
  <2> SUFFICES ASSUME seq < IdSpace, NEW t \in Sessions, FamilyOf(DestOf[t]) = "v4",
                      NEW x \in MatchedFor(t)'
               PROVE  x.req = x.cause /\ \E q \in sent : q.n = x.req /\ q.s = t
    BY <1>5 DEF AttributedToCause, FamilyOf
  <2>1. CASE x \in MatchedFor(t)
    BY <2>1, <1>1 DEF AttributedToCause
  <2>2. CASE t = s /\ x = r(p)
    <3>1. f = "v4"
      BY <2>2, <1>1, <1>5 DEF ServeInv
    <3>2. ID(p.n) = ID(res[f].n)
      BY <3>1 DEF Matches
    <3>3. res[f].n \in Nat /\ res[f].n <= seq /\ seq \in Nat
      BY <1>1 DEF TypeOK, RequestTypeOK, ServeTypeOK, Arrival, ServeInv
    <3>4. p.n < IdSpace /\ res[f].n < IdSpace
      BY <1>6, <1>8, <3>3, ConfigAssumption
    <3>5. p.n = res[f].n
      BY <1>6, <3>2, <3>3, <3>4, DistinctIDs
    <3> QED
      BY <2>2, <1>8, <1>11, <3>5
  <2> QED
    BY <2>1, <2>2, <1>10
<1>15. AnsweredOnce'
  <2>1. \A x \in MatchedFor(s) : x.req # p.n
    BY <1>1, <1>6 DEF MatchedInv
  <2>2. NotAmong(p.n, Replies(s))
    BY <2>1 DEF NotAmong, MatchedFor
  <2>3. \A g \in Families \ {f} : out[g] # NoReply /\ out[g].s = s => out[g].reply.req # p.n
    BY <2>1 DEF MatchedFor
  <2>4. \A t \in Sessions : Replies(t)' = Replies(t)
    BY <1>4 DEF RepliesKept
  <2>5. ASSUME NEW t \in Sessions, NEW g \in Families, out'[g] # NoReply, out'[g].s = t
        PROVE  /\ NotAmong(out'[g].reply.req, Replies(t))
               /\ \A h \in Families \ {g} : out'[h] # NoReply /\ out'[h].s = t =>
                     out'[h].reply.req # out'[g].reply.req
    <3>1. CASE g = f
      BY <2>5, <3>1, <1>7, <1>11, <2>2, <2>3
    <3>2. CASE g # f
      <4>1. out'[g] = out[g] /\ NotAmong(out[g].reply.req, Replies(t))
        BY <2>5, <3>2, <1>1, <1>7 DEF AnsweredOnce
      <4>2. ASSUME NEW h \in Families \ {g}, out'[h] # NoReply, out'[h].s = t
            PROVE  out'[h].reply.req # out'[g].reply.req
        <5>1. CASE h = f
          BY <2>5, <3>2, <4>1, <4>2, <5>1, <1>7, <1>11, <2>3
        <5>2. CASE h # f
          BY <2>5, <3>2, <4>1, <4>2, <5>2, <1>1, <1>7 DEF AnsweredOnce
        <5> QED
          BY <5>1, <5>2
      <4> QED
        BY <4>1, <4>2
    <3> QED
      BY <3>1, <3>2
  <2>6. \A t \in Sessions : DistinctReqs(Replies(t))'
    BY <2>4, <1>1 DEF AnsweredOnce, DistinctReqs
  <2>7. \A t \in Sessions : \A g \in Families : out'[g] # NoReply /\ out'[g].s = t =>
           /\ NotAmong(out[g].reply.req, Replies(t))'
           /\ \A h \in Families \ {g} : out'[h] # NoReply /\ out'[h].s = t =>
                 out'[h].reply.req # out'[g].reply.req
    BY <2>4, <2>5 DEF NotAmong
  <2> QED
    BY <2>6, <2>7 DEF AnsweredOnce
<1> QED
  BY <1>4, <1>12, <1>13, <1>14, <1>15 DEF IInv

(* The send of handle.                                                     *)
LEMMA DeliverStep ==
    ASSUME IInv, TypeOK', NEW f \in Families, Deliver(f)
    PROVE  IInv'
<1> DEFINE s == out[f].s
           r == out[f].reply
<1>1. TypeOK /\ RequestInv /\ MatchedInv /\ ServeInv /\ AnsweredOnce /\ AttributedToCause
  BY DEF IInv
<1>2. /\ UNCHANGED <<seq, sent, probes, sending, sess, todo, res>> /\ out[f] # NoReply
      /\ s \in Sessions /\ r \in Reply /\ seq \in Nat
      /\ out'[f] = NoReply /\ \A g \in Families \ {f} : out'[g] = out[g]
  BY <1>1 DEF Deliver, TypeOK, ReplyTypeOK, RequestTypeOK
<1>3. ASSUME NEW t \in Sessions
      PROVE  \/ Replies(t)' = Replies(t)
             \/ t = s /\ Replies(t)' = Append(Replies(t), r)
  BY <1>1, DeliverMoves
<1>4. ASSUME NEW t \in Sessions, NEW i \in 1 .. Len(Replies(t)')
      PROVE  \/ i \in 1 .. Len(Replies(t)) /\ Replies(t)'[i] = Replies(t)[i]
             \/ t = s /\ i = Len(Replies(t)) + 1 /\ Replies(t)'[i] = r
  <2>1. CASE Replies(t)' = Replies(t)
    BY <2>1, <1>4
  <2>2. CASE t = s /\ Replies(t)' = Append(Replies(t), r)
    <3>1. Replies(t) \in Seq(Reply)
      BY <1>1, RepliesType
    <3>2. /\ Len(Replies(t)) \in Nat /\ Len(Replies(t)') = Len(Replies(t)) + 1
          /\ \A j \in 1 .. Len(Replies(t)) : Replies(t)'[j] = Replies(t)[j]
          /\ Replies(t)'[Len(Replies(t)) + 1] = r
      BY <2>2, <3>1, <1>2, AppendElements
    <3> QED
      BY <2>2, <3>2, <1>4
  <2> QED
    BY <2>1, <2>2, <1>3
<1>5. ASSUME NEW t \in Sessions PROVE MatchedFor(t)' \subseteq MatchedFor(t)
  <2>1. \A i \in 1 .. Len(Replies(t)') : Replies(t)'[i] \in MatchedFor(t)
    BY <1>2, <1>4 DEF MatchedFor
  <2> QED
    BY <2>1, <1>2 DEF MatchedFor
<1>6. RequestsKept /\ SendingUnregistered'
  BY <1>1, <1>2, SameRequestsKept
<1>7. RequestInv' /\ MatchedInv' /\ AttributedToCause'
  BY <1>1, <1>5, <1>6, KeptRequestInv, KeptMatchedInv, KeptAttributed DEF RequestsKept
<1>8. ServeInv'
  <2>1. seq' >= seq /\ \A q \in sent' : q \in sent \/ q.n <= seq'
    BY <1>2
  <2> QED
    BY <2>1, <1>1, <1>2, SameServeInv
<1>9. /\ NotAmong(r.req, Replies(s))
      /\ \A g \in Families \ {f} : out[g] # NoReply /\ out[g].s = s => out[g].reply.req # r.req
  BY <1>1, <1>2 DEF AnsweredOnce
<1>10. \A t \in Sessions : DistinctReqs(Replies(t))'
  <2> SUFFICES ASSUME NEW t \in Sessions, NEW i \in 1 .. Len(Replies(t)'),
                      NEW j \in 1 .. Len(Replies(t)'),
                      Replies(t)'[i].req = Replies(t)'[j].req
               PROVE  i = j
    BY DEF DistinctReqs
  <2>1. DistinctReqs(Replies(t))
    BY <1>1 DEF AnsweredOnce
  <2> QED
    BY <2>1, <1>4, <1>9 DEF DistinctReqs, NotAmong
<1>11. ASSUME NEW t \in Sessions, NEW g \in Families, out'[g] # NoReply, out'[g].s = t
       PROVE  /\ NotAmong(out[g].reply.req, Replies(t))'
              /\ \A h \in Families \ {g} : out'[h] # NoReply /\ out'[h].s = t =>
                    out'[h].reply.req # out'[g].reply.req
  <2>1. g # f /\ out'[g] = out[g]
    BY <1>2, <1>11
  <2>2. /\ NotAmong(out[g].reply.req, Replies(t))
        /\ \A h \in Families \ {g} : out[h] # NoReply /\ out[h].s = t =>
              out[h].reply.req # out[g].reply.req
    BY <2>1, <1>1, <1>11 DEF AnsweredOnce
  <2>3. t = s => r.req # out[g].reply.req
    BY <2>1, <1>9, <1>11
  <2>4. NotAmong(out[g].reply.req, Replies(t))'
    BY <2>1, <2>2, <2>3, <1>4 DEF NotAmong
  <2> QED
    BY <2>1, <2>2, <2>4, <1>2
<1>12. AnsweredOnce'
  BY <1>10, <1>11 DEF AnsweredOnce
<1> QED
  BY <1>7, <1>8, <1>12 DEF IInv

LEMMA TickStep ==
    ASSUME IInv, TypeOK', Tick
    PROVE  IInv'
<1>1. TypeOK /\ RequestInv /\ ServeInv /\ seq \in Nat
  BY DEF IInv, TypeOK, RequestTypeOK
<1>2. UNCHANGED <<seq, sent, ch, got, out, sess, todo, res>>
  BY DEF Tick, serveVars
<1>3. \A P \in SUBSET Packet : \A p \in Older(P) : \E q \in P : q.n = p.n
  BY DEF Older, Packet
<1>4. \A t \in Sessions :
         /\ \A p \in probes'[t] : \E q \in probes[t] : q.n = p.n
         /\ \A p \in sending'[t] : \E q \in sending[t] : q.n = p.n
  BY <1>1, <1>3 DEF Tick, TypeOK, RequestTypeOK
<1>5. RequestsKept
  BY <1>1, <1>2, <1>4 DEF RequestsKept, Unanswered
<1>6. SendingUnregistered'
  BY <1>1, <1>4 DEF SendingUnregistered, RequestInv
<1>7. ServeInv'
  <2>1. seq' >= seq /\ \A q \in sent' : q \in sent \/ q.n <= seq'
    BY <1>1, <1>2
  <2> QED
    BY <2>1, <1>1, <1>2, SameServeInv
<1> QED
  BY <1>2, <1>5, <1>6, <1>7, SameRepliesKept, QuietStep

LEMMA InductiveStep ==
    ASSUME IInv, [Next]_vars
    PROVE  IInv'
<1>1. TypeOK'
  BY NextType DEF IInv
<1>2. CASE InitTracer \/ CtxDone \/ Finished \/ UNCHANGED vars
  <2>1. UNCHANGED <<ch, got, out, seq, sent, probes, sending, sess, todo, res>>
    BY <1>2 DEF InitTracer, CtxDone, Finished, vars, serveVars
  <2> QED
    BY <1>1, <2>1, IdleStep
<1>3. ASSUME NEW f \in Families, ServeGoroutine(f) PROVE IInv'
  <2>1. ASSUME NEW s \in Sessions, HandleUnmatched(f, s) PROVE IInv'
    <3>1. Scan(f, s) /\ UNCHANGED out
      BY <2>1 DEF HandleUnmatched
    <3>2. RequestsKept /\ SendingUnregistered' /\ ServeInv' /\ RepliesKept
      BY <1>1, <3>1, ScanKeeps
    <3> QED
      BY <1>1, <3>1, <3>2, QuietStep
  <2> QED
    BY <1>1, <1>3, <2>1, HandleMatchedStep, DeliverStep DEF ServeGoroutine
<1> QED
  BY <1>1, <1>2, <1>3, TraceStep, ServeStep, TickStep DEF Next

LEMMA InductiveInit == Init => IInv
<1> SUFFICES ASSUME Init PROVE IInv
  OBVIOUS
<1>1. \A s \in Sessions : Replies(s) = <<>> /\ MatchedFor(s) = {} /\ Unanswered(s) = {}
  BY DEF Init, Replies, MatchedFor, Unanswered
<1>2. RequestInv /\ MatchedInv /\ AttributedToCause
  BY <1>1 DEF Init, RequestInv, MatchedInv, AttributedToCause
<1>3. AnsweredOnce
  BY <1>1 DEF Init, AnsweredOnce, DistinctReqs
<1>4. ServeInv
  BY DEF Init, ServeInv, NoRes
<1> QED
  BY <1>2, <1>3, <1>4, InitType DEF IInv

LEMMA Inductive == Spec => []IInv
BY InductiveInit, InductiveStep, PTL DEF Spec

(* For any number of concurrent traces, any network and any interleaving   *)
(* with the serve goroutines, no request of a session is answered twice.   *)
THEOREM AnsweredOnceHolds == Spec => []AnsweredOnce
<1>1. IInv => AnsweredOnce
  BY DEF IInv
<1> QED
  BY <1>1, Inductive, PTL

(* Until the packet identifiers wrap around, an IPv4 reply is attributed   *)
(* to the request that caused it, sent by the session that reports it.     *)
THEOREM AttributedToCauseHolds == Spec => []AttributedToCause
<1>1. IInv => AttributedToCause
  BY DEF IInv
<1> QED
  BY <1>1, Inductive, PTL

-----------------------------------------------------------------------------
(* A trace is registered from addSession to removeSession, and with no     *)
(* other destination than its own.                                         *)
Registered(s) == pc[s] \notin {"new", "add", "returned"}

(* Only AddSession and RemoveSession change what is registered; for all    *)
(* other steps it is enough that no trace crosses those two points.        *)
LEMMA SameRegistration ==
    ASSUME SessionsInProgress, UNCHANGED sess,
           \A s \in Sessions : Registered(s)' = Registered(s)
    PROVE  SessionsInProgress'
BY DEF SessionsInProgress, Registered

(* A trace in its loops stays registered.                                  *)
LEMMA NextPingRegistered ==
    ASSUME TypeOK, NEW s \in Sessions, pc[s] = "wait", NEW m, NextPing(s, m), NEW t \in Sessions
    PROVE  Registered(t)' = Registered(t)
<1>1. pc \in [Sessions -> Location]
  BY DEF TypeOK, TraceTypeOK
<1>2. PICK l \in {"ping", "check"} : pc' = [pc EXCEPT ![s] = l]
  BY DEF NextPing
<1>3. CASE t = s
  <2>1. pc'[t] \in {"ping", "check"}
    BY <1>1, <1>2, <1>3
  <2> QED
    BY <2>1, <1>3 DEF Registered
<1>4. CASE t # s
  BY <1>1, <1>2, <1>4 DEF Registered
<1> QED
  BY <1>3, <1>4

(* Every step of a trace.                                                  *)
LEMMA TraceRegistration ==
    ASSUME TypeOK, SessionsInProgress, NEW s \in Sessions, Trace(s)
    PROVE  SessionsInProgress'
<1>1. pc \in [Sessions -> Location] /\ sess \in [Dests -> SUBSET Sessions] /\ DestOf[s] \in Dests
  BY DestsAssumption DEF TypeOK, TraceTypeOK, ServeTypeOK
<1>2. CASE AddSession(s)
  <2>1. /\ pc[s] = "add" /\ pc' = [pc EXCEPT ![s] = "ping"]
        /\ sess' = [sess EXCEPT ![DestOf[s]] = @ \cup {s}]
    BY <1>2 DEF AddSession
  <2> SUFFICES ASSUME NEW t \in Sessions, NEW d \in Dests
               PROVE  t \in sess'[d] <=> d = DestOf[t] /\ pc'[t] \notin {"new", "add", "returned"}
    BY DEF SessionsInProgress
  <2>2. t \in sess[d] <=> d = DestOf[t] /\ pc[t] \notin {"new", "add", "returned"}
    BY DEF SessionsInProgress
  <2>3. t \in sess'[d] <=> t \in sess[d] \/ (t = s /\ d = DestOf[s])
    BY <1>1, <2>1
  <2>4. pc'[s] = "ping" /\ (t # s => pc'[t] = pc[t])
    BY <1>1, <2>1
  <2>5. CASE t = s
    BY <2>1, <2>2, <2>3, <2>4, <2>5
  <2>6. CASE t # s
    BY <2>2, <2>3, <2>4, <2>6
  <2> QED
    BY <2>5, <2>6
<1>3. CASE RemoveSession(s)
  <2>1. pc' = [pc EXCEPT ![s] = "returned"] /\ sess' = [sess EXCEPT ![DestOf[s]] = @ \ {s}]
    BY <1>3 DEF RemoveSession, SessWithout
  <2> SUFFICES ASSUME NEW t \in Sessions, NEW d \in Dests
               PROVE  t \in sess'[d] <=> d = DestOf[t] /\ pc'[t] \notin {"new", "add", "returned"}
    BY DEF SessionsInProgress
  <2>2. t \in sess[d] <=> d = DestOf[t] /\ pc[t] \notin {"new", "add", "returned"}
    BY DEF SessionsInProgress
  <2>3. t \in sess'[d] <=> t \in sess[d] /\ ~(t = s /\ d = DestOf[s])
    BY <1>1, <2>1
  <2>4. pc'[s] = "returned" /\ (t # s => pc'[t] = pc[t])
    BY <1>1, <2>1
  <2>5. CASE t = s
    BY <2>2, <2>3, <2>4, <2>5
  <2>6. CASE t # s
    BY <2>2, <2>3, <2>4, <2>6
  <2> QED
    BY <2>5, <2>6
<1>4. CASE DelayTick(s) \/ ReceiveWhilePinging(s)
  <2>1. UNCHANGED sess /\ pc[s] = "wait" /\ \E m : NextPing(s, m)
    BY <1>4 DEF DelayTick, ReceiveWhilePinging
  <2> QED
    BY <2>1, NextPingRegistered, SameRegistration
<1>5. CASE NewSession(s) \/ NewSessionFails(s)
  <2>1. PICK l \in {"add", "returned"} : pc' = [pc EXCEPT ![s] = l]
    BY <1>5 DEF NewSession, NewSessionFails
  <2>2. pc[s] = "new" /\ UNCHANGED sess
    BY <1>5 DEF NewSession, NewSessionFails
  <2>3. \A t \in Sessions : Registered(t)' = Registered(t)
    BY <1>1, <2>1, <2>2 DEF Registered
  <2> QED
    BY <2>2, <2>3, SameRegistration
<1>6. CASE \/ SendRequest(s) \/ SendRequestFails(s) \/ AppendProbe(s) \/ CheckDone(s)
           \/ CheckNotDone(s) \/ ReceiveWhileDraining(s) \/ Deadline(s) \/ CtxReturn(s) \/ Close(s)
  <2>1. PICK l \in Location \ {"new", "add", "returned"} : pc' = [pc EXCEPT ![s] = l]
    BY <1>6 DEF SendRequest, SendRequestFails, AppendProbe, CheckDone, CheckNotDone,
                ReceiveWhileDraining, Deadline, CtxReturn, Close, Location
  <2>2. pc[s] \notin {"new", "add", "returned"} /\ UNCHANGED sess
    BY <1>6 DEF SendRequest, SendRequestFails, AppendProbe, CheckDone, CheckNotDone,
                ReceiveWhileDraining, Deadline, CtxReturn, Close
  <2>3. \A t \in Sessions : Registered(t)' = Registered(t)
    BY <1>1, <2>1, <2>2 DEF Registered
  <2> QED
    BY <2>2, <2>3, SameRegistration
<1> QED
  BY <1>2, <1>3, <1>4, <1>5, <1>6 DEF Trace

(* Exactly the traces in progress are registered, each under its own       *)
(* destination: a returned trace is handed no further replies, and none    *)
(* that waits is missed, for any number of traces of the same target.      *)
THEOREM SessionsInProgressHolds == Spec => []SessionsInProgress
<1>1. Init => SessionsInProgress
  BY DEF Init, SessionsInProgress
<1>2. ASSUME TypeOK, SessionsInProgress, [Next]_vars PROVE SessionsInProgress'
  <2>1. CASE \E s \in Sessions : Trace(s)
    BY <1>2, <2>1, TraceRegistration
  <2>2. CASE \/ InitTracer \/ CtxDone \/ Tick \/ Finished \/ UNCHANGED vars
             \/ \E q \in sent : Serve(q)
             \/ \E f \in Families : ServeGoroutine(f)
    <3>1. UNCHANGED <<pc, sess>>
      BY <2>2 DEF InitTracer, CtxDone, Tick, Finished, vars, Serve, ServeGoroutine, HandleUnmatched,
                  HandleMatched, Scan, Deliver
    <3> QED
      BY <1>2, <3>1 DEF SessionsInProgress
  <2> QED
    BY <1>2, <2>1, <2>2 DEF Next
<1> QED
  BY <1>1, <1>2, TypeCorrect, PTL DEF Spec

-----------------------------------------------------------------------------
(* The distances of the target among the replies given to h.               *)
Seen(s) == {got[s][i].hops : i \in {j \in 1 .. Len(got[s]) : got[s][j].target}} \cup {MaxHops}

(* max becomes the new distance exactly when that is the smallest.         *)
LEMMA TakeReplySeen ==
    ASSUME TypeOK, MaxIsNearestTarget, NEW s \in Sessions, TakeReply(s)
    PROVE  MaxIsNearestTarget'
<1> DEFINE r == Head(ch[s])
<1>1. /\ ch[s] \in Seq(Reply) /\ ch[s] # <<>> /\ got \in [Sessions -> Seq(Reply)]
      /\ max \in [Sessions -> 1 .. MaxHops] /\ MaxHops \in Nat
  BY ConfigAssumption DEF TypeOK, TraceTypeOK, ReplyTypeOK, TakeReply
<1>2. r \in Reply /\ r.hops \in Nat
  <2>1. r \in Reply
    BY <1>1, HeadTailProperties
  <2> QED
    BY <2>1 DEF Reply
<1>3. got' = [got EXCEPT ![s] = Append(@, r)] /\ max' = [max EXCEPT ![s] = NewMax(s, r)]
  BY DEF TakeReply
<1> HIDE DEF r
<1>4. /\ got'[s] = Append(got[s], r) /\ max'[s] = NewMax(s, r)
      /\ \A t \in Sessions \ {s} : got'[t] = got[t] /\ max'[t] = max[t]
  BY <1>1, <1>3
<1>5. /\ Len(got'[s]) = Len(got[s]) + 1 /\ Len(got[s]) \in Nat
      /\ \A i \in 1 .. Len(got[s]) : got'[s][i] = got[s][i]
      /\ got'[s][Len(got[s]) + 1] = r
  BY <1>1, <1>2, <1>4, AppendElements
<1>6. \A h : h \in Seen(s)' <=> h \in Seen(s) \/ (r.target /\ h = r.hops)
  <2>1. ASSUME NEW h, h \in Seen(s)' PROVE h \in Seen(s) \/ (r.target /\ h = r.hops)
    BY <2>1, <1>5 DEF Seen
  <2>2. ASSUME NEW h \in Seen(s) PROVE h \in Seen(s)'
    BY <1>5 DEF Seen
  <2>3. ASSUME r.target PROVE r.hops \in Seen(s)'
    BY <2>3, <1>5 DEF Seen
  <2> QED
    BY <2>1, <2>2, <2>3
<1>7. \A t \in Sessions : max[t] \in Seen(t) /\ \A h \in Seen(t) : max[t] <= h
  BY DEF MaxIsNearestTarget, Seen
<1>8. \A h \in Seen(s) : h \in Nat
  <2>1. \A i \in 1 .. Len(got[s]) : got[s][i] \in Reply
    BY <1>1, ElementOfSeq
  <2>2. \A x \in Reply : x.hops \in Nat
    BY DEF Reply
  <2> QED
    BY <1>1, <2>1, <2>2 DEF Seen
<1>9. max'[s] \in Seen(s)' /\ \A h \in Seen(s)' : max'[s] <= h
  <2>1. CASE r.target /\ max[s] > r.hops
    <3>1. max'[s] = r.hops /\ \A h \in Seen(s) : r.hops <= h
      BY <2>1, <1>1, <1>2, <1>4, <1>7, <1>8 DEF NewMax
    <3> QED
      BY <2>1, <3>1, <1>2, <1>6
  <2>2. CASE ~(r.target /\ max[s] > r.hops)
    <3>1. max'[s] = max[s] /\ (r.target => max[s] <= r.hops)
      BY <2>2, <1>1, <1>2, <1>4 DEF NewMax
    <3> QED
      BY <3>1, <1>6, <1>7
  <2> QED
    BY <2>1, <2>2
<1>10. \A t \in Sessions \ {s} : Seen(t)' = Seen(t)
  BY <1>4 DEF Seen
<1>11. \A t \in Sessions : max'[t] \in Seen(t)' /\ \A h \in Seen(t)' : max'[t] <= h
  BY <1>4, <1>7, <1>9, <1>10
<1> QED
  BY <1>11 DEF MaxIsNearestTarget, Seen

(* max ends as the target's distance, in whatever order replies come, and  *)
(* whichever of several distances of the target they show.                 *)
THEOREM MaxIsNearestTargetHolds == Spec => []MaxIsNearestTarget
<1>1. Init => MaxIsNearestTarget
  <2>1. MaxHops \in Nat
    BY ConfigAssumption
  <2> QED
    BY <2>1 DEF Init, MaxIsNearestTarget
<1>2. ASSUME TypeOK, MaxIsNearestTarget, [Next]_vars PROVE MaxIsNearestTarget'
  <2>1. ASSUME NEW s \in Sessions, TakeReply(s) PROVE MaxIsNearestTarget'
    BY <1>2, <2>1, TakeReplySeen
  <2>2. CASE UNCHANGED <<got, max>>
    BY <1>2, <2>2 DEF MaxIsNearestTarget
  <2>3. ASSUME NEW s \in Sessions, Trace(s) PROVE TakeReply(s) \/ UNCHANGED <<got, max>>
    BY <2>3 DEF Trace, NewSession, NewSessionFails, AddSession, SendRequest, SendRequestFails,
                AppendProbe, DelayTick, ReceiveWhilePinging, CheckDone, CheckNotDone,
                ReceiveWhileDraining, Deadline, CtxReturn, Close, RemoveSession, traceVars
  <2>4. CASE \/ InitTracer \/ CtxDone \/ Tick \/ Finished \/ UNCHANGED vars
             \/ \E q \in sent : Serve(q)
             \/ \E f \in Families : ServeGoroutine(f)
    <3>1. UNCHANGED <<got, max>>
      BY <2>4 DEF InitTracer, CtxDone, Tick, Finished, vars, Serve, ServeGoroutine, HandleUnmatched,
                  HandleMatched, Scan, Deliver, traceVars
    <3> QED
      BY <2>2, <3>1
  <2> QED
    BY <1>2, <2>1, <2>2, <2>3, <2>4 DEF Next
<1> QED
  BY <1>1, <1>2, TypeCorrect, PTL DEF Spec

-----------------------------------------------------------------------------
(* How many requests a trace may have sent when it pings for TTL t of      *)
(* round r: a place in its two loops.                                      *)
Place(r, t) == (r - 1) * MaxHops + t

(* A trace sends at most one request for each place in its loops.          *)
BudgetOf(s) ==
    /\ IsFiniteSet(Requests(s)) /\ Cardinality(Requests(s)) <= Count * MaxHops
    /\ pc[s] \in {"new", "add", "ping"} =>
          round[s] \in 1 .. Count /\ Cardinality(Requests(s)) < Place(round[s], ttl[s])
    /\ pc[s] \in {"append", "wait"} =>
          round[s] \in 1 .. Count /\ Cardinality(Requests(s)) <= Place(round[s], ttl[s])

BudgetInv == \A s \in Sessions : BudgetOf(s)

(* The places of the loops are numbered without gaps up to Count * MaxHops.*)
LEMMA Places ==
    ASSUME NEW r \in 1 .. Count, NEW t \in 1 .. MaxHops
    PROVE  /\ Place(r, t) \in Nat /\ Place(r, t) <= Count * MaxHops /\ Count * MaxHops \in Nat
           /\ Place(r, t) < Place(r + 1, 1)
           /\ Place(r, t + 1) = Place(r, t) + 1
<1>1. Count \in Nat /\ MaxHops \in Nat /\ r \in Nat /\ t \in Nat
  BY ConfigAssumption
<1> DEFINE m == (r - 1) * MaxHops
<1>2. m \in Nat /\ Count * MaxHops \in Nat
  BY <1>1
<1>3. (r + 1 - 1) * MaxHops = m + MaxHops
  BY <1>1
<1>4. m + MaxHops <= Count * MaxHops
  <2>1. Count * MaxHops = r * MaxHops + (Count - r) * MaxHops
    BY <1>1
  <2>2. (Count - r) * MaxHops >= 0
    BY <1>1
  <2>3. r * MaxHops = m + MaxHops
    BY <1>1
  <2>4. r * MaxHops \in Int /\ (Count - r) * MaxHops \in Int
    BY <1>1
  <2> HIDE DEF m
  <2> QED
    BY <1>1, <1>2, <2>1, <2>2, <2>3, <2>4
<1>5. Place(r, t) = m + t /\ Place(r + 1, 1) = m + MaxHops + 1 /\ Place(r, t + 1) = m + (t + 1)
  BY <1>3 DEF Place
<1> HIDE DEF m
<1> QED
  BY <1>1, <1>2, <1>4, <1>5

(* Steps that send nothing and stay at the place or leave the loops.       *)
LEMMA KeptBudget ==
    ASSUME BudgetInv, NEW s \in Sessions, UNCHANGED sent,
           \/ UNCHANGED <<pc[s], round[s], ttl[s]>>
           \/ pc'[s] \notin {"new", "add", "ping", "append", "wait"}
           \/ /\ pc[s] \in {"new", "add", "ping"} /\ pc'[s] \in {"new", "add", "ping"}
              /\ UNCHANGED <<round[s], ttl[s]>>
           \/ pc[s] = "append" /\ pc'[s] = "wait" /\ UNCHANGED <<round[s], ttl[s]>>
    PROVE  BudgetOf(s)'
<1>1. BudgetOf(s) /\ Requests(s)' = Requests(s)
  BY DEF BudgetInv, Requests
<1> QED
  BY <1>1 DEF BudgetOf, Place

(* The head of the loops moves on to the next place or out of them.        *)
LEMMA NextPingBudget ==
    ASSUME TypeOK, BudgetInv, NEW s \in Sessions, pc[s] = "wait", NEW m \in 1 .. MaxHops,
           NextPing(s, m), UNCHANGED sent
    PROVE  BudgetOf(s)'
<1>1. BudgetOf(s) /\ Requests(s)' = Requests(s)
  BY DEF BudgetInv, Requests
<1>2. /\ pc \in [Sessions -> Location] /\ round \in [Sessions -> Nat]
      /\ ttl \in [Sessions -> 1 .. MaxHops] /\ MaxHops \in Nat /\ Count \in Nat
  BY ConfigAssumption DEF TypeOK, TraceTypeOK
<1> DEFINE sentSoFar == Cardinality(Requests(s))
<1>3. round[s] \in 1 .. Count /\ sentSoFar <= Place(round[s], ttl[s]) /\ sentSoFar \in Nat
  BY <1>1, FS_CardinalityType DEF BudgetOf
<1>4. CASE ttl[s] + 1 <= MaxHops /\ ttl[s] + 1 <= m
  <2>1. ttl'[s] = ttl[s] + 1 /\ round'[s] = round[s] /\ pc'[s] = "ping"
    BY <1>2, <1>4 DEF NextPing
  <2>2. Place(round[s], ttl[s] + 1) = Place(round[s], ttl[s]) + 1 /\ Place(round[s], ttl[s]) \in Nat
    BY <1>2, <1>3, Places
  <2>3. sentSoFar < Place(round'[s], ttl'[s])
    <3> HIDE DEF sentSoFar
    <3> QED
      BY <1>3, <2>1, <2>2
  <2>4. Place(round[s], ttl[s])' = Place(round'[s], ttl'[s])
    BY DEF Place
  <2> QED
    BY <1>1, <1>3, <2>1, <2>3, <2>4 DEF BudgetOf
<1>5. CASE ~(ttl[s] + 1 <= MaxHops /\ ttl[s] + 1 <= m)
  <2>1. /\ ttl'[s] = 1 /\ round'[s] = round[s] + 1
        /\ pc'[s] = IF round[s] + 1 <= Count THEN "ping" ELSE "check"
    BY <1>2, <1>5 DEF NextPing
  <2>2. CASE round[s] + 1 <= Count
    <3>1. round'[s] \in 1 .. Count /\ pc'[s] = "ping"
      BY <1>2, <1>3, <2>1, <2>2
    <3>2. /\ Place(round[s], ttl[s]) < Place(round[s] + 1, 1) /\ Place(round[s], ttl[s]) \in Nat
          /\ Place(round[s] + 1, 1) \in Nat
      BY <1>2, <1>3, <2>1, <3>1, Places
    <3>3. sentSoFar < Place(round'[s], ttl'[s])
      <4> HIDE DEF sentSoFar
      <4> QED
        BY <1>3, <2>1, <3>2
    <3>4. Place(round[s], ttl[s])' = Place(round'[s], ttl'[s])
      BY DEF Place
    <3> QED
      BY <1>1, <3>1, <3>3, <3>4 DEF BudgetOf
  <2>3. CASE ~(round[s] + 1 <= Count)
    BY <1>1, <2>1, <2>3 DEF BudgetOf
  <2> QED
    BY <2>2, <2>3
<1> QED
  BY <1>4, <1>5

(* Ping adds one request at most, for the place the trace is at.           *)
LEMMA SendRequestBudget ==
    ASSUME TypeOK, BudgetInv, NEW s \in Sessions, SendRequest(s), NEW t \in Sessions
    PROVE  BudgetOf(t)'
<1> DEFINE new == [n |-> seq + 1, s |-> s, ttl |-> ttl[s] + 1]
<1>1. /\ pc \in [Sessions -> Location] /\ pc[s] = "ping" /\ pc' = [pc EXCEPT ![s] = "append"]
      /\ sent' = sent \cup {new} /\ UNCHANGED <<round, ttl>>
  BY DEF TypeOK, TraceTypeOK, SendRequest, traceVars
<1>2. BudgetOf(t)
  BY DEF BudgetInv
<1>3. CASE t # s
  <2>1. Requests(t)' = Requests(t) /\ pc'[t] = pc[t]
    BY <1>1, <1>3 DEF Requests
  <2> QED
    BY <1>1, <1>2, <2>1 DEF BudgetOf, Place
<1>4. CASE t = s
  <2> DEFINE sentSoFar == Cardinality(Requests(s))
  <2>1. Requests(s)' = Requests(s) \cup {new}
    BY <1>1 DEF Requests
  <2>2. IsFiniteSet(Requests(s)) /\ sentSoFar \in Nat /\ round[s] \in 1 .. Count
        /\ sentSoFar < Place(round[s], ttl[s]) /\ sentSoFar <= Count * MaxHops
    BY <1>1, <1>2, <1>4, FS_CardinalityType DEF BudgetOf
  <2>3. /\ IsFiniteSet(Requests(s)')
        /\ Cardinality(Requests(s)') = sentSoFar \/ Cardinality(Requests(s)') = sentSoFar + 1
    <3> HIDE DEF new
    <3> QED
      BY <2>1, <2>2, FS_AddElement
  <2>4. /\ Place(round[s], ttl[s]) \in Nat /\ Place(round[s], ttl[s]) <= Count * MaxHops
        /\ Count * MaxHops \in Nat
    <3>1. ttl[s] \in 1 .. MaxHops
      BY DEF TypeOK, TraceTypeOK
    <3> QED
      BY <2>2, <3>1, Places
  <2>5. Cardinality(Requests(s)') <= Place(round[s], ttl[s])
        /\ Cardinality(Requests(s)') <= Count * MaxHops
    <3> DEFINE top == Count * MaxHops
               place == Place(round[s], ttl[s])
               after == Cardinality(Requests(s)')
    <3>1. /\ sentSoFar \in Nat /\ top \in Nat /\ place \in Nat /\ sentSoFar < place /\ place <= top
          /\ (after = sentSoFar \/ after = sentSoFar + 1)
      BY <2>2, <2>3, <2>4
    <3> HIDE DEF top, place, after, sentSoFar
    <3>2. after <= place /\ after <= top
      BY <3>1
    <3> QED
      BY <3>2 DEF top, place, after
  <2>6. pc'[s] = "append"
    BY <1>1
  <2>7. Place(round[s], ttl[s])' = Place(round[s], ttl[s])
    BY <1>1 DEF Place
  <2> QED
    BY <1>1, <1>4, <2>2, <2>3, <2>5, <2>6, <2>7 DEF BudgetOf
<1> QED
  BY <1>3, <1>4

(* Every step of a trace.                                                  *)
LEMMA TraceBudget ==
    ASSUME TypeOK, BudgetInv, NEW s \in Sessions, Trace(s)
    PROVE  BudgetInv'
<1> SUFFICES ASSUME NEW t \in Sessions PROVE BudgetOf(t)'
  BY DEF BudgetInv
<1>1. /\ pc \in [Sessions -> Location] /\ round \in [Sessions -> Nat]
      /\ ttl \in [Sessions -> 1 .. MaxHops] /\ max[s] \in 1 .. MaxHops
  BY DEF TypeOK, TraceTypeOK
<1>2. CASE SendRequest(s)
  BY <1>2, SendRequestBudget
<1>3. CASE DelayTick(s) \/ ReceiveWhilePinging(s)
  <2>1. PICK m \in 1 .. MaxHops : NextPing(s, m)
    BY <1>1, <1>3, TakeReplyType DEF DelayTick, ReceiveWhilePinging
  <2>2. pc[s] = "wait" /\ UNCHANGED sent
    BY <1>3 DEF DelayTick, ReceiveWhilePinging
  <2>3. CASE t = s
    BY <2>1, <2>2, <2>3, NextPingBudget
  <2>4. CASE t # s
    <3>1. UNCHANGED <<pc[t], round[t], ttl[t]>>
      BY <1>1, <2>1, <2>4 DEF NextPing
    <3> QED
      BY <2>2, <3>1, KeptBudget
  <2> QED
    BY <2>3, <2>4
<1>4. CASE NewSession(s) \/ AddSession(s) \/ AppendProbe(s)
  <2>1. UNCHANGED <<sent, round, ttl>>
    BY <1>4 DEF NewSession, AddSession, AppendProbe, traceVars
  <2>2. \/ UNCHANGED pc[t]
        \/ pc[t] \in {"new", "add"} /\ pc'[t] \in {"add", "ping"}
        \/ pc[t] = "append" /\ pc'[t] = "wait"
    BY <1>1, <1>4 DEF NewSession, AddSession, AppendProbe
  <2> QED
    BY <2>1, <2>2, KeptBudget
<1>5. CASE \/ NewSessionFails(s) \/ SendRequestFails(s) \/ CheckDone(s) \/ CheckNotDone(s)
           \/ ReceiveWhileDraining(s) \/ Deadline(s) \/ CtxReturn(s) \/ Close(s) \/ RemoveSession(s)
  <2>1. UNCHANGED <<sent, round, ttl>>
    BY <1>5 DEF NewSessionFails, SendRequestFails, CheckDone, CheckNotDone, ReceiveWhileDraining,
                Deadline, CtxReturn, Close, RemoveSession, traceVars
  <2>2. UNCHANGED pc[t] \/ pc'[t] \notin {"new", "add", "ping", "append", "wait"}
    BY <1>1, <1>5 DEF NewSessionFails, SendRequestFails, CheckDone, CheckNotDone,
                ReceiveWhileDraining, Deadline, CtxReturn, Close, RemoveSession
  <2> QED
    BY <2>1, <2>2, KeptBudget
<1> QED
  BY <1>2, <1>3, <1>4, <1>5 DEF Trace

(* No trace ever sends more requests than its loops have places.           *)
LEMMA Budgeted == Spec => []BudgetInv
<1>1. Init => BudgetInv
  <2> SUFFICES ASSUME Init, NEW s \in Sessions PROVE BudgetOf(s)
    BY DEF BudgetInv
  <2>1. /\ Requests(s) = {} /\ pc[s] = "new" /\ round[s] = 1 /\ ttl[s] = 1 /\ Count \in Nat \ {0}
        /\ MaxHops \in Nat \ {0}
    BY ConfigAssumption DEF Init, Requests
  <2>2. Count * MaxHops \in Nat /\ Place(1, 1) = 1
    BY <2>1 DEF Place
  <2>3. IsFiniteSet(Requests(s)) /\ Cardinality(Requests(s)) = 0
    BY <2>1, FS_EmptySet
  <2>4. 0 <= Count * MaxHops
    BY <2>2
  <2> QED
    BY <2>1, <2>2, <2>3, <2>4 DEF BudgetOf
<1>2. ASSUME TypeOK, BudgetInv, [Next]_vars PROVE BudgetInv'
  <2>1. ASSUME NEW s \in Sessions, Trace(s) PROVE BudgetInv'
    BY <1>2, <2>1, TraceBudget
  <2>2. CASE \/ InitTracer \/ CtxDone \/ Tick \/ Finished \/ UNCHANGED vars
             \/ \E q \in sent : Serve(q)
             \/ \E f \in Families : ServeGoroutine(f)
    <3>1. UNCHANGED <<sent, pc, round, ttl>>
      BY <2>2 DEF InitTracer, CtxDone, Tick, Finished, vars, Serve, ServeGoroutine, HandleUnmatched,
                  HandleMatched, Scan, Deliver, traceVars
    <3> QED
      BY <1>2, <3>1, KeptBudget DEF BudgetInv
  <2> QED
    BY <1>2, <2>1, <2>2 DEF Next
<1> QED
  BY <1>1, <1>2, TypeCorrect, PTL DEF Spec

(* What FS_Interval says of the indices of a sequence.                     *)
LEMMA IntervalSize ==
    ASSUME NEW n \in Nat
    PROVE  Cardinality(1 .. n) = n
<1>1. Cardinality(1 .. n) = IF 1 > n THEN 0 ELSE n - 1 + 1
  BY FS_Interval
<1> QED
  BY <1>1

(* The channel has a place for every reply a trace can be given: handle    *)
(* drops none while the capacity covers the requests the trace has sent.   *)
THEOREM NeverOverflowsHolds == Spec => []NeverOverflows
<1>1. ASSUME IInv, BudgetInv PROVE NeverOverflows
  <2> SUFFICES ASSUME NEW f \in Families, out[f] # NoReply, HasRoom(out[f].s)
               PROVE  Len(ch[out[f].s]) < ChanCap
    BY DEF NeverOverflows
  <2> DEFINE s == out[f].s
             r == out[f].reply
             q == Replies(s)
             all == Append(q, r)
  <2>1. TypeOK /\ MatchedInv /\ AnsweredOnce
    BY <1>1 DEF IInv
  <2>2. /\ s \in Sessions /\ r \in Reply /\ got[s] \in Seq(Reply) /\ ch[s] \in Seq(Reply)
    BY <2>1 DEF TypeOK, ReplyTypeOK
  <2>3. q \in Seq(Reply) /\ Len(q) = Len(got[s]) + Len(ch[s])
    BY <2>2, ConcatProperties DEF Replies
  <2>4. /\ Len(all) = Len(q) + 1 /\ Len(q) \in Nat
        /\ \A i \in 1 .. Len(q) : all[i] = q[i]
        /\ all[Len(q) + 1] = r
    <3> HIDE DEF q, r
    <3>1. q \in Seq(Reply) /\ r \in Reply
      BY <2>2, <2>3
    <3> QED
      BY <3>1, AppendElements
  <2>5. \A i \in 1 .. Len(all) : all[i] \in MatchedFor(s)
    BY <2>2, <2>4 DEF MatchedFor
  <2>6. \A i, j \in 1 .. Len(all) : all[i].req = all[j].req => i = j
    <3>1. DistinctReqs(q) /\ NotAmong(r.req, q)
      BY <2>1, <2>2 DEF AnsweredOnce
    <3> HIDE DEF all, q, r, s
    <3> QED
      BY <2>4, <3>1 DEF DistinctReqs, NotAmong
  <2>7. \A i \in 1 .. Len(all) : \E w \in Requests(s) : w.n = all[i].req
    BY <2>1, <2>2, <2>5 DEF MatchedInv, Requests
  <2> HIDE DEF all, q, r, s
  <2> DEFINE request == [i \in 1 .. Len(all) |-> CHOOSE w \in Requests(s) : w.n = all[i].req]
  <2>8. \A i \in 1 .. Len(all) : request[i] \in Requests(s) /\ request[i].n = all[i].req
    BY <2>7
  <2>9. request \in Injection(1 .. Len(all), Requests(s))
    <3>1. request \in [1 .. Len(all) -> Requests(s)]
      BY <2>8
    <3>2. \A i, j \in 1 .. Len(all) : request[i] = request[j] => i = j
      <4> HIDE DEF request
      <4> QED
        BY <2>6, <2>8
    <3> HIDE DEF request
    <3> QED
      BY <3>1, <3>2 DEF Injection, IsInjective
  <2>10. /\ IsFiniteSet(Requests(s)) /\ Cardinality(Requests(s)) <= ChanCap
    BY <1>1, <2>2 DEF BudgetInv, BudgetOf, HasRoom, s
  <2>11. Cardinality(1 .. Len(all)) <= Cardinality(Requests(s))
    BY <2>9, <2>10, FS_Injection
  <2>12. Cardinality(1 .. Len(all)) = Len(all)
    <3>1. Len(all) \in Nat
      BY <2>4
    <3> QED
      BY <3>1, IntervalSize
  <2>13. Len(ch[s]) < Len(all)
    <3>1. Len(got[s]) \in Nat /\ Len(ch[s]) \in Nat
      BY <2>2
    <3> DEFINE a == Len(got[s])
               b == Len(ch[s])
               c == Len(all)
    <3>2. c = a + b + 1
      BY <2>3, <2>4, Zenon
    <3>3. a \in Nat /\ b \in Nat
      BY <3>1
    <3> HIDE DEF a, b, c
    <3>4. b < c
      BY <3>2, <3>3
    <3> QED
      BY <3>4 DEF b, c
  <2> DEFINE n == Cardinality(Requests(s))
  <2>14. /\ n \in Nat /\ Len(all) \in Nat /\ Len(ch[s]) \in Nat /\ ChanCap \in Nat
         /\ Len(all) <= n /\ n <= ChanCap
    BY <2>2, <2>4, <2>10, <2>11, <2>12, FS_CardinalityType, ConfigAssumption
  <2> HIDE DEF n
  <2> QED
    BY <2>13, <2>14 DEF s
<1> QED
  BY <1>1, Inductive, Budgeted, PTL

(* With a place for every request of its two loops, as the 64 places of    *)
(* the code are for 15 requests, handle never drops a reply of a trace.    *)
THEOREM NothingDropped ==
    Spec => [](Count * MaxHops <= ChanCap =>
                  \A f \in Families : out[f] # NoReply => Len(ch[out[f].s]) < ChanCap)
<1>1. ASSUME TypeOK, BudgetInv, NeverOverflows
      PROVE  Count * MaxHops <= ChanCap =>
                \A f \in Families : out[f] # NoReply => Len(ch[out[f].s]) < ChanCap
  <2> SUFFICES ASSUME Count * MaxHops <= ChanCap, NEW f \in Families, out[f] # NoReply
               PROVE  Len(ch[out[f].s]) < ChanCap
    OBVIOUS
  <2>1. out[f].s \in Sessions
    BY <1>1 DEF TypeOK, ReplyTypeOK
  <2> DEFINE n == Cardinality(Requests(out[f].s))
             top == Count * MaxHops
  <2>2. n \in Nat /\ n <= top /\ top <= ChanCap /\ top \in Nat /\ ChanCap \in Nat
    BY <1>1, <2>1, FS_CardinalityType, ConfigAssumption DEF BudgetInv, BudgetOf
  <2> HIDE DEF top
  <2>3. HasRoom(out[f].s)
    <3>1. n <= ChanCap
      BY <2>2
    <3> QED
      BY <3>1 DEF HasRoom
  <2> QED
    BY <1>1, <2>3 DEF NeverOverflows
<1> QED
  BY <1>1, TypeCorrect, Budgeted, NeverOverflowsHolds, PTL

-----------------------------------------------------------------------------
(* A request is accounted for: it is awaited under its number and TTL, or  *)
(* it was answered or dropped as timed out.                                *)
Awaited(q) == \E p \in Unanswered(q.s) : p.n = q.n /\ p.ttl = q.ttl

Answered(q) == q.n \in expired \/ \E r \in MatchedFor(q.s) : r.req = q.n

(* Where no reply of s is dropped and identifiers tell requests apart.     *)
Faithful(s) == HasRoom(s) /\ seq < IdSpace

PhaseInv ==
    \A s \in Sessions :
        /\ pc[s] # "append" => sending[s] = {}
        /\ ret[s] = "done" => pc[s] \in {"close", "remove", "returned"}

AccountedInv ==
    \A q \in sent :
        Faithful(q.s) /\ FamilyOf(DestOf[q.s]) = "v4" => Awaited(q) \/ Answered(q)

DoneInv ==
    \A s \in Sessions : Faithful(s) /\ FamilyOf(DestOf[s]) = "v4" /\ ret[s] = "done" =>
        \A q \in sent : q.s = s /\ q.ttl <= max[s] => Answered(q)

(* Requests are never taken back, so what there is room for has always     *)
(* had room.                                                               *)
LEMMA RoomBefore ==
    ASSUME BudgetInv, BudgetInv', [Next]_vars, NEW s \in Sessions, HasRoom(s)'
    PROVE  HasRoom(s)
<1>1. sent \subseteq sent'
  BY DEF Next, InitTracer, CtxDone, Tick, Finished, vars, Serve, ServeGoroutine, HandleUnmatched,
         HandleMatched, Scan, Deliver, Trace, NewSession, NewSessionFails, AddSession, SendRequest,
         SendRequestFails, AppendProbe, DelayTick, ReceiveWhilePinging, CheckDone, CheckNotDone,
         ReceiveWhileDraining, Deadline, CtxReturn, Close, RemoveSession
<1>2. Requests(s) \subseteq Requests(s)'
  BY <1>1 DEF Requests
<1>3. IsFiniteSet(Requests(s)) /\ IsFiniteSet(Requests(s)')
  BY DEF BudgetInv, BudgetOf
<1> DEFINE n == Cardinality(Requests(s))
           m == Cardinality(Requests(s)')
<1>4. n \in Nat /\ m \in Nat /\ n <= m /\ ChanCap \in Nat
  BY <1>2, <1>3, FS_CardinalityType, FS_Subset, ConfigAssumption
<1>5. m <= ChanCap
  BY DEF HasRoom
<1> HIDE DEF n, m
<1>6. n <= ChanCap
  BY <1>4, <1>5
<1> QED
  BY <1>6 DEF HasRoom, n

(* A reply that was matched is not lost again, where none is dropped.      *)
LEMMA DeliverKeepsMatched ==
    ASSUME TypeOK, NeverOverflows, NEW f \in Families, Deliver(f),
           NEW t \in Sessions, HasRoom(t)
    PROVE  MatchedFor(t) \subseteq MatchedFor(t)'
<1>0. PICK s, r : s = out[f].s /\ r = out[f].reply
  OBVIOUS
<1>1. /\ out[f] # NoReply /\ s \in Sessions /\ r \in Reply
      /\ ch \in [Sessions -> Seq(Reply)] /\ got \in [Sessions -> Seq(Reply)] /\ got' = got
      /\ out'[f] = NoReply /\ \A g \in Families \ {f} : out'[g] = out[g]
  BY <1>0 DEF Deliver, TypeOK, ReplyTypeOK
<1>2. /\ \A u \in Sessions \ {s} : ch'[u] = ch[u]
      /\ t = s => ch' = [ch EXCEPT ![s] = Append(@, r)]
  <2>1. t = s => Len(ch[s]) < ChanCap
    BY <1>0, <1>1 DEF NeverOverflows
  <2>2. ch' = ch \/ ch' = [ch EXCEPT ![s] = Append(@, r)]
    BY <1>0 DEF Deliver
  <2>3. t = s => ch' = [ch EXCEPT ![s] = Append(@, r)]
    BY <1>0, <2>1 DEF Deliver
  <2> QED
    BY <1>1, <2>2, <2>3
<1>3. CASE t # s
  <2>1. Replies(t)' = Replies(t)
    BY <1>1, <1>2, <1>3 DEF Replies
  <2>2. \A g \in Families : out[g] # NoReply /\ out[g].s = t => out'[g] = out[g]
    BY <1>0, <1>1, <1>3
  <2> QED
    BY <2>1, <2>2 DEF MatchedFor
<1>4. CASE t = s
  <2>1. Replies(s)' = Append(Replies(s), r)
    <3>1. ch'[s] = Append(ch[s], r)
      BY <1>1, <1>2, <1>4
    <3>2. got[s] \o Append(ch[s], r) = Append(got[s] \o ch[s], r)
      BY <1>1, AppendToConcat
    <3> QED
      BY <1>1, <3>1, <3>2 DEF Replies
  <2>2. Replies(s) \in Seq(Reply)
    BY <1>1, RepliesType
  <2>3. /\ Len(Replies(s)') = Len(Replies(s)) + 1 /\ Len(Replies(s)) \in Nat
        /\ \A i \in 1 .. Len(Replies(s)) : Replies(s)'[i] = Replies(s)[i]
        /\ Replies(s)'[Len(Replies(s)) + 1] = r
    BY <1>1, <2>1, <2>2, AppendElements
  <2>4. /\ \A i \in 1 .. Len(Replies(s)) : Replies(s)[i] \in MatchedFor(s)'
        /\ r \in MatchedFor(s)'
    <3>1. \A i \in 1 .. Len(Replies(s)') : Replies(s)'[i] \in MatchedFor(s)'
      BY DEF MatchedFor
    <3>2. /\ \A i \in 1 .. Len(Replies(s)) : i \in 1 .. Len(Replies(s)')
          /\ Len(Replies(s)) + 1 \in 1 .. Len(Replies(s)')
      BY <2>3
    <3> QED
      BY <2>3, <3>1, <3>2
  <2>5. \A g \in Families : out[g] # NoReply /\ out[g].s = s => out[g].reply \in MatchedFor(s)'
    <3> SUFFICES ASSUME NEW g \in Families, out[g] # NoReply, out[g].s = s
                 PROVE  out[g].reply \in MatchedFor(s)'
      OBVIOUS
    <3>1. CASE g = f
      BY <1>0, <2>4, <3>1
    <3>2. CASE g # f
      BY <1>1, <3>2 DEF MatchedFor
    <3> QED
      BY <3>1, <3>2
  <2> QED
    BY <1>4, <2>4, <2>5 DEF MatchedFor
<1> QED
  BY <1>3, <1>4

(* No step takes a reply away, where handle drops none.                    *)
LEMMA MatchedForGrows ==
    ASSUME TypeOK, NeverOverflows, [Next]_vars, NEW t \in Sessions, HasRoom(t)
    PROVE  MatchedFor(t) \subseteq MatchedFor(t)'
<1>1. CASE UNCHANGED ReplyVars
  BY <1>1, SameReplies
<1>2. ASSUME NEW s \in Sessions, TakeReply(s), UNCHANGED out PROVE MatchedFor(t)' = MatchedFor(t)
  <2>1. RepliesKept
    BY <1>2, TakeReplyMoves DEF RepliesKept
  <2> QED
    BY <1>2, <2>1, KeptMatchedFor
<1>3. ASSUME NEW s \in Sessions, Trace(s) PROVE MatchedFor(t)' = MatchedFor(t)
  <2>1. UNCHANGED ReplyVars \/ (TakeReply(s) /\ UNCHANGED out)
    BY <1>3 DEF Trace, NewSession, NewSessionFails, AddSession, SendRequest, SendRequestFails,
                AppendProbe, DelayTick, ReceiveWhilePinging, CheckDone, CheckNotDone,
                ReceiveWhileDraining, Deadline, CtxReturn, Close, RemoveSession, ReplyVars,
                serveVars
  <2> QED
    BY <1>2, <2>1, SameReplies
<1>4. ASSUME NEW f \in Families, NEW s \in Sessions, HandleUnmatched(f, s) \/ HandleMatched(f, s)
      PROVE  MatchedFor(t) \subseteq MatchedFor(t)'
  <2>1. UNCHANGED <<ch, got>> /\ out[f] = NoReply /\ \A g \in Families \ {f} : out'[g] = out[g]
    BY <1>4 DEF HandleUnmatched, HandleMatched, Scan, TypeOK, ReplyTypeOK
  <2>2. Replies(t)' = Replies(t)
    BY <2>1 DEF Replies
  <2> QED
    BY <2>1, <2>2 DEF MatchedFor
<1>5. CASE InitTracer \/ CtxDone \/ Tick \/ Finished \/ UNCHANGED vars \/ \E q \in sent : Serve(q)
  <2>1. UNCHANGED ReplyVars
    BY <1>5 DEF InitTracer, CtxDone, Tick, Finished, vars, Serve, ReplyVars, serveVars
  <2> QED
    BY <2>1, <1>1
<1> QED
  BY <1>3, <1>4, <1>5, DeliverKeepsMatched DEF Next, ServeGoroutine

(* So a request that was answered, or dropped as timed out, stays so.      *)
LEMMA AnsweredStays ==
    ASSUME TypeOK, NeverOverflows, [Next]_vars, NEW q \in sent, HasRoom(q.s), Answered(q)
    PROVE  Answered(q)'
<1>1. q.s \in Sessions
  BY DEF TypeOK, RequestTypeOK
<1>2. MatchedFor(q.s) \subseteq MatchedFor(q.s)'
  BY <1>1, MatchedForGrows
<1>3. expired \subseteq expired'
  BY DEF Next, InitTracer, CtxDone, Tick, Finished, vars, Serve, ServeGoroutine, HandleUnmatched,
         HandleMatched, Scan, Deliver, Trace, NewSession, NewSessionFails, AddSession, SendRequest,
         SendRequestFails, AppendProbe, DelayTick, ReceiveWhilePinging, CheckDone, CheckNotDone,
         ReceiveWhileDraining, Deadline, CtxReturn, Close, RemoveSession
<1> QED
  BY <1>2, <1>3 DEF Answered

-----------------------------------------------------------------------------
(* A request is only being sent in "append", and a trace that is done ends.*)
LEMMA PhaseStep ==
    ASSUME TypeOK, PhaseInv, [Next]_vars
    PROVE  PhaseInv'
<1>1. /\ pc \in [Sessions -> Location] /\ sending \in [Sessions -> SUBSET Packet]
      /\ DOMAIN ret = Sessions
  BY DEF TypeOK, TraceTypeOK, RequestTypeOK
<1>2. CASE UNCHANGED <<pc, sending, ret>>
  BY <1>2 DEF PhaseInv
<1>3. CASE Tick
  <2>1. \A t \in Sessions : sending[t] = {} => sending'[t] = {}
    BY <1>3 DEF Tick, Older
  <2> QED
    BY <1>3, <2>1 DEF Tick, PhaseInv
<1>4. ASSUME NEW s \in Sessions, Trace(s) PROVE PhaseInv'
  <2> SUFFICES ASSUME NEW t \in Sessions
               PROVE  /\ pc'[t] # "append" => sending'[t] = {}
                      /\ ret'[t] = "done" => pc'[t] \in {"close", "remove", "returned"}
    BY DEF PhaseInv
  <2>1. /\ pc[t] # "append" => sending[t] = {}
        /\ ret[t] = "done" => pc[t] \in {"close", "remove", "returned"}
    BY DEF PhaseInv
  <2>2. CASE SendRequest(s)
    BY <1>1, <2>1, <2>2 DEF SendRequest, traceVars
  <2>3. CASE AppendProbe(s)
    BY <1>1, <2>1, <2>3 DEF AppendProbe, traceVars
  <2>4. CASE DelayTick(s) \/ ReceiveWhilePinging(s)
    <3>1. /\ UNCHANGED <<sending, ret>> /\ pc[s] = "wait"
          /\ \E l \in {"ping", "check"} : pc' = [pc EXCEPT ![s] = l]
      BY <2>4 DEF DelayTick, ReceiveWhilePinging, NextPing
    <3> QED
      BY <1>1, <2>1, <3>1
  <2>5. CASE NewSession(s) \/ AddSession(s) \/ CheckNotDone(s) \/ ReceiveWhileDraining(s)
    <3>1. /\ UNCHANGED <<sending, ret>> /\ pc[s] \in {"new", "add", "check", "recheck", "drain"}
          /\ \E l \in {"add", "ping", "drain", "recheck"} : pc' = [pc EXCEPT ![s] = l]
      BY <2>5 DEF NewSession, AddSession, CheckNotDone, ReceiveWhileDraining, traceVars
    <3> QED
      BY <1>1, <2>1, <3>1
  <2>6. CASE \/ NewSessionFails(s) \/ SendRequestFails(s) \/ CheckDone(s) \/ Deadline(s)
             \/ CtxReturn(s) \/ Close(s) \/ RemoveSession(s)
    <3>1. /\ UNCHANGED sending /\ \A u \in Sessions \ {s} : ret'[u] = ret[u]
          /\ pc[s] # "append"
          /\ \E l \in {"close", "remove", "returned"} : pc' = [pc EXCEPT ![s] = l]
      BY <1>1, <2>6 DEF NewSessionFails, SendRequestFails, CheckDone, Deadline, CtxReturn, Close,
                        RemoveSession, Return, traceVars
    <3> QED
      BY <1>1, <2>1, <3>1
  <2> QED
    BY <1>4, <2>2, <2>3, <2>4, <2>5, <2>6 DEF Trace
<1>5. CASE \/ InitTracer \/ CtxDone \/ Finished \/ UNCHANGED vars
           \/ \E q \in sent : Serve(q)
           \/ \E f \in Families : ServeGoroutine(f)
  <2>1. UNCHANGED <<pc, sending, ret>>
    BY <1>5 DEF InitTracer, CtxDone, Finished, vars, Serve, ServeGoroutine, HandleUnmatched,
                HandleMatched, Scan, Deliver, traceVars
  <2> QED
    BY <1>2, <2>1
<1> QED
  BY <1>3, <1>4, <1>5 DEF Next

(* Numbers are never given back.                                           *)
LEMMA SeqGrows ==
    ASSUME TypeOK, [Next]_vars
    PROVE  seq' >= seq
<1>1. seq \in Nat
  BY DEF TypeOK, RequestTypeOK
<1> QED
  BY <1>1 DEF Next, InitTracer, CtxDone, Tick, Finished, vars, Serve, ServeGoroutine,
         HandleUnmatched, HandleMatched, Scan, Deliver, Trace, NewSession, NewSessionFails,
         AddSession, SendRequest, SendRequestFails, AppendProbe, DelayTick, ReceiveWhilePinging,
         CheckDone, CheckNotDone, ReceiveWhileDraining, Deadline, CtxReturn, Close, RemoveSession

(* Steps that keep every unanswered request, if under a new age.           *)
LEMMA AwaitedStays ==
    ASSUME NEW q \in sent, Awaited(q),
           \A p \in Unanswered(q.s) : \E u \in Unanswered(q.s)' : u.n = p.n /\ u.ttl = p.ttl
    PROVE  Awaited(q)'
BY DEF Awaited

(* handle takes out what it drops or matches, and a request it matches is  *)
(* the one that the reply is attributed to.                                *)
LEMMA ScanAccounts ==
    ASSUME IInv, seq < IdSpace, NEW f \in Families, NEW s \in Sessions,
           HandleUnmatched(f, s) \/ HandleMatched(f, s),
           NEW q \in sent, FamilyOf(DestOf[q.s]) = "v4", Awaited(q)
    PROVE  Awaited(q)' \/ Answered(q)'
<1>1. /\ TypeOK /\ RequestInv /\ ServeInv /\ seq \in Nat
      /\ probes \in [Sessions -> SUBSET Packet] /\ q.s \in Sessions
  BY DEF IInv, TypeOK, RequestTypeOK
<1>2. PICK p \in Unanswered(q.s) : p.n = q.n /\ p.ttl = q.ttl
  BY DEF Awaited
<1>3. /\ Scan(f, s) /\ UNCHANGED sending /\ s \in todo[f] /\ out[f] = NoReply
      /\ probes' = [probes EXCEPT ![s] = @ \ Gone(f, s)]
      /\ expired' = expired \cup {u.n : u \in TimedOut(f, s)}
  BY DEF HandleUnmatched, HandleMatched, Scan
<1>4. CASE p \in Unanswered(q.s)'
  BY <1>2, <1>4 DEF Awaited
<1>5. CASE p \notin Unanswered(q.s)'
  <2>1. q.s = s /\ p \in probes[s] /\ p \in Gone(f, s)
    BY <1>1, <1>3, <1>5 DEF Unanswered
  <2>2. CASE p \in TimedOut(f, s)
    BY <1>2, <1>3, <2>2 DEF Answered
  <2>3. CASE p \in Matches(f, s)
    <3>1. HandleMatched(f, s)
      BY <2>3 DEF HandleUnmatched
    <3>2. PICK m \in Matches(f, s) :
             out' = [out EXCEPT ![f] =
                        [s |-> s,
                         reply |-> [req |-> m.n, cause |-> res[f].n, target |-> res[f].target,
                                    hops |-> HopsOf(m.ttl, res[f].ttl)]]]
      BY <3>1 DEF HandleMatched
    <3>3. out'[f].s = s /\ out'[f].reply.req = m.n /\ out'[f] # NoReply
      BY <1>1, <3>2 DEF TypeOK, ReplyTypeOK, NoReply
    <3>4. f = "v4"
      BY <1>1, <1>3, <2>1 DEF ServeInv
    <3>5. /\ p.n \in Nat /\ p.n <= seq /\ m.n \in Nat /\ m.n <= seq
      BY <1>1, <2>1 DEF RequestInv, Unanswered, Matches, Packet
    <3>6. ID(p.n) = ID(m.n)
      BY <2>3, <3>4 DEF Matches
    <3>7. p.n < IdSpace /\ m.n < IdSpace
      BY <1>1, <3>5, ConfigAssumption
    <3>8. p.n = m.n
      BY <3>5, <3>6, <3>7, DistinctIDs
    <3>9. out'[f].reply \in MatchedFor(s)'
      BY <3>3 DEF MatchedFor
    <3> QED
      BY <1>2, <2>1, <3>3, <3>8, <3>9 DEF Answered
  <2> QED
    BY <2>1, <2>2, <2>3 DEF Gone
<1> QED
  BY <1>4, <1>5

(* Every request sent stays accounted for, step by step.                   *)
LEMMA AccountedStep ==
    ASSUME IInv, TypeOK', BudgetInv, BudgetInv', PhaseInv, NeverOverflows, AccountedInv,
           [Next]_vars
    PROVE  AccountedInv'
<1>1. /\ TypeOK /\ seq \in Nat /\ seq' \in Nat /\ probes \in [Sessions -> SUBSET Packet]
      /\ sending \in [Sessions -> SUBSET Packet] /\ IdSpace \in Nat
  BY ConfigAssumption DEF IInv, TypeOK, RequestTypeOK
<1> SUFFICES ASSUME NEW q \in sent', Faithful(q.s)', FamilyOf(DestOf[q.s]) = "v4"
             PROVE  Awaited(q)' \/ Answered(q)'
  BY DEF AccountedInv, FamilyOf, Faithful, HasRoom, Requests
<1>2. HasRoom(q.s)
  <2>1. q.s \in Sessions
    BY DEF TypeOK, RequestTypeOK
  <2> QED
    BY <2>1, RoomBefore DEF Faithful
<1>3. seq' >= seq
  BY <1>1, SeqGrows
<1>4. seq < IdSpace
  BY <1>1, <1>3 DEF Faithful
<1>5. q \in sent => Awaited(q) \/ Answered(q)
  BY <1>2, <1>4 DEF AccountedInv, Faithful
<1>6. q \in sent /\ Answered(q) => Answered(q)'
  BY <1>1, <1>2, AnsweredStays
<1>7. ASSUME sent' = sent,
             \A t \in Sessions : \A p \in Unanswered(t) :
                 \E u \in Unanswered(t)' : u.n = p.n /\ u.ttl = p.ttl
      PROVE  Awaited(q)' \/ Answered(q)'
  <2>1. q.s \in Sessions
    BY <1>1, <1>7 DEF TypeOK, RequestTypeOK
  <2> QED
    BY <1>5, <1>6, <1>7, <2>1, AwaitedStays
<1>8. CASE UNCHANGED <<sent, probes, sending>>
  BY <1>7, <1>8 DEF Unanswered
<1>9. CASE Tick
  <2>1. sent' = sent
    BY <1>9 DEF Tick
  <2>2. \A P \in SUBSET Packet : \A p \in P : \E u \in Older(P) : u.n = p.n /\ u.ttl = p.ttl
    <3> SUFFICES ASSUME NEW P \in SUBSET Packet, NEW p \in P
                 PROVE  \E u \in Older(P) : u.n = p.n /\ u.ttl = p.ttl
      OBVIOUS
    <3> DEFINE u == [p EXCEPT !.age = IF @ > Timeout THEN @ ELSE @ + 1]
    <3>1. u \in Older(P)
      BY DEF Older
    <3>2. u.n = p.n /\ u.ttl = p.ttl
      BY DEF Packet
    <3> HIDE DEF u
    <3> QED
      BY <3>1, <3>2
  <2>3. \A t \in Sessions : probes'[t] = Older(probes[t]) /\ sending'[t] = Older(sending[t])
    BY <1>9 DEF Tick
  <2>4. \A t \in Sessions : \A p \in Unanswered(t) :
           \E u \in Unanswered(t)' : u.n = p.n /\ u.ttl = p.ttl
    BY <1>1, <2>2, <2>3 DEF Unanswered
  <2> QED
    BY <1>7, <2>1, <2>4
<1>10. ASSUME NEW s \in Sessions, SendRequest(s) PROVE Awaited(q)' \/ Answered(q)'
  <2> DEFINE new == [n |-> seq + 1, s |-> s, ttl |-> ttl[s] + 1]
             probe == [n |-> seq + 1, ttl |-> ttl[s] + 1, age |-> 0]
  <2>1. /\ sent' = sent \cup {new} /\ probes' = probes /\ sending[s] = {}
        /\ sending' = [sending EXCEPT ![s] = {probe}]
    BY <1>10 DEF SendRequest, PhaseInv
  <2>2. CASE q \in sent
    <3>1. Unanswered(q.s) \subseteq Unanswered(q.s)'
      BY <1>1, <2>1 DEF Unanswered
    <3> QED
      BY <1>5, <1>6, <2>2, <3>1, AwaitedStays
  <2>3. CASE q = new
    <3>1. q.s = s /\ q.n = seq + 1 /\ q.ttl = ttl[s] + 1
      BY <2>3
    <3>2. probe \in Unanswered(s)' /\ probe.n = seq + 1 /\ probe.ttl = ttl[s] + 1
      BY <1>1, <2>1 DEF Unanswered
    <3> HIDE DEF probe, new
    <3> QED
      BY <3>1, <3>2 DEF Awaited
  <2> QED
    BY <2>1, <2>2, <2>3
<1>11. ASSUME NEW s \in Sessions, AppendProbe(s) PROVE Awaited(q)' \/ Answered(q)'
  <2>1. sent' = sent
    BY <1>11 DEF AppendProbe
  <2>2. \A t \in Sessions : Unanswered(t)' = Unanswered(t)
    BY <1>1, <1>11 DEF AppendProbe, Unanswered
  <2> QED
    BY <1>7, <2>1, <2>2
<1>12. ASSUME NEW s \in Sessions, Trace(s) PROVE Awaited(q)' \/ Answered(q)'
  <2>1. SendRequest(s) \/ AppendProbe(s) \/ UNCHANGED <<sent, probes, sending>>
    BY <1>12 DEF Trace, NewSession, NewSessionFails, AddSession, SendRequestFails, DelayTick,
                 ReceiveWhilePinging, CheckDone, CheckNotDone, ReceiveWhileDraining, Deadline,
                 CtxReturn, Close, RemoveSession
  <2> QED
    BY <1>8, <1>10, <1>11, <2>1
<1>13. ASSUME NEW f \in Families, ServeGoroutine(f) PROVE Awaited(q)' \/ Answered(q)'
  <2>1. CASE Deliver(f)
    <3>1. UNCHANGED <<sent, probes, sending>>
      BY <2>1 DEF Deliver
    <3> QED
      BY <1>8, <3>1
  <2>2. ASSUME NEW s \in Sessions, HandleUnmatched(f, s) \/ HandleMatched(f, s)
        PROVE  Awaited(q)' \/ Answered(q)'
    <3>1. q \in sent
      BY <2>2 DEF HandleUnmatched, HandleMatched, Scan
    <3> QED
      BY <1>4, <1>5, <1>6, <2>2, <3>1, ScanAccounts
  <2> QED
    BY <1>13, <2>1, <2>2 DEF ServeGoroutine
<1>14. CASE InitTracer \/ CtxDone \/ Finished \/ UNCHANGED vars \/ \E w \in sent : Serve(w)
  <2>1. UNCHANGED <<sent, probes, sending>>
    BY <1>14 DEF InitTracer, CtxDone, Finished, vars, Serve
  <2> QED
    BY <1>8, <2>1
<1> QED
  BY <1>9, <1>12, <1>13, <1>14 DEF Next

-----------------------------------------------------------------------------
(* A trace that is done sends and receives no more, and what was answered  *)
(* stays so.                                                               *)
LEMMA DoneStep ==
    ASSUME IInv, TypeOK', BudgetInv, BudgetInv', PhaseInv, NeverOverflows, AccountedInv, DoneInv,
           [Next]_vars
    PROVE  DoneInv'
<1>1. /\ TypeOK /\ seq \in Nat /\ seq' \in Nat /\ IdSpace \in Nat /\ DOMAIN ret = Sessions
      /\ sending \in [Sessions -> SUBSET Packet] /\ pc \in [Sessions -> Location]
      /\ max \in [Sessions -> 1 .. MaxHops]
  BY ConfigAssumption DEF IInv, TypeOK, RequestTypeOK, TraceTypeOK
<1> SUFFICES ASSUME NEW s \in Sessions, Faithful(s)', FamilyOf(DestOf[s]) = "v4", ret'[s] = "done",
                    NEW q \in sent', q.s = s, q.ttl <= max'[s]
             PROVE  Answered(q)'
  BY DEF DoneInv, FamilyOf
<1>2. HasRoom(s)
  BY RoomBefore DEF Faithful
<1>3. seq' >= seq
  BY <1>1, SeqGrows
<1>4. Faithful(s)
  BY <1>1, <1>2, <1>3 DEF Faithful
<1>5. CASE ret[s] = "done"
  <2>1. pc[s] \in {"close", "remove", "returned"}
    BY <1>5 DEF PhaseInv
  <2>2. max'[s] = max[s] /\ q \in sent
    <3>1. ASSUME NEW t \in Sessions, Trace(t) PROVE max'[s] = max[s] /\ q \in sent
      <4>1. CASE SendRequest(t)
        <5>1. /\ t # s /\ UNCHANGED max
              /\ sent' = sent \cup {[n |-> seq + 1, s |-> t, ttl |-> ttl[t] + 1]}
          BY <2>1, <4>1 DEF SendRequest, traceVars
        <5> QED
          BY <5>1
      <4>2. CASE ReceiveWhilePinging(t) \/ ReceiveWhileDraining(t)
        <5>1. t # s /\ TakeReply(t) /\ sent' = sent
          BY <2>1, <4>2 DEF ReceiveWhilePinging, ReceiveWhileDraining
        <5> QED
          BY <1>1, <5>1 DEF TakeReply
      <4>3. CASE ~SendRequest(t) /\ ~ReceiveWhilePinging(t) /\ ~ReceiveWhileDraining(t)
        BY <3>1, <4>3 DEF Trace, NewSession, NewSessionFails, AddSession, SendRequestFails,
                  AppendProbe, DelayTick, CheckDone, CheckNotDone, Deadline, CtxReturn, Close,
                  RemoveSession, traceVars
      <4> QED
        BY <4>1, <4>2, <4>3
    <3>2. CASE \/ InitTracer \/ CtxDone \/ Tick \/ Finished \/ UNCHANGED vars
               \/ \E w \in sent : Serve(w)
               \/ \E f \in Families : ServeGoroutine(f)
      BY <3>2 DEF InitTracer, CtxDone, Tick, Finished, vars, Serve, ServeGoroutine, HandleUnmatched,
                  HandleMatched, Scan, Deliver, traceVars
    <3> QED
      BY <3>1, <3>2 DEF Next
  <2>3. Answered(q)
    BY <1>4, <1>5, <2>2 DEF DoneInv
  <2> QED
    BY <1>1, <1>2, <2>2, <2>3, AnsweredStays
<1>6. CASE ret[s] # "done"
  <2>1. CheckDone(s)
    <3>1. ASSUME NEW t \in Sessions, Trace(t) PROVE CheckDone(s)
      <4>1. CASE CheckDone(t)
        <5>1. t = s
          BY <1>1, <1>6, <4>1 DEF CheckDone, Return
        <5> QED
          BY <4>1, <5>1
      <4>2. CASE ~CheckDone(t)
        <5>1. ret'[s] = ret[s] \/ ret'[s] # "done"
          BY <1>1, <3>1, <4>2 DEF Trace, NewSession, NewSessionFails, AddSession, SendRequest,
                  SendRequestFails, AppendProbe, DelayTick, ReceiveWhilePinging, CheckNotDone,
                  ReceiveWhileDraining, Deadline, CtxReturn, Close, RemoveSession, Return, traceVars
        <5> QED
          BY <1>6, <5>1
      <4> QED
        BY <4>1, <4>2
    <3>2. CASE \/ InitTracer \/ CtxDone \/ Tick \/ Finished \/ UNCHANGED vars
               \/ \E w \in sent : Serve(w)
               \/ \E f \in Families : ServeGoroutine(f)
      <4>1. ret' = ret
        BY <3>2 DEF InitTracer, CtxDone, Tick, Finished, vars, Serve, ServeGoroutine,
                  HandleUnmatched, HandleMatched, Scan, Deliver, traceVars
      <4> QED
        BY <1>6, <4>1
    <3> QED
      BY <3>1, <3>2 DEF Next
  <2>2. /\ pc[s] # "append" /\ UNCHANGED <<sent, max, ch, got, out, expired>>
        /\ \A p \in probes[s] : p.ttl > max[s]
    BY <2>1 DEF CheckDone, IsDone, serveVars
  <2>3. Unanswered(s) = probes[s]
    BY <2>2 DEF PhaseInv, Unanswered
  <2>4. ~Awaited(q)
    <3> SUFFICES ASSUME NEW p \in probes[s], p.ttl = q.ttl PROVE FALSE
      BY <2>3 DEF Awaited
    <3>1. p.ttl > max[s] /\ p.ttl <= max[s]
      BY <2>2
    <3>2. p.ttl \in Nat /\ max[s] \in Nat
      BY <1>1, ConfigAssumption DEF TypeOK, RequestTypeOK, Packet
    <3> QED
      BY <3>1, <3>2
  <2>5. Answered(q)
    BY <1>4, <2>2, <2>4 DEF AccountedInv
  <2> QED
    BY <1>1, <1>2, <2>2, <2>5, AnsweredStays
<1> QED
  BY <1>5, <1>6

(* An IPv4 trace that ends as done has an answer, or has given up after    *)
(* the timeout, for every request up to the distance of the target, as     *)
(* long as the channel has a place for each request and identifiers have   *)
(* not wrapped around.  (For IPv6 the run Tracer_v6_done shows the         *)
(* contrary.)                                                              *)
THEOREM DoneMeansAnsweredHolds ==
    Spec => [](V6Dests = {} /\ seq < IdSpace => DoneMeansAnswered)
<1>1. Init => PhaseInv /\ AccountedInv /\ DoneInv
  BY DEF Init, PhaseInv, AccountedInv, DoneInv
<1>2. ASSUME IInv, TypeOK', BudgetInv, BudgetInv', NeverOverflows,
             PhaseInv /\ AccountedInv /\ DoneInv, [Next]_vars
      PROVE  (PhaseInv /\ AccountedInv /\ DoneInv)'
  <2>1. TypeOK
    BY <1>2 DEF IInv
  <2> QED
    BY <1>2, <2>1, PhaseStep, AccountedStep, DoneStep
<1>3. ASSUME DoneInv PROVE V6Dests = {} /\ seq < IdSpace => DoneMeansAnswered
  <2> SUFFICES ASSUME V6Dests = {}, seq < IdSpace PROVE DoneMeansAnswered
    OBVIOUS
  <2>1. \A s \in Sessions : FamilyOf(DestOf[s]) = "v4"
    BY DEF FamilyOf
  <2> QED
    BY <1>3, <2>1 DEF DoneInv, DoneMeansAnswered, Answered, Faithful
<1> QED
  BY <1>1, <1>2, <1>3, Inductive, TypeCorrect, Budgeted, NeverOverflowsHolds, PTL DEF Spec
=============================================================================
