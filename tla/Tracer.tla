------------------------------- MODULE Tracer -------------------------------
(***************************************************************************)
(* The raw-ICMP tracer of bk/trace_common.go: one Tracer shared by every   *)
(* concurrent traceroute of the process.  A Trace call opens a Session,    *)
(* pings with growing TTL and collects replies from the session's channel. *)
(* One goroutine per address family reads the socket and hands each reply  *)
(* to every session registered for the reply's destination.                *)
(*                                                                         *)
(* Each Trace call is one element of Sessions.  The network is the set of  *)
(* requests sent so far: any of them may be answered at any time, any      *)
(* number of times, or never, which covers loss, delay, duplication and    *)
(* reordering.  Time is counted in ticks; ages saturate once expired.      *)
(***************************************************************************)
EXTENDS Integers, Sequences, FiniteSets

CONSTANTS
    Sessions,     \* the Trace calls
    Dests,        \* the destination addresses
    V6Dests,      \* those that are IPv6 addresses
    DestOf,       \* the destination of each Trace call
    MaxHops,      \* Config.MaxHops
    Count,        \* Config.Count, rounds of pings per Trace
    Timeout,      \* Config.Timeout, in ticks
    ChanCap,      \* capacity of Session.ch (64 in the code)
    IdSpace,      \* number of packet identifiers (2^16 in the code)
    Answers       \* what the network may answer to a packet of each TTL

Families == {"v4", "v6"}

FamilyOf(d) == IF d \in V6Dests THEN "v6" ELSE "v4"

(* What an answer shows of itself: whether it comes from the traced        *)
(* address, and the TTL it quotes (1 for an echo reply).                   *)
Answer == [target : BOOLEAN, ttl : Nat]

ASSUME DestsAssumption == V6Dests \subseteq Dests /\ DestOf \in [Sessions -> Dests]
ASSUME ConfigAssumption == /\ MaxHops \in Nat \ {0} /\ Count \in Nat \ {0}
                           /\ Timeout \in Nat \ {0} /\ ChanCap \in Nat \ {0}
                           /\ IdSpace \in Nat \ {0}
ASSUME AnswersAssumption == Answers \in [1 .. MaxHops + 1 -> SUBSET Answer]

-----------------------------------------------------------------------------
VARIABLES
    tracer,    \* outcome of once.Do(init): "new", "ready" or "failed" (t.err set)
    seq,       \* t.seq; a packet's number, its identifier is ID(number)
    sess,      \* t.sess: destination -> open sessions
    probes,    \* s.probes: unanswered requests
    sending,   \* request written to the socket but not yet in s.probes
    ch,        \* s.ch
    pc,        \* where each Trace call is
    round,     \* the loop variable n of Trace, from 1
    ttl,       \* the loop variable ttl of Trace
    max,       \* the local max of Trace
    timer,     \* ticks before the deadline of Trace fires
    ret,       \* why Trace returned
    ctxDone,   \* the callers' context is done
    todo,      \* sessions the serve goroutine still has to hand its reply to
    res,       \* the reply each serve goroutine works on
    out,       \* reply it has matched and not yet put in the channel
    sent,      \* history: requests the network has seen
    got,       \* history: replies passed to the callback h
    expired    \* history: requests dropped because they timed out

traceVars  == <<round, ttl, max, timer, ret>>
serveVars  == <<todo, res, out>>
vars == <<tracer, seq, sess, probes, sending, ch, pc, traceVars, ctxDone,
          serveVars, sent, got, expired>>

NoReply == [s |-> "none"]
NoRes   == [n |-> 0, target |-> FALSE, ttl |-> 0, late |-> {}]

Packet == [n : Nat, ttl : Nat, age : 0 .. Timeout + 1]
Reply  == [req : Nat, cause : Nat, hops : Nat \ {0}, target : BOOLEAN]

(* A reply read from the socket: the request that caused it, what it       *)
(* shows, and the requests that had timed out when it was read.            *)
Arrival == [n : Nat, target : BOOLEAN, ttl : Nat, late : SUBSET Nat]

Location == {"new", "add", "ping", "append", "wait", "check", "recheck", "drain",
             "close", "remove", "returned"}

(* Both numbers appear in the packet as uint16(number).                    *)
ID(n) == n % IdSpace

TraceTypeOK ==
    /\ pc \in [Sessions -> Location]
    /\ round \in [Sessions -> Nat]
    /\ ttl \in [Sessions -> 1 .. MaxHops]
    /\ max \in [Sessions -> 1 .. MaxHops]
    /\ timer \in [Sessions -> 0 .. Timeout]
    /\ ret \in [Sessions -> {"none", "done", "deadline", "ctx", "send", "listen"}]

ReplyTypeOK ==
    /\ ch \in [Sessions -> Seq(Reply)]
    /\ got \in [Sessions -> Seq(Reply)]
    /\ out \in [Families -> {NoReply} \cup [s : Sessions, reply : Reply]]

RequestTypeOK ==
    /\ seq \in Nat
    /\ probes \in [Sessions -> SUBSET Packet]
    /\ sending \in [Sessions -> SUBSET Packet]
    /\ sent \in SUBSET [n : Nat, s : Sessions, ttl : 1 .. MaxHops + 1]
    /\ expired \in SUBSET Nat

ServeTypeOK ==
    /\ tracer \in {"new", "ready", "failed"}
    /\ ctxDone \in BOOLEAN
    /\ sess \in [Dests -> SUBSET Sessions]
    /\ todo \in [Families -> SUBSET Sessions]
    /\ res \in [Families -> Arrival]

TypeOK == TraceTypeOK /\ ReplyTypeOK /\ RequestTypeOK /\ ServeTypeOK

Init ==
    /\ tracer = "new" /\ seq = 0
    /\ sess = [d \in Dests |-> {}]
    /\ probes = [s \in Sessions |-> {}] /\ sending = [s \in Sessions |-> {}]
    /\ ch = [s \in Sessions |-> <<>>]
    /\ pc = [s \in Sessions |-> "new"]
    /\ round = [s \in Sessions |-> 1] /\ ttl = [s \in Sessions |-> 1]
    /\ max = [s \in Sessions |-> MaxHops] /\ timer = [s \in Sessions |-> 0]
    /\ ret = [s \in Sessions |-> "none"]
    /\ ctxDone = FALSE
    /\ todo = [f \in Families |-> {}] /\ res = [f \in Families |-> NoRes]
    /\ out = [f \in Families |-> NoReply]
    /\ sent = {} /\ got = [s \in Sessions |-> <<>>] /\ expired = {}

-----------------------------------------------------------------------------
(* t.mu: serveReply holds the read lock from its lookup to its last handle *)
(* call; addSession and removeSession need the write lock.  A waiting      *)
(* writer keeps new readers out (sync.RWMutex).                            *)
Serving(f) == todo[f] # {} \/ out[f] # NoReply
WriteLockFree == \A f \in Families : ~Serving(f)
WriterWaits == \E s \in Sessions : pc[s] \in {"add", "remove"}

(* once.Do(t.init): the first NewSession call listens, the others wait.    *)
(* Without an IPv4 socket every session fails, those of IPv6 targets too;  *)
(* without a usable IPv6 socket only their sendRequest does.               *)
InitTracer ==
    /\ tracer = "new"
    /\ tracer' \in {"ready", "failed"}
    /\ UNCHANGED <<seq, sess, probes, sending, ch, pc, traceVars, ctxDone, serveVars,
                   sent, got, expired>>

Return(s, why) == ret' = [ret EXCEPT ![s] = why]

NewSession(s) ==
    /\ pc[s] = "new" /\ tracer = "ready"
    /\ pc' = [pc EXCEPT ![s] = "add"]
    /\ UNCHANGED <<tracer, seq, sess, probes, sending, ch, traceVars, ctxDone, serveVars,
                   sent, got, expired>>

AddSession(s) ==
    /\ pc[s] = "add" /\ WriteLockFree
    /\ sess' = [sess EXCEPT ![DestOf[s]] = @ \cup {s}]
    /\ pc' = [pc EXCEPT ![s] = "ping"]
    /\ UNCHANGED <<tracer, seq, probes, sending, ch, traceVars, ctxDone, serveVars,
                   sent, got, expired>>

NewSessionFails(s) ==
    /\ pc[s] = "new" /\ tracer = "failed"
    /\ pc' = [pc EXCEPT ![s] = "returned"]
    /\ Return(s, "listen")
    /\ UNCHANGED <<tracer, seq, sess, probes, sending, ch, round, ttl, max, timer,
                   ctxDone, serveVars, sent, got, expired>>

(* Ping(ttl): sendRequest(ttl+1) first, the probe is appended afterwards.  *)
(* The network may answer between the two steps.                           *)
SendRequest(s) ==
    /\ pc[s] = "ping"
    /\ seq' = seq + 1
    /\ sending' = [sending EXCEPT ![s] = {[n |-> seq + 1, ttl |-> ttl[s] + 1, age |-> 0]}]
    /\ sent' = sent \cup {[n |-> seq + 1, s |-> s, ttl |-> ttl[s] + 1]}
    /\ pc' = [pc EXCEPT ![s] = "append"]
    /\ UNCHANGED <<tracer, sess, probes, ch, traceVars, ctxDone, serveVars, got, expired>>

SendRequestFails(s) ==
    /\ pc[s] = "ping"
    /\ seq' = seq + 1
    /\ pc' = [pc EXCEPT ![s] = "close"]
    /\ Return(s, "send")
    /\ UNCHANGED <<tracer, sess, probes, sending, ch, round, ttl, max, timer, ctxDone,
                   serveVars, sent, got, expired>>

AppendProbe(s) ==
    /\ pc[s] = "append"
    /\ probes' = [probes EXCEPT ![s] = @ \cup sending[s]]
    /\ sending' = [sending EXCEPT ![s] = {}]
    /\ pc' = [pc EXCEPT ![s] = "wait"]
    /\ UNCHANGED <<tracer, seq, sess, ch, traceVars, ctxDone, serveVars, sent, got, expired>>

(* The head of the two for loops: the next ttl, else the next round, else  *)
(* out of the loops.  m is the value of max the conditions read.           *)
NextPing(s, m) ==
    IF ttl[s] + 1 <= MaxHops /\ ttl[s] + 1 <= m
    THEN /\ ttl' = [ttl EXCEPT ![s] = @ + 1]
         /\ pc' = [pc EXCEPT ![s] = "ping"]
         /\ UNCHANGED round
    ELSE /\ ttl' = [ttl EXCEPT ![s] = 1]
         /\ round' = [round EXCEPT ![s] = @ + 1]
         /\ pc' = [pc EXCEPT ![s] = IF round[s] + 1 <= Count THEN "ping" ELSE "check"]

DelayTick(s) ==
    /\ pc[s] = "wait"
    /\ NextPing(s, max[s])
    /\ UNCHANGED <<tracer, seq, sess, probes, sending, ch, max, timer, ret, ctxDone,
                   serveVars, sent, got, expired>>

(* Takes a reply from the channel: max shrinks to the distance of the      *)
(* target, then h is called.                                               *)
NewMaxLatest(s, r) == IF r.target THEN r.hops ELSE max[s]

NewMax(s, r) == IF r.target /\ max[s] > r.hops THEN r.hops ELSE max[s]

TakeReply(s) ==
    /\ ch[s] # <<>>
    /\ ch' = [ch EXCEPT ![s] = Tail(@)]
    /\ got' = [got EXCEPT ![s] = Append(@, Head(ch[s]))]
    /\ max' = [max EXCEPT ![s] = NewMax(s, Head(ch[s]))]

ReceiveWhilePinging(s) ==
    /\ pc[s] = "wait"
    /\ TakeReply(s)
    /\ NextPing(s, NewMax(s, Head(ch[s])))
    /\ UNCHANGED <<tracer, seq, sess, probes, sending, timer, ret, ctxDone, serveVars,
                   sent, expired>>

(* isDone(ttl): no unanswered request with TTL <= ttl.                     *)
IsDoneBelow(s, t) == \A p \in probes[s] : p.ttl >= t

IsDone(s, t) == \A p \in probes[s] : p.ttl > t

(* The isDone test after the loops ("check", which arms the deadline) and  *)
(* after each reply of the drain loop ("recheck").                         *)
CheckDone(s) ==
    /\ pc[s] \in {"check", "recheck"} /\ IsDone(s, max[s])
    /\ pc' = [pc EXCEPT ![s] = "close"]
    /\ Return(s, "done")
    /\ UNCHANGED <<tracer, seq, sess, probes, sending, ch, round, ttl, max, timer, ctxDone,
                   serveVars, sent, got, expired>>

CheckNotDone(s) ==
    /\ pc[s] \in {"check", "recheck"} /\ ~IsDone(s, max[s])
    /\ timer' = [timer EXCEPT ![s] = IF pc[s] = "check" THEN Timeout ELSE @]
    /\ pc' = [pc EXCEPT ![s] = "drain"]
    /\ UNCHANGED <<tracer, seq, sess, probes, sending, ch, round, ttl, max, ret, ctxDone,
                   serveVars, sent, got, expired>>

ReceiveWhileDraining(s) ==
    /\ pc[s] = "drain"
    /\ TakeReply(s)
    /\ pc' = [pc EXCEPT ![s] = "recheck"]
    /\ UNCHANGED <<tracer, seq, sess, probes, sending, round, ttl, timer, ret, ctxDone,
                   serveVars, sent, expired>>

Deadline(s) ==
    /\ pc[s] = "drain" /\ timer[s] = 0
    /\ pc' = [pc EXCEPT ![s] = "close"]
    /\ Return(s, "deadline")
    /\ UNCHANGED <<tracer, seq, sess, probes, sending, ch, round, ttl, max, timer, ctxDone,
                   serveVars, sent, got, expired>>

CtxReturn(s) ==
    /\ pc[s] \in {"wait", "drain"} /\ ctxDone
    /\ pc' = [pc EXCEPT ![s] = "close"]
    /\ Return(s, "ctx")
    /\ UNCHANGED <<tracer, seq, sess, probes, sending, ch, round, ttl, max, timer, ctxDone,
                   serveVars, sent, got, expired>>

(* The deferred sess.Close() calls removeSession.                          *)
Close(s) ==
    /\ pc[s] = "close"
    /\ pc' = [pc EXCEPT ![s] = "remove"]
    /\ UNCHANGED <<tracer, seq, sess, probes, sending, ch, traceVars, ctxDone, serveVars,
                   sent, got, expired>>

SessWithoutAll(s) == [sess EXCEPT ![DestOf[s]] = {}]

SessWithout(s) == [sess EXCEPT ![DestOf[s]] = @ \ {s}]

RemoveSession(s) ==
    /\ pc[s] = "remove" /\ WriteLockFree
    /\ sess' = SessWithout(s)
    /\ pc' = [pc EXCEPT ![s] = "returned"]
    /\ UNCHANGED <<tracer, seq, probes, sending, ch, traceVars, ctxDone, serveVars,
                   sent, got, expired>>

-----------------------------------------------------------------------------
(* The requests whose age exceeds Timeout when a reply is read from the    *)
(* socket: handle compares with res.Time, taken at that moment.            *)
Late(S) == {p.n : p \in {q \in UNION {probes[s] \cup sending[s] : s \in S} : q.age > Timeout}}

(* serve, serveData and the lookup of serveReply: an answer to request q   *)
(* arrives and is bound for every session of q's destination.              *)
Serve(q) ==
    LET d == DestOf[q.s]
        f == FamilyOf(d)
    IN  /\ ~Serving(f) /\ ~WriterWaits /\ sess[d] # {}
        /\ \E a \in Answers[q.ttl] :
              res' = [res EXCEPT ![f] = [n |-> q.n, target |-> a.target, ttl |-> a.ttl,
                                         late |-> Late(sess[d])]]
        /\ todo' = [todo EXCEPT ![f] = sess[d]]
        /\ UNCHANGED <<tracer, seq, sess, probes, sending, ch, pc, traceVars, ctxDone, out,
                       sent, got, expired>>

(* The requests of s that handle drops as timed out, and those it takes as *)
(* answered: for IPv6 every one that is left.                              *)
TimedOut(f, s) == {p \in probes[s] : p.n \in res[f].late}
MatchesAll(f, s) == probes[s] \ TimedOut(f, s)

Matches(f, s) == {p \in probes[s] \ TimedOut(f, s) : f = "v6" \/ ID(p.n) = ID(res[f].n)}

GoneTimedOutOnly(f, s) == TimedOut(f, s)

Gone(f, s) == TimedOut(f, s) \cup Matches(f, s)

HopsUnclamped(sentTTL, quotedTTL) == sentTTL - quotedTTL + 1

HopsOf(sentTTL, quotedTTL) == IF sentTTL - quotedTTL + 1 < 1 THEN 1 ELSE sentTTL - quotedTTL + 1

(* handle, up to the unlock of s.mu.  Requests are appended in the order   *)
(* of their numbers, so the last match of the scan has the largest one.    *)
Scan(f, s) ==
    /\ out[f] = NoReply /\ s \in todo[f]
    /\ todo' = [todo EXCEPT ![f] = @ \ {s}]
    /\ probes' = [probes EXCEPT ![s] = @ \ Gone(f, s)]
    /\ expired' = expired \cup {p.n : p \in TimedOut(f, s)}
    /\ UNCHANGED <<tracer, seq, sess, sending, ch, pc, traceVars, ctxDone, res, sent, got>>

HandleUnmatched(f, s) == Scan(f, s) /\ Matches(f, s) = {} /\ UNCHANGED out

HandleMatched(f, s) ==
    /\ Scan(f, s)
    /\ \E p \in Matches(f, s) :
          /\ \A q \in Matches(f, s) : q.n <= p.n
          /\ out' = [out EXCEPT ![f] =
                        [s |-> s,
                         reply |-> [req |-> p.n, cause |-> res[f].n, target |-> res[f].target,
                                    hops |-> HopsOf(p.ttl, res[f].ttl)]]]

(* handle, the non-blocking send after the unlock: a full channel drops    *)
(* the reply.                                                              *)
DeliverBlocking(f) ==
    /\ out[f] # NoReply
    /\ LET s == out[f].s
       IN  Len(ch[s]) < ChanCap /\ ch' = [ch EXCEPT ![s] = Append(@, out[f].reply)]
    /\ out' = [out EXCEPT ![f] = NoReply]
    /\ UNCHANGED <<tracer, seq, sess, probes, sending, pc, traceVars, ctxDone, todo, res,
                   sent, got, expired>>

Deliver(f) ==
    /\ out[f] # NoReply
    /\ LET s == out[f].s
       IN  ch' = IF Len(ch[s]) < ChanCap
                 THEN [ch EXCEPT ![s] = Append(@, out[f].reply)]
                 ELSE ch
    /\ out' = [out EXCEPT ![f] = NoReply]
    /\ UNCHANGED <<tracer, seq, sess, probes, sending, pc, traceVars, ctxDone, todo, res,
                   sent, got, expired>>

-----------------------------------------------------------------------------
(* The caller's context is cancelled or its deadline passes.               *)
CtxDone ==
    /\ ~ctxDone
    /\ ctxDone' = TRUE
    /\ UNCHANGED <<tracer, seq, sess, probes, sending, ch, pc, traceVars, serveVars,
                   sent, got, expired>>

Older(P) == {[p EXCEPT !.age = IF @ > Timeout THEN @ ELSE @ + 1] : p \in P}

(* One tick of the clock: requests age and armed deadlines come closer.    *)
Tick ==
    /\ probes' = [s \in Sessions |-> Older(probes[s])]
    /\ sending' = [s \in Sessions |-> Older(sending[s])]
    /\ timer' = [s \in Sessions |-> IF timer[s] > 0 THEN timer[s] - 1 ELSE 0]
    /\ <<probes', sending', timer'>> # <<probes, sending, timer>>
    /\ UNCHANGED <<tracer, seq, sess, ch, pc, round, ttl, max, ret, ctxDone, serveVars,
                   sent, got, expired>>

(* Every Trace call has returned; the process goes on with the results.    *)
Finished == (\A s \in Sessions : pc[s] = "returned") /\ UNCHANGED vars

Trace(s) ==
    \/ NewSession(s) \/ NewSessionFails(s) \/ AddSession(s)
    \/ SendRequest(s) \/ SendRequestFails(s) \/ AppendProbe(s)
    \/ DelayTick(s) \/ ReceiveWhilePinging(s)
    \/ CheckDone(s) \/ CheckNotDone(s)
    \/ ReceiveWhileDraining(s) \/ Deadline(s) \/ CtxReturn(s)
    \/ Close(s) \/ RemoveSession(s)

ServeGoroutine(f) ==
    \/ \E s \in Sessions : HandleUnmatched(f, s) \/ HandleMatched(f, s)
    \/ Deliver(f)

Next ==
    \/ InitTracer
    \/ \E s \in Sessions : Trace(s)
    \/ \E q \in sent : Serve(q)
    \/ \E f \in Families : ServeGoroutine(f)
    \/ CtxDone
    \/ Tick
    \/ Finished

(* Goroutines run and the clock advances.  The network and the caller's    *)
(* context promise nothing.                                                *)
Fairness ==
    /\ WF_vars(InitTracer)
    /\ \A s \in Sessions : WF_vars(Trace(s))
    /\ \A f \in Families : WF_vars(ServeGoroutine(f))
    /\ WF_vars(Tick)

Spec == Init /\ [][Next]_vars /\ Fairness

-----------------------------------------------------------------------------
(* The replies matched for s: reported or waiting in the channel, and      *)
(* about to be put there.                                                  *)
Replies(s) == got[s] \o ch[s]

MatchedFor(s) ==
    {Replies(s)[i] : i \in 1 .. Len(Replies(s))}
    \cup {out[f].reply : f \in {g \in Families : out[g] # NoReply /\ out[g].s = s}}

(* A request is answered at most once: however often the network repeats   *)
(* an answer and however the serve goroutine interleaves with the trace,   *)
(* no two replies of a session - reported, in the channel or about to be   *)
(* put there - were matched with the same request (handle removes what it  *)
(* matches under the session's lock).                                      *)
DistinctReqs(q) == \A i, j \in 1 .. Len(q) : q[i].req = q[j].req => i = j

NotAmong(n, q) == \A i \in 1 .. Len(q) : q[i].req # n

AnsweredOnce ==
    \A s \in Sessions :
        /\ DistinctReqs(Replies(s))
        /\ \A f \in Families : out[f] # NoReply /\ out[f].s = s =>
              /\ NotAmong(out[f].reply.req, Replies(s))
              /\ \A g \in Families \ {f} : out[g] # NoReply /\ out[g].s = s =>
                    out[g].reply.req # out[f].reply.req

(* IPv4 replies are attributed to the request that caused them and to the  *)
(* session that sent it, although all sessions of a destination see every  *)
(* reply, as long as the 16-bit identifiers have not wrapped around.       *)
AttributedToCause ==
    seq < IdSpace =>
        \A s \in Sessions : FamilyOf(DestOf[s]) = "v4" =>
            \A r \in MatchedFor(s) :
                /\ r.req = r.cause
                /\ \E q \in sent : q.n = r.req /\ q.s = s

Requests(s) == {q \in sent : q.s = s}

HasRoom(s) == Cardinality(Requests(s)) <= ChanCap

(* handle never drops a reply while the channel has a place for each       *)
(* request the trace has sent, for none is answered twice (64 places       *)
(* against MaxHops * Count = 15 requests in the code).                     *)
NeverOverflows ==
    \A f \in Families :
        out[f] # NoReply /\ HasRoom(out[f].s) => Len(ch[out[f].s]) < ChanCap

(* max is the distance of the nearest reply of the target among those      *)
(* reported so far, in whatever order they came.                           *)
MaxIsNearestTarget ==
    \A s \in Sessions :
        LET seen == {got[s][i].hops : i \in {j \in 1 .. Len(got[s]) : got[s][j].target}} \cup {MaxHops}
        IN  max[s] \in seen /\ \A h \in seen : max[s] <= h

(* "isDone returns true if session does not have unresponsed requests with *)
(* TTL <= ttl" (comment above isDone): when Trace stops because it is      *)
(* done, every request up to the target's distance was answered or had     *)
(* timed out, unless a reply was dropped.                                  *)
DoneMeansAnswered ==
    \A s \in Sessions : ret[s] = "done" /\ HasRoom(s) =>
        \A q \in sent : q.s = s /\ q.ttl <= max[s] =>
            q.n \in expired \/ \E r \in MatchedFor(s) : r.req = q.n

(* The tracer serves exactly the Trace calls in progress: none is          *)
(* unregistered while it still waits for replies, none stays registered    *)
(* (and is handed every later reply of its target) after it returned.      *)
SessionsInProgress ==
    \A s \in Sessions : \A d \in Dests :
        s \in sess[d] <=> d = DestOf[s] /\ pc[s] \notin {"new", "add", "returned"}

(* Every Trace call returns, whatever the network does.                    *)
TraceReturns == \A s \in Sessions : <>(pc[s] = "returned")

(* What AnsweredOnce and AttributedToCause rest on.  Every unanswered      *)
(* request of s was sent by s under a number already drawn from t.seq, and *)
(* no number is both being sent and registered.                            *)
Unanswered(s) == probes[s] \cup sending[s]

RequestInv ==
    \A s \in Sessions :
        /\ \A p \in Unanswered(s) :
              p.n <= seq /\ \E q \in sent : q.n = p.n /\ q.s = s
        /\ \A p \in probes[s], q \in sending[s] : p.n # q.n

(* What was matched for s was sent by s, and is unanswered no longer.      *)
MatchedInv ==
    \A s \in Sessions : \A r \in MatchedFor(s) :
        /\ r.req <= seq /\ \E q \in sent : q.n = r.req /\ q.s = s
        /\ \A p \in Unanswered(s) : p.n # r.req

(* Replies go to sessions of their destination's family only.              *)
ServeInv ==
    /\ \A q \in sent : q.n <= seq
    /\ \A d \in Dests : \A s \in sess[d] : DestOf[s] = d
    /\ \A f \in Families : /\ res[f].n <= seq
                           /\ \A s \in todo[f] : FamilyOf(DestOf[s]) = f

IInv == TypeOK /\ RequestInv /\ MatchedInv /\ ServeInv /\ AnsweredOnce /\ AttributedToCause
=============================================================================
