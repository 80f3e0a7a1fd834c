------------------------- MODULE AlternativeTargets -------------------------
(***************************************************************************)
(* The list of alternative addresses shared by the route reports of a      *)
(* process: refreshAlternativeTargets of bk/route_report.go, the download  *)
(* it makes (bk/utils.go) and the attempts that read the list, which       *)
(* RouteReport leaves open.  A refresh runs under a mutex, in a goroutine  *)
(* of its own that may outlive its report; the attempts read the list once *)
(* their own refresh is done, without the mutex.                           *)
(*                                                                         *)
(* Time is counted in ticks.  A list is the sequence of its entries.       *)
(***************************************************************************)
EXTENDS Integers, Sequences, FiniteSets

CONSTANTS
    Runs,      \* the route reports that may run at the same time
    Lists,     \* lists the data source may hold
    Mirrors,   \* number of mirrors (model.CdnList)
    Hour,      \* how long a list counts as fresh, in ticks
    Timeout    \* config.Timeout, in ticks

ASSUME RunsAssumption == IsFiniteSet(Runs) /\ Mirrors \in Nat
ASSUME TimeAssumption == Hour \in Nat /\ Timeout \in 1 .. Hour

(* An entry of the list: whether it is the one of the target's province,   *)
(* provider and IP version, and its addresses, "" where one is missing.    *)
Entry == [matches : BOOLEAN, ips : Seq({"ip", ""})]
ASSUME ListsAssumption == Lists \subseteq Seq(Entry) \ {<<>>}

None == <<>>

(* What an attempt read: the candidates it took, or half of each of two    *)
(* lists, whose addresses are then left open.                              *)
Whole(ips) == [torn |-> FALSE, ips |-> ips]
Torn == [torn |-> TRUE, ips |-> <<>>]

VARIABLES
    data,      \* model.CachedIcmpData, as the list it spells
    list,      \* model.ParsedIcmpTargets
    age,       \* ticks since model.CachedIcmpDataFetchTime, at most Old
    holder,    \* the runs that hold alternativeRefreshMu
    pc,        \* where each run's refresh goroutine is
    mirror,    \* the mirror it is trying, from 1
    body,      \* the list it has downloaded
    how,       \* what its refresh came to
    left,      \* ticks before the run's context ends; 0 once it has
    reader,    \* where the run's attempt is
    found      \* what the attempt read

cache == <<data, list, age>>
refresher == <<holder, pc, mirror, body, how>>
attempt == <<reader, found>>
vars == <<cache, refresher, left, attempt>>

Old == Hour + Timeout + 1

TypeOK ==
    /\ {data, list} \subseteq Lists \cup {None} /\ age \in 0 .. Old
    /\ holder \subseteq Runs
    /\ pc \in [Runs -> {"off", "lock", "check", "probe", "pause", "mirror", "direct", "parse",
                        "storing", "stored", "unlock", "done"}]
    /\ mirror \in [Runs -> 1 .. Mirrors + 1]
    /\ body \in [Runs -> Lists \cup {None}]
    /\ how \in [Runs -> {"none", "fresh", "fetched", "failed"}]
    /\ left \in [Runs -> 0 .. Timeout]
    /\ reader \in [Runs -> {"off", "tracing", "waiting", "read", "done"}]
    /\ \A r \in Runs : found[r].ips \in Seq({"ip"}) /\ Len(found[r].ips) <= 3

Init ==
    /\ data = None /\ list = None /\ age = Old
    /\ holder = {} /\ pc = [r \in Runs |-> "off"] /\ mirror = [r \in Runs |-> 1]
    /\ body = [r \in Runs |-> None] /\ how = [r \in Runs |-> "none"]
    /\ left = [r \in Runs |-> 0] /\ reader = [r \in Runs |-> "off"]
    /\ found = [r \in Runs |-> Whole(<<>>)]

Live(r) == left[r] > 0

-----------------------------------------------------------------------------
(* RunRouteReport starts the refresh and an attempt.                       *)
Start(r) ==
    /\ pc[r] \in {"off", "done"} /\ reader[r] \in {"off", "read", "done"}
    /\ pc' = [pc EXCEPT ![r] = "lock"] /\ reader' = [reader EXCEPT ![r] = "tracing"]
    /\ left' = [left EXCEPT ![r] = Timeout]
    /\ how' = [how EXCEPT ![r] = "none"] /\ found' = [found EXCEPT ![r] = Whole(<<>>)]
    /\ UNCHANGED <<cache, holder, mirror, body>>

(* The report is complete, or its caller cancels it.                       *)
Cancel(r) ==
    /\ Live(r)
    /\ left' = [left EXCEPT ![r] = 0]
    /\ UNCHANGED <<cache, refresher, attempt>>

GoTo(r, step) == pc' = [pc EXCEPT ![r] = step]

(* The mutex takes no context.                                             *)
LockAnyway(r) ==
    /\ pc[r] = "lock"
    /\ holder' = holder \cup {r} /\ GoTo(r, "check")
    /\ UNCHANGED <<cache, mirror, body, how, left, attempt>>

Lock(r) ==
    /\ pc[r] = "lock" /\ holder = {}
    /\ holder' = {r} /\ GoTo(r, "check")
    /\ UNCHANGED <<cache, mirror, body, how, left, attempt>>

FreshForEver == data # None /\ list # None

Fresh == data # None /\ list # None /\ age <= Hour

CheckFresh(r) ==
    /\ pc[r] = "check" /\ Fresh
    /\ how' = [how EXCEPT ![r] = "fresh"] /\ GoTo(r, "unlock")
    /\ UNCHANGED <<cache, holder, mirror, body, left, attempt>>

(* getDataContext, and checkCdnContext with the first mirror.              *)
CheckStale(r) ==
    /\ pc[r] = "check" /\ ~Fresh
    /\ mirror' = [mirror EXCEPT ![r] = 1] /\ body' = [body EXCEPT ![r] = None]
    /\ GoTo(r, IF Mirrors = 0 THEN "direct" ELSE "probe")
    /\ UNCHANGED <<cache, holder, how, left, attempt>>

(* A request succeeds only while its context lives.                        *)
ProbeAnswers(r) ==
    /\ pc[r] = "probe" /\ Live(r)
    /\ GoTo(r, "mirror")
    /\ UNCHANGED <<cache, holder, mirror, body, how, left, attempt>>

(* select finds the context done at once, or begins to wait 500 ms.        *)
ProbeFails(r) ==
    /\ pc[r] = "probe"
    /\ GoTo(r, IF Live(r) THEN "pause" ELSE "direct")
    /\ UNCHANGED <<cache, holder, mirror, body, how, left, attempt>>

NextMirror(r) ==
    /\ pc[r] = "pause"
    /\ mirror' = [mirror EXCEPT ![r] = @ + 1]
    /\ GoTo(r, IF mirror[r] < Mirrors THEN "probe" ELSE "direct")
    /\ UNCHANGED <<cache, holder, body, how, left, attempt>>

StopProbing(r) ==
    /\ pc[r] = "pause" /\ ~Live(r)
    /\ GoTo(r, "direct")
    /\ UNCHANGED <<cache, holder, mirror, body, how, left, attempt>>

(* A body arrives: a list, or one that does not parse or is empty (None).  *)
Download(r) ==
    /\ Live(r)
    /\ \E l \in Lists \cup {None} : body' = [body EXCEPT ![r] = l]
    /\ GoTo(r, "parse")
    /\ UNCHANGED <<cache, holder, mirror, how, left, attempt>>

MirrorAnswers(r) == pc[r] = "mirror" /\ Download(r)

(* No answer, or one that contains "error".                                *)
MirrorFails(r) ==
    /\ pc[r] = "mirror"
    /\ GoTo(r, "direct")
    /\ UNCHANGED <<cache, holder, mirror, body, how, left, attempt>>

DirectAnswers(r) == pc[r] = "direct" /\ Download(r)

(* A refresh that stores nothing.                                          *)
FailRefresh(r) ==
    /\ how' = [how EXCEPT ![r] = "failed"]
    /\ GoTo(r, "unlock")

DirectFails(r) ==
    /\ pc[r] = "direct"
    /\ FailRefresh(r)
    /\ UNCHANGED <<cache, holder, mirror, body, left, attempt>>

(* parseIcmpTargets returned no entry.                                     *)
ParsesEmpty(r) ==
    /\ pc[r] = "parse" /\ body[r] = None
    /\ FailRefresh(r)
    /\ UNCHANGED <<cache, holder, mirror, body, left, attempt>>

(* The assignments: the data, the list, the time.                          *)
StoreDataUnchecked(r) ==
    /\ pc[r] = "parse"
    /\ data' = body[r] /\ GoTo(r, "storing")
    /\ UNCHANGED <<list, age, holder, mirror, body, how, left, attempt>>

StoreData(r) ==
    /\ pc[r] = "parse" /\ body[r] # None
    /\ data' = body[r] /\ GoTo(r, "storing")
    /\ UNCHANGED <<list, age, holder, mirror, body, how, left, attempt>>

StoreList(r) ==
    /\ pc[r] = "storing"
    /\ list' = body[r] /\ GoTo(r, "stored")
    /\ UNCHANGED <<data, age, holder, mirror, body, how, left, attempt>>

StoreTime(r) ==
    /\ pc[r] = "stored"
    /\ age' = 0
    /\ how' = [how EXCEPT ![r] = "fetched"] /\ GoTo(r, "unlock")
    /\ UNCHANGED <<data, list, holder, mirror, body, left, attempt>>

(* The deferred Unlock, and close(refreshDone).                            *)
Unlock(r) ==
    /\ pc[r] = "unlock"
    /\ holder' = holder \ {r} /\ GoTo(r, "done")
    /\ body' = [body EXCEPT ![r] = None] /\ mirror' = [mirror EXCEPT ![r] = 1]
    /\ UNCHANGED <<cache, how, left, attempt>>

-----------------------------------------------------------------------------
(* The trace of the primary address finds hops, or the attempt asks for    *)
(* the alternatives.                                                       *)
PrimaryEnds(r) ==
    /\ reader[r] = "tracing"
    /\ \E next \in {"waiting", "done"} : reader' = [reader EXCEPT ![r] = next]
    /\ UNCHANGED <<cache, refresher, left, found>>

(* tryAlternativeIPs: up to three addresses of the first entry that        *)
(* matches the target and has any.                                         *)
Addresses(entry) == SelectSeq(entry.ips, LAMBDA ip : ip # "")

Candidates(l) ==
    LET useful == SelectSeq(l, LAMBDA e : e.matches /\ Addresses(e) # <<>>)
    IN  IF useful = <<>> THEN <<>>
        ELSE LET ips == Addresses(Head(useful)) IN SubSeq(ips, 1, IF Len(ips) > 3 THEN 3 ELSE Len(ips))

(* The attempt reads the list without the mutex.  While another run        *)
(* assigns it, the read may see the old list, the new one, or the pointer  *)
(* of one with the length of the other.                                    *)
Seen == LET writers == {w \in Runs : pc[w] = "storing"}
        IN  {Whole(Candidates(list))} \cup {Whole(Candidates(body[w])) : w \in writers}
            \cup (IF writers = {} THEN {} ELSE {Torn})

ReadList(r) ==
    /\ reader[r] = "waiting" /\ pc[r] = "done"
    /\ \E c \in Seen : found' = [found EXCEPT ![r] = c]
    /\ reader' = [reader EXCEPT ![r] = "read"]
    /\ UNCHANGED <<cache, refresher, left>>

(* The context ends first: no alternatives.                                *)
NeverGivesUp(r) == FALSE

GiveUp(r) ==
    /\ reader[r] = "waiting" /\ ~Live(r)
    /\ reader' = [reader EXCEPT ![r] = "done"]
    /\ UNCHANGED <<cache, refresher, left, found>>

-----------------------------------------------------------------------------
(* One tick.  An attempt whose context has ended ends within the tick: its *)
(* trace returns (CtxReturn of Tracer) and the select gives up.            *)
Tick ==
    /\ \A r \in Runs : reader[r] \in {"tracing", "waiting"} => Live(r)
    /\ age' = IF age < Old THEN age + 1 ELSE Old
    /\ left' = [r \in Runs |-> IF Live(r) THEN left[r] - 1 ELSE 0]
    /\ <<age, left>>' # <<age, left>>
    /\ UNCHANGED <<data, list, refresher, attempt>>

Refresh(r) ==
    \/ CheckFresh(r) \/ CheckStale(r) \/ ProbeAnswers(r) \/ ProbeFails(r) \/ NextMirror(r)
    \/ StopProbing(r) \/ MirrorAnswers(r) \/ MirrorFails(r) \/ DirectAnswers(r) \/ DirectFails(r)
    \/ ParsesEmpty(r) \/ StoreData(r) \/ StoreList(r) \/ StoreTime(r) \/ Unlock(r)

Attempt(r) == PrimaryEnds(r) \/ ReadList(r) \/ GiveUp(r)

Next ==
    \/ \E r \in Runs : Start(r) \/ Cancel(r) \/ Lock(r) \/ Refresh(r) \/ Attempt(r)
    \/ Tick

(* The attempts run, and the clock advances: Tick waits for attempts whose *)
(* context has ended, time does not.  Nothing is assumed of the refreshes, *)
(* whose requests may hang.                                                *)
Fairness == SF_vars(Tick) /\ \A r \in Runs : WF_vars(Attempt(r))

Spec == Init /\ [][Next]_vars /\ Fairness

(* The requests end as well: each has a timeout of 6 s and the context.  A *)
(* waiter of a sync.Mutex is not passed over for ever (starvation mode).   *)
RefreshFairness == \A r \in Runs : WF_vars(Refresh(r)) /\ SF_vars(Lock(r))

-----------------------------------------------------------------------------
(* An attempt whose refresh found the list fresh, or fetched it, reads a   *)
(* list at most an hour and a report old, whatever other runs store in the *)
(* meantime; and although it takes no lock it sees a half-assigned list    *)
(* only if its own refresh failed, or found the list about to expire.      *)
ReadsFresh ==
    [][\A r \in Runs : reader[r] = "waiting" /\ reader'[r] = "read" /\ how[r] # "failed" =>
          /\ age <= Hour + Timeout
          /\ found'[r].torn => how[r] = "fresh" /\ age > Hour]_vars

(* Whatever a refresh fails on, it leaves the list an earlier one fetched, *)
(* and between refreshes the data and the list are of one download         *)
(* (TestFailedAlternativeRefreshKeepsValidCache).                          *)
CacheKept ==
    [][/\ list # None => list' # None
       /\ holder' = {} => data' = list']_vars

(* However many reports start at once, a list that is still fresh is not   *)
(* fetched again: one of them downloads it for all of them.                *)
NotRefetched == [][age' < age => list = None \/ age > Hour]_vars

(* An attempt waits for alternatives no longer than its context lives,     *)
(* even while a refresh hangs; and if requests end, every refresh does,    *)
(* also one that waits for the refresh of another report.                  *)
NobodyWaitsForEver ==
    /\ \A r \in Runs : reader[r] = "waiting" ~> reader[r] # "waiting"
    /\ RefreshFairness => \A r \in Runs : pc[r] = "lock" ~> pc[r] = "done"
=============================================================================
