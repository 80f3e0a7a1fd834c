--------------------- MODULE AlternativeTargets_proofs ---------------------
(***************************************************************************)
(* Proofs about AlternativeTargets, for every value of its constants: any  *)
(* number of concurrent reports, any lists, mirrors and times.             *)
(***************************************************************************)
EXTENDS AlternativeTargets, TLAPS

(* Where a refresh holds the mutex, where it has found the list stale, and *)
(* where it has begun to assign the new one.                               *)
Assigning == {"storing", "stored"}
Fetching == {"probe", "pause", "mirror", "direct", "parse"} \cup Assigning
Holding == {"check", "unlock"} \cup Fetching

(* The types the argument needs.                                           *)
Types ==
    /\ age \in 0 .. Old
    /\ pc \in [Runs -> {"off", "lock", "done"} \cup Holding]
    /\ body \in [Runs -> Lists \cup {None}]
    /\ how \in [Runs -> {"none", "fresh", "fetched", "failed"}]
    /\ left \in [Runs -> 0 .. Timeout]
    /\ reader \in [Runs -> {"off", "tracing", "waiting", "read", "done"}]
    /\ mirror \in [Runs -> Int]
    /\ DOMAIN found = Runs

(* The mutex excludes: one refresh at a time is between Lock and Unlock.   *)
LockInv ==
    /\ \A r \in Runs : pc[r] \in Holding <=> r \in holder
    /\ holder \subseteq Runs /\ \A r, s \in holder : r = s

(* What the holder of the mutex has assigned so far; with nobody between   *)
(* the two assignments the data and the list are of one download.          *)
StoreInv ==
    /\ \A r \in Runs : pc[r] \in Assigning => body[r] # None /\ data = body[r]
    /\ \A r \in Runs : pc[r] = "stored" => list = body[r]
    /\ (\A r \in Runs : pc[r] # "storing") => data = list

(* A list that was never fetched is as stale as can be, and while a        *)
(* refresh fetches, the list remains stale.                                *)
StaleInv ==
    /\ list = None => age > Hour
    /\ \A r \in Runs : pc[r] \in Fetching => age > Hour

(* How a refresh came out is known when it is over.                        *)
HowInv == \A r \in Runs : pc[r] \in {"unlock", "done"} => how[r] # "none"

(* While an attempt may still read, its context limits how far the list    *)
(* its refresh found or fetched can have aged.                             *)
InReport(r) == reader[r] \in {"tracing", "waiting"}

AgeInv ==
    \A r \in Runs : InReport(r) =>
        /\ how[r] = "fresh" => age + left[r] <= Hour + Timeout
        /\ how[r] = "fetched" => age + left[r] <= Timeout

(* The inductive invariant of the cache.                                   *)
IInv == Types /\ LockInv /\ StoreInv /\ StaleInv /\ HowInv /\ AgeInv
-----------------------------------------------------------------------------
LEMMA InitInv == Init => IInv
<1> USE RunsAssumption, TimeAssumption
<1> SUFFICES ASSUME Init PROVE IInv
  OBVIOUS
<1>1. Types
  BY DEF Init, Types, Old
<1>2. LockInv /\ StoreInv /\ StaleInv /\ HowInv /\ AgeInv
  BY DEF Init, LockInv, StoreInv, StaleInv, HowInv, AgeInv, InReport, Old, Holding, Fetching,
         Assigning
<1> QED
  BY <1>1, <1>2 DEF IInv

(* While a run holds the mutex no other is anywhere between Lock and       *)
(* Unlock; a run that found the list stale goes on looking for a new one.  *)
Searching == Fetching \ Assigning

LEMMA HolderAlone ==
    ASSUME IInv, NEW r \in Runs, pc[r] \in Holding, NEW s \in Runs, pc[s] \in Holding
    PROVE  s = r
BY DEF IInv, LockInv

LEMMA SearchKeeps ==
    ASSUME IInv, NEW r \in Runs, pc[r] \in {"check"} \cup Searching, age > Hour,
           NEW step \in Searching, GoTo(r, step),
           mirror' \in [Runs -> Int], body' \in [Runs -> Lists \cup {None}],
           UNCHANGED <<cache, holder, how, left, attempt>>
    PROVE  IInv'
<1> USE DEF Holding, Fetching, Assigning, Searching
<1>1. UNCHANGED <<data, list, age, holder, how, left, reader, found>>
  BY DEF cache, attempt
<1>2. pc' \in [Runs -> {"off", "lock", "done"} \cup Holding] /\ pc'[r] = step
      /\ \A s \in Runs : s # r => pc'[s] = pc[s]
  BY DEF IInv, Types, GoTo
<1>3. Types'
  BY <1>1, <1>2 DEF IInv, Types
<1>4. LockInv'
  BY <1>1, <1>2 DEF IInv, LockInv
<1>5. \A s \in Runs : pc[s] \notin Assigning /\ pc'[s] \notin Assigning
  BY <1>2, HolderAlone
<1>6. StoreInv'
  BY <1>1, <1>5 DEF IInv, StoreInv
<1>7. StaleInv'
  BY <1>1, <1>2 DEF IInv, StaleInv
<1>8. HowInv' /\ AgeInv'
  BY <1>1, <1>2 DEF IInv, HowInv, AgeInv, InReport
<1> QED
  BY <1>3, <1>4, <1>6, <1>7, <1>8 DEF IInv

(* A refresh that searches has found the list stale.                       *)
LEMMA SearchesStale ==
    ASSUME IInv, NEW r \in Runs, pc[r] \in Fetching
    PROVE  age > Hour
BY DEF IInv, StaleInv

LEMMA CheckStaleKeeps ==
    ASSUME IInv, NEW r \in Runs, CheckStale(r)
    PROVE  IInv'
<1>1. pc[r] = "check" /\ \A s \in Runs : pc[s] # "storing"
  BY HolderAlone DEF CheckStale, Holding, Fetching, Assigning
<1>2. data = list
  BY <1>1 DEF IInv, StoreInv
<1>3. age > Hour
  BY <1>2, TimeAssumption DEF CheckStale, Fresh, IInv, StaleInv, Types, Old
<1>4. mirror' \in [Runs -> Int] /\ body' \in [Runs -> Lists \cup {None}]
  BY DEF CheckStale, IInv, Types
<1>5. PICK step \in Searching : GoTo(r, step)
  BY DEF CheckStale, Searching, Fetching, Assigning
<1> QED
  BY <1>1, <1>3, <1>4, <1>5, SearchKeeps DEF CheckStale

LEMMA ProbeKeeps ==
    ASSUME IInv, NEW r \in Runs,
           ProbeAnswers(r) \/ ProbeFails(r) \/ NextMirror(r) \/ StopProbing(r) \/ MirrorFails(r)
    PROVE  IInv'
<1> USE DEF ProbeAnswers, ProbeFails, NextMirror, StopProbing, MirrorFails
<1>1. pc[r] \in Searching
  BY DEF Searching, Fetching, Assigning
<1>2. age > Hour
  BY <1>1, SearchesStale DEF Searching
<1>3. mirror' \in [Runs -> Int] /\ body' \in [Runs -> Lists \cup {None}]
  BY DEF IInv, Types
<1>4. PICK step \in Searching : GoTo(r, step)
  BY DEF Searching, Fetching, Assigning
<1> QED
  BY <1>1, <1>2, <1>3, <1>4, SearchKeeps

LEMMA DownloadKeeps ==
    ASSUME IInv, NEW r \in Runs, MirrorAnswers(r) \/ DirectAnswers(r)
    PROVE  IInv'
<1>1. pc[r] \in Searching /\ Download(r)
  BY DEF MirrorAnswers, DirectAnswers, Searching, Fetching, Assigning
<1>2. age > Hour
  BY <1>1, SearchesStale DEF Searching
<1>3. PICK l \in Lists \cup {None} : body' = [body EXCEPT ![r] = l]
  BY <1>1 DEF Download
<1>4. mirror' \in [Runs -> Int] /\ body' \in [Runs -> Lists \cup {None}]
  BY <1>1, <1>3 DEF Download, IInv, Types
<1>5. "parse" \in Searching
  BY DEF Searching, Fetching, Assigning
<1> QED
  BY <1>1, <1>2, <1>4, <1>5, SearchKeeps DEF Download

(* A refresh that ends without storing: the list was fresh, or the search  *)
(* for a new one failed.                                                   *)
LEMMA EndKeeps ==
    ASSUME IInv, NEW r \in Runs, pc[r] \in {"check"} \cup Searching, GoTo(r, "unlock"),
           NEW result \in {"fresh", "failed"}, how' = [how EXCEPT ![r] = result],
           result = "fresh" => age <= Hour,
           UNCHANGED <<cache, holder, mirror, body, left, attempt>>
    PROVE  IInv'
<1> USE DEF Holding, Fetching, Assigning, Searching
<1>1. UNCHANGED <<data, list, age, holder, mirror, body, left, reader, found>>
  BY DEF cache, attempt
<1>2. /\ pc' \in [Runs -> {"off", "lock", "done"} \cup Holding] /\ pc'[r] = "unlock"
      /\ \A s \in Runs : s # r => pc'[s] = pc[s]
      /\ how' \in [Runs -> {"none", "fresh", "fetched", "failed"}] /\ how'[r] = result
      /\ \A s \in Runs : s # r => how'[s] = how[s]
  BY DEF IInv, Types, GoTo
<1>3. Types'
  BY <1>1, <1>2 DEF IInv, Types
<1>4. LockInv'
  BY <1>1, <1>2 DEF IInv, LockInv
<1>5. \A s \in Runs : pc[s] \notin Assigning /\ pc'[s] \notin Assigning
  BY <1>2, HolderAlone
<1>6. StoreInv'
  BY <1>1, <1>5 DEF IInv, StoreInv
<1>7. StaleInv'
  BY <1>1, <1>2 DEF IInv, StaleInv
<1>8. HowInv'
  BY <1>1, <1>2 DEF IInv, HowInv
<1>9. left[r] \in 0 .. Timeout /\ age \in 0 .. Old /\ Hour \in Nat /\ Timeout \in Nat
  BY TimeAssumption DEF IInv, Types, Old
<1>10. AgeInv'
  BY <1>1, <1>2, <1>9 DEF IInv, AgeInv, InReport
<1> QED
  BY <1>3, <1>4, <1>6, <1>7, <1>8, <1>10 DEF IInv

LEMMA NotStoredKeeps ==
    ASSUME IInv, NEW r \in Runs, CheckFresh(r) \/ DirectFails(r) \/ ParsesEmpty(r)
    PROVE  IInv'
<1>1. CASE CheckFresh(r)
  BY <1>1, EndKeeps DEF CheckFresh, Fresh
<1>2. CASE DirectFails(r) \/ ParsesEmpty(r)
  BY <1>2, EndKeeps DEF DirectFails, ParsesEmpty, FailRefresh, Searching, Fetching, Assigning
<1> QED
  BY <1>1, <1>2

LEMMA StoreDataKeeps ==
    ASSUME IInv, NEW r \in Runs, StoreData(r)
    PROVE  IInv'
<1> USE DEF Holding, Fetching, Assigning
<1>1. /\ pc[r] = "parse" /\ body[r] # None /\ data' = body[r]
      /\ UNCHANGED <<list, age, holder, mirror, body, how, left, reader, found>>
  BY DEF StoreData, attempt
<1>2. pc' \in [Runs -> {"off", "lock", "done"} \cup Holding] /\ pc'[r] = "storing"
      /\ \A s \in Runs : s # r => pc'[s] = pc[s]
  BY DEF StoreData, IInv, Types, GoTo
<1>3. Types'
  BY <1>1, <1>2 DEF IInv, Types
<1>4. LockInv'
  BY <1>1, <1>2 DEF IInv, LockInv
<1>5. \A s \in Runs : s # r => pc'[s] \notin Assigning
  BY <1>1, <1>2, HolderAlone
<1>6. StoreInv'
  BY <1>1, <1>2, <1>5 DEF StoreInv
<1>7. StaleInv'
  BY <1>1, <1>2 DEF IInv, StaleInv
<1>8. HowInv' /\ AgeInv'
  BY <1>1, <1>2 DEF IInv, HowInv, AgeInv, InReport
<1> QED
  BY <1>3, <1>4, <1>6, <1>7, <1>8 DEF IInv

LEMMA StoreListKeeps ==
    ASSUME IInv, NEW r \in Runs, StoreList(r)
    PROVE  IInv' /\ list' # None
<1> USE DEF Holding, Fetching, Assigning
<1>1. /\ pc[r] = "storing" /\ list' = body[r]
      /\ UNCHANGED <<data, age, holder, mirror, body, how, left, reader, found>>
  BY DEF StoreList, attempt
<1>2. pc' \in [Runs -> {"off", "lock", "done"} \cup Holding] /\ pc'[r] = "stored"
      /\ \A s \in Runs : s # r => pc'[s] = pc[s]
  BY DEF StoreList, IInv, Types, GoTo
<1>3. Types'
  BY <1>1, <1>2 DEF IInv, Types
<1>4. LockInv'
  BY <1>1, <1>2 DEF IInv, LockInv
<1>5. \A s \in Runs : s # r => pc'[s] \notin Assigning
  BY <1>1, <1>2, HolderAlone
<1>6. body[r] # None /\ data = body[r]
  BY <1>1 DEF IInv, StoreInv
<1>7. StoreInv' /\ list' # None
  BY <1>1, <1>2, <1>5, <1>6 DEF StoreInv
<1>8. StaleInv'
  BY <1>1, <1>2, <1>6 DEF IInv, StaleInv
<1>9. HowInv' /\ AgeInv'
  BY <1>1, <1>2 DEF IInv, HowInv, AgeInv, InReport
<1> QED
  BY <1>3, <1>4, <1>7, <1>8, <1>9 DEF IInv

(* The time of the download makes the list fresh, for this report and, if  *)
(* they found it fresh or fetched it earlier, even more so for the others. *)
LEMMA StoreTimeKeeps ==
    ASSUME IInv, NEW r \in Runs, StoreTime(r)
    PROVE  IInv' /\ age > Hour
<1> USE DEF Holding, Fetching, Assigning
<1>1. /\ pc[r] = "stored" /\ age' = 0
      /\ UNCHANGED <<data, list, holder, mirror, body, left, reader, found>>
  BY DEF StoreTime, attempt
<1>2. /\ pc' \in [Runs -> {"off", "lock", "done"} \cup Holding] /\ pc'[r] = "unlock"
      /\ \A s \in Runs : s # r => pc'[s] = pc[s]
      /\ how' \in [Runs -> {"none", "fresh", "fetched", "failed"}] /\ how'[r] = "fetched"
      /\ \A s \in Runs : s # r => how'[s] = how[s]
  BY DEF StoreTime, IInv, Types, GoTo
<1>3. age > Hour
  BY <1>1, SearchesStale
<1>4. Types'
  BY <1>1, <1>2, TimeAssumption DEF IInv, Types, Old
<1>5. LockInv'
  BY <1>1, <1>2 DEF IInv, LockInv
<1>6. \A s \in Runs : pc'[s] \notin Fetching
  BY <1>1, <1>2, HolderAlone
<1>7. data = body[r] /\ list = body[r] /\ body[r] # None
  BY <1>1 DEF IInv, StoreInv
<1>8. StoreInv' /\ StaleInv'
  BY <1>1, <1>6, <1>7 DEF StoreInv, StaleInv
<1>9. HowInv'
  BY <1>1, <1>2 DEF IInv, HowInv
<1>10. /\ \A s \in Runs : left[s] \in 0 .. Timeout
       /\ age \in 0 .. Old /\ Hour \in Nat /\ Timeout \in Nat
  BY TimeAssumption DEF IInv, Types, Old
<1>11. AgeInv'
  BY <1>1, <1>2, <1>10 DEF IInv, AgeInv, InReport
<1> QED
  BY <1>3, <1>4, <1>5, <1>8, <1>9, <1>11 DEF IInv

LEMMA UnlockKeeps ==
    ASSUME IInv, NEW r \in Runs, Unlock(r)
    PROVE  IInv'
<1> USE DEF Holding, Fetching, Assigning
<1>1. /\ pc[r] = "unlock" /\ holder' = holder \ {r}
      /\ UNCHANGED <<data, list, age, how, left, reader, found>>
  BY DEF Unlock, cache, attempt
<1>2. pc' \in [Runs -> {"off", "lock", "done"} \cup Holding] /\ pc'[r] = "done"
      /\ \A s \in Runs : s # r => pc'[s] = pc[s]
  BY DEF Unlock, IInv, Types, GoTo
<1>3. mirror' \in [Runs -> Int] /\ body' \in [Runs -> Lists \cup {None}]
  BY DEF Unlock, IInv, Types
<1>4. Types'
  BY <1>1, <1>2, <1>3 DEF IInv, Types
<1>5. LockInv'
  BY <1>1, <1>2 DEF IInv, LockInv
<1>6. \A s \in Runs : pc[s] \notin Assigning /\ pc'[s] \notin Assigning
  BY <1>1, <1>2, HolderAlone
<1>7. StoreInv'
  BY <1>1, <1>6 DEF IInv, StoreInv
<1>8. StaleInv'
  BY <1>1, <1>2 DEF IInv, StaleInv
<1>9. HowInv' /\ AgeInv'
  BY <1>1, <1>2 DEF IInv, HowInv, AgeInv, InReport
<1> QED
  BY <1>4, <1>5, <1>7, <1>8, <1>9 DEF IInv

LEMMA LockKeeps ==
    ASSUME IInv, NEW r \in Runs, Lock(r)
    PROVE  IInv'
<1> USE DEF Holding, Fetching, Assigning
<1>1. /\ pc[r] = "lock" /\ holder = {} /\ holder' = {r}
      /\ UNCHANGED <<data, list, age, mirror, body, how, left, reader, found>>
  BY DEF Lock, cache, attempt
<1>2. pc' \in [Runs -> {"off", "lock", "done"} \cup Holding] /\ pc'[r] = "check"
      /\ \A s \in Runs : s # r => pc'[s] = pc[s]
  BY DEF Lock, IInv, Types, GoTo
<1>3. Types'
  BY <1>1, <1>2 DEF IInv, Types
<1>4. LockInv'
  BY <1>1, <1>2 DEF IInv, LockInv
<1>5. StoreInv' /\ StaleInv' /\ HowInv' /\ AgeInv'
  BY <1>1, <1>2 DEF IInv, StoreInv, StaleInv, HowInv, AgeInv, InReport
<1> QED
  BY <1>3, <1>4, <1>5 DEF IInv

LEMMA StartKeeps ==
    ASSUME IInv, NEW r \in Runs, Start(r)
    PROVE  IInv'
<1> USE DEF Holding, Fetching, Assigning
<1>1. /\ pc[r] \in {"off", "done"}
      /\ UNCHANGED <<data, list, age, holder, mirror, body>>
  BY DEF Start, cache
<1>2. /\ pc' \in [Runs -> {"off", "lock", "done"} \cup Holding] /\ pc'[r] = "lock"
      /\ how' \in [Runs -> {"none", "fresh", "fetched", "failed"}] /\ how'[r] = "none"
      /\ left' \in [Runs -> 0 .. Timeout]
      /\ reader' \in [Runs -> {"off", "tracing", "waiting", "read", "done"}]
      /\ DOMAIN found' = Runs
  BY TimeAssumption DEF Start, IInv, Types
<1>3. \A s \in Runs : s # r => /\ pc'[s] = pc[s] /\ how'[s] = how[s] /\ left'[s] = left[s]
                               /\ reader'[s] = reader[s]
  BY DEF Start, IInv, Types
<1>4. Types'
  BY <1>1, <1>2 DEF IInv, Types
<1>5. LockInv'
  BY <1>1, <1>2, <1>3 DEF IInv, LockInv
<1>6. StoreInv' /\ StaleInv' /\ HowInv' /\ AgeInv'
  BY <1>1, <1>2, <1>3 DEF IInv, StoreInv, StaleInv, HowInv, AgeInv, InReport
<1> QED
  BY <1>4, <1>5, <1>6 DEF IInv

LEMMA CancelKeeps ==
    ASSUME IInv, NEW r \in Runs, Cancel(r)
    PROVE  IInv'
<1>1. UNCHANGED <<data, list, age, holder, pc, mirror, body, how, reader, found>>
  BY DEF Cancel, cache, refresher, attempt
<1>2. left' \in [Runs -> 0 .. Timeout] /\ \A s \in Runs : left'[s] <= left[s]
  BY TimeAssumption DEF Cancel, Live, IInv, Types
<1>3. Types' /\ LockInv' /\ StoreInv' /\ StaleInv' /\ HowInv'
  BY <1>1, <1>2 DEF IInv, Types, LockInv, StoreInv, StaleInv, HowInv, Fetching, Holding, Assigning
<1>4. \A s \in Runs : left[s] \in Int /\ left'[s] \in Int
  BY <1>2 DEF IInv, Types
<1>5. age \in Int /\ Hour \in Nat /\ Timeout \in Nat
  BY TimeAssumption DEF IInv, Types, Old
<1>6. AgeInv'
  BY <1>1, <1>2, <1>4, <1>5 DEF IInv, AgeInv, InReport
<1> QED
  BY <1>3, <1>6 DEF IInv

(* The attempts leave the cache and the refreshes alone.                   *)
LEMMA AttemptKeeps ==
    ASSUME IInv, NEW r \in Runs, Attempt(r)
    PROVE  IInv'
<1>1. UNCHANGED <<data, list, age, holder, pc, mirror, body, how, left>>
  BY DEF Attempt, PrimaryEnds, ReadList, GiveUp, cache, refresher
<1>2. /\ reader' \in [Runs -> {"off", "tracing", "waiting", "read", "done"}]
      /\ \A s \in Runs : InReport(s)' => InReport(s)
  BY DEF Attempt, PrimaryEnds, ReadList, GiveUp, InReport, IInv, Types
<1>3. DOMAIN found' = Runs
  BY DEF Attempt, PrimaryEnds, ReadList, GiveUp, IInv, Types
<1>4. Types' /\ LockInv' /\ StoreInv' /\ StaleInv' /\ HowInv'
  BY <1>1, <1>2, <1>3
  DEF IInv, Types, LockInv, StoreInv, StaleInv, HowInv, Fetching, Holding, Assigning
<1>5. AgeInv'
  BY <1>1, <1>2 DEF IInv, AgeInv
<1> QED
  BY <1>4, <1>5 DEF IInv

(* A tick takes from an attempt that may still read what it adds to the    *)
(* age of the list.                                                        *)
LEMMA TickKeeps ==
    ASSUME IInv, Tick
    PROVE  IInv' /\ age <= age'
<1>1. UNCHANGED <<data, list, holder, pc, mirror, body, how, reader, found>>
  BY DEF Tick, refresher, attempt
<1>2. age \in 0 .. Old /\ Old \in Nat /\ Hour \in Nat /\ Timeout \in Nat /\ Hour < Old
  BY TimeAssumption DEF IInv, Types, Old
<1>3. age' \in 0 .. Old /\ age <= age' /\ age' <= age + 1
  BY <1>2 DEF Tick
<1>4. \A r \in Runs : left[r] \in 0 .. Timeout
  BY DEF IInv, Types
<1>5. left' \in [Runs -> 0 .. Timeout]
  BY <1>2, <1>4 DEF Tick, Live
<1>6. Types'
  BY <1>1, <1>3, <1>5 DEF IInv, Types, Old, Holding, Fetching, Assigning
<1>7. LockInv' /\ StoreInv' /\ HowInv'
  BY <1>1 DEF IInv, LockInv, StoreInv, HowInv, Holding, Fetching, Assigning
<1>8. StaleInv'
  BY <1>1, <1>2, <1>3 DEF IInv, StaleInv, Fetching, Assigning
<1>9. \A r \in Runs : InReport(r) => left'[r] = left[r] - 1
  BY DEF Tick, InReport
<1>10. \A r \in Runs : InReport(r) => age' + left'[r] <= age + left[r]
  BY <1>2, <1>3, <1>4, <1>9
<1>11. \A r \in Runs : left'[r] \in 0 .. Timeout
  BY <1>5
<1>12. AgeInv'
  BY <1>1, <1>2, <1>3, <1>4, <1>10, <1>11 DEF IInv, AgeInv, InReport
<1> QED
  BY <1>3, <1>6, <1>7, <1>8, <1>12 DEF IInv

LEMMA NextKeeps ==
    ASSUME IInv, [Next]_vars
    PROVE  IInv'
<1>1. ASSUME NEW r \in Runs, Start(r) \/ Cancel(r) \/ Lock(r) \/ Attempt(r)
      PROVE  IInv'
  BY <1>1, StartKeeps, CancelKeeps, LockKeeps, AttemptKeeps
<1>2. ASSUME NEW r \in Runs, Refresh(r)
      PROVE  IInv'
  BY <1>2, NotStoredKeeps, CheckStaleKeeps, ProbeKeeps, DownloadKeeps, StoreDataKeeps,
     StoreListKeeps, StoreTimeKeeps, UnlockKeeps DEF Refresh
<1>3. CASE Tick
  BY <1>3, TickKeeps
<1>4. CASE UNCHANGED vars
  BY <1>4 DEF vars, cache, refresher, attempt, IInv, Types, LockInv, StoreInv, StaleInv, HowInv,
              AgeInv, InReport, Holding, Fetching, Assigning
<1> QED
  BY <1>1, <1>2, <1>3, <1>4 DEF Next

LEMMA Inductive == Spec => []IInv
<1>1. IInv /\ [Next]_vars => IInv'
  BY NextKeeps
<1> QED
  BY InitInv, <1>1, PTL DEF Spec

-----------------------------------------------------------------------------
(* Only the last two assignments of a refresh change the list or its time; *)
(* by the time of the last one the old list has expired.                   *)
LEMMA OnlyStoresChange ==
    ASSUME IInv, [Next]_vars
    PROVE  /\ list' # list => list' # None
           /\ age' < age => age > Hour
<1>1. age \in Int
  BY TimeAssumption DEF IInv, Types, Old
<1>2. ASSUME NEW r \in Runs, StoreList(r)
      PROVE  age' = age /\ list' # None
  BY <1>2, StoreListKeeps DEF StoreList
<1>3. ASSUME NEW r \in Runs, StoreTime(r)
      PROVE  list' = list /\ age > Hour
  BY <1>3, StoreTimeKeeps DEF StoreTime
<1>4. ASSUME NEW r \in Runs, Refresh(r), ~StoreList(r), ~StoreTime(r)
      PROVE  UNCHANGED <<list, age>>
  BY <1>4 DEF Refresh, CheckFresh, CheckStale, ProbeAnswers, ProbeFails, NextMirror, StopProbing,
              MirrorAnswers, MirrorFails, DirectAnswers, Download, DirectFails, ParsesEmpty,
              StoreData, Unlock, cache
<1>5. ASSUME NEW r \in Runs, Start(r) \/ Cancel(r) \/ Lock(r) \/ Attempt(r)
      PROVE  UNCHANGED <<list, age>>
  BY <1>5 DEF Start, Cancel, Lock, Attempt, PrimaryEnds, ReadList, GiveUp, cache
<1>6. CASE Tick
  <2>1. age <= age' /\ age' \in Int
    BY <1>6, TickKeeps, TimeAssumption DEF IInv, Types, Old
  <2> QED
    BY <1>1, <1>6, <2>1 DEF Tick
<1>7. CASE UNCHANGED vars
  BY <1>1, <1>7 DEF vars, cache
<1> QED
  BY <1>1, <1>2, <1>3, <1>4, <1>5, <1>6, <1>7 DEF Next

(* A refresh that fails, wherever it fails, leaves the list of an earlier  *)
(* one in place; whenever the mutex is free, data and list are of one      *)
(* download.                                                               *)
THEOREM CacheKeptHolds == Spec => CacheKept
<1>1. ASSUME IInv, [Next]_vars
      PROVE  /\ list # None => list' # None
             /\ holder' = {} => data' = list'
  <2>1. list # None => list' # None
    BY <1>1, OnlyStoresChange
  <2>2. IInv'
    BY <1>1, NextKeeps
  <2>3. holder' = {} => \A r \in Runs : pc'[r] # "storing"
    BY <2>2 DEF IInv, LockInv, Holding, Fetching, Assigning
  <2>4. holder' = {} => data' = list'
    BY <2>2, <2>3 DEF IInv, StoreInv
  <2> QED
    BY <2>1, <2>4
<1>2. IInv /\ [Next]_vars =>
        [/\ list # None => list' # None
         /\ holder' = {} => data' = list']_vars
  BY <1>1
<1> QED
  BY Inductive, <1>2, PTL DEF Spec, CacheKept

(* Of the reports that start together one fetches the list for all: the    *)
(* time of the download is only renewed when the old one has expired.      *)
THEOREM NotRefetchedHolds == Spec => NotRefetched
<1>1. IInv /\ [Next]_vars => [age' < age => list = None \/ age > Hour]_vars
  BY OnlyStoresChange
<1> QED
  BY Inductive, <1>1, PTL DEF Spec, NotRefetched

(* An attempt reads without the mutex, whatever other reports do.          *)
LEMMA ReadStep ==
    ASSUME IInv, NEW r \in Runs, ReadList(r), how[r] # "failed"
    PROVE  /\ age <= Hour + Timeout
           /\ found'[r].torn => how[r] = "fresh" /\ age > Hour
<1>1. how[r] \in {"fresh", "fetched"}
  BY DEF ReadList, IInv, HowInv, Types
<1>2. /\ how[r] = "fresh" => age + left[r] <= Hour + Timeout
      /\ how[r] = "fetched" => age + left[r] <= Timeout
  BY DEF ReadList, IInv, AgeInv, InReport
<1>3. left[r] \in 0 .. Timeout /\ age \in 0 .. Old /\ Hour \in Nat /\ Timeout \in 1 .. Hour
      /\ Old \in Nat
  BY TimeAssumption DEF IInv, Types, Old
<1>4. age <= Hour + Timeout
  BY <1>1, <1>2, <1>3
<1>5. PICK c \in Seen : found' = [found EXCEPT ![r] = c]
  BY DEF ReadList
<1>6. found'[r] = c
  BY <1>5 DEF IInv, Types
<1>7. c.torn => \E w \in Runs : pc[w] = "storing"
  BY <1>5 DEF Seen, Whole
<1>8. c.torn => age > Hour
  BY <1>7, SearchesStale DEF Fetching, Assigning
<1>9. how[r] = "fetched" => ~(age > Hour)
  BY <1>2, <1>3
<1>10. c.torn => how[r] = "fresh" /\ age > Hour
  BY <1>1, <1>8, <1>9
<1> QED
  BY <1>4, <1>6, <1>10

(* An attempt whose refresh succeeded reads a list at most an hour and a   *)
(* report old; and though it takes no lock, it reads one half assigned     *)
(* only if it had found the list fresh and it has expired since.           *)
THEOREM ReadsFreshHolds == Spec => ReadsFresh
<1>1. ASSUME IInv, [Next]_vars, NEW r \in Runs, reader[r] = "waiting", reader'[r] = "read"
      PROVE  ReadList(r)
  <2>1. reader' # reader
    BY <1>1
  <2>2. \A s \in Runs : Refresh(s) \/ Cancel(s) \/ Lock(s) => reader' = reader
    BY DEF Refresh, CheckFresh, CheckStale, ProbeAnswers, ProbeFails, NextMirror, StopProbing,
           MirrorAnswers, MirrorFails, DirectAnswers, Download, DirectFails, ParsesEmpty,
           StoreData, StoreList, StoreTime, Unlock, Cancel, Lock, attempt
  <2>3. Tick \/ UNCHANGED vars => reader' = reader
    BY DEF Tick, vars, attempt
  <2>4. PICK s \in Runs : Start(s) \/ Attempt(s)
    BY <1>1, <2>1, <2>2, <2>3 DEF Next
  <2>5. ~Start(s) /\ ~PrimaryEnds(s) /\ ~GiveUp(s)
    BY <1>1 DEF Start, PrimaryEnds, GiveUp, IInv, Types
  <2>6. ReadList(s)
    BY <2>4, <2>5 DEF Attempt
  <2>7. s = r
    BY <1>1, <2>6 DEF ReadList, IInv, Types
  <2> QED
    BY <2>6, <2>7
<1>2. IInv /\ [Next]_vars =>
        [\A r \in Runs : reader[r] = "waiting" /\ reader'[r] = "read" /\ how[r] # "failed" =>
            /\ age <= Hour + Timeout
            /\ found'[r].torn => how[r] = "fresh" /\ age > Hour]_vars
  BY <1>1, ReadStep
<1> QED
  BY Inductive, <1>2, PTL DEF Spec, ReadsFresh
=============================================================================
