-------------------------- MODULE Updaters_proofs --------------------------
(***************************************************************************)
(* Proofs about Updaters, for every value of its constants: any number of  *)
(* ASNs, any prefix and name lists of any size, any minimum and number of  *)
(* sources.                                                                *)
(***************************************************************************)
EXTENDS Updaters, TLAPS

(* The prefix files of a are those of a successful run, with the prefixes  *)
(* f it fetched: the new snapshot, or the old one where too many prefixes  *)
(* would be dropped; and a manifest that describes it.                     *)
FreshEnough(t, f, a) == t[a] = f[a] \/ Size[f[a]] * 100 < Size[t[a]] * 65

FilesDone(t, m, f, a) == t[a] \in Snapshots /\ m[a].of = t[a] /\ FreshEnough(t, f, a)

Writing == {"compare", "sync", "rename", "describe"}

(* Every ASN is fetched before a file is written.                          *)
FetchesInv ==
    /\ pc = "fetch" => \A i \in 1 .. next - 1 : fetched[KnownASNs[i]] \in Snapshots
    /\ pc \in Writing \cup {"ok"} => \A a \in Asns : fetched[a] \in Snapshots

(* The ASNs before the current one are done.                               *)
DoneInv ==
    /\ pc \in Writing =>
          \A i \in 1 .. next - 1 : FilesDone(txt, manifest, fetched, KnownASNs[i])
    /\ pc = "ok" => \A a \in Asns : FilesDone(txt, manifest, fetched, a)

(* The file being written, and what is already known of the current ASN.   *)
TempInv ==
    /\ pc = "describe" => FreshEnough(txt, fetched, KnownASNs[next])
    /\ pc = "rename" => temp.synced
    /\ pc \in {"sync", "rename"} /\ temp.file = "txt" =>
          /\ temp.of = fetched[KnownASNs[next]]
          /\ ~Prefixes!CountDrop(txt[KnownASNs[next]], temp.of)
    /\ pc \in {"sync", "rename"} /\ temp.file = "manifest" =>
          /\ temp.of = txt[KnownASNs[next]] /\ temp.of \in Snapshots
          /\ manifest[KnownASNs[next]].of # temp.of
          /\ FreshEnough(txt, fetched, KnownASNs[next])

(* No renamed file can still lose its data.                                *)
DurableInv ==
    /\ unsafe = {} /\ temp.of # Torn
    /\ \A a \in Asns : txt[a] # Torn /\ manifest[a].of # Torn

(* The inductive invariant of the prefix updater.                          *)
PrefixInv == Prefixes!TypeOK /\ FetchesInv /\ DoneInv /\ TempInv /\ DurableInv

-----------------------------------------------------------------------------
(* The order of the ASNs: each has one place in it.                        *)
LEMMA Order ==
    /\ Prefixes!Asns = Asns
    /\ Len(KnownASNs) \in Nat \ {0}
    /\ \A i \in 1 .. Len(KnownASNs) : KnownASNs[i] \in Asns
    /\ \A a \in Asns : \E i \in 1 .. Len(KnownASNs) : a = KnownASNs[i]
    /\ \A i, j \in 1 .. Len(KnownASNs) : KnownASNs[i] = KnownASNs[j] => i = j
BY OrderAssumption DEF Asns, Prefixes!Asns

(* The type invariant, with the sets it is stated over written out.        *)
LEMMA PrefixTypes ==
    Prefixes!TypeOK <=>
        /\ txt \in [Asns -> Snapshots \cup {Absent, Torn}]
        /\ manifest \in [Asns -> [of : Snapshots \cup {Absent, Torn}, run : BOOLEAN]]
        /\ unsafe \subseteq {"txt", "manifest"} \X Asns
        /\ temp \in [file : {"none", "txt", "manifest"}, of : Snapshots \cup {Absent, Torn},
                     synced : BOOLEAN]
        /\ fetched \in [Asns -> Snapshots \cup {Absent}]
        /\ next \in 1 .. Len(KnownASNs)
        /\ pc \in {"off", "ok", "error", "fetch", "compare", "sync", "rename", "describe"}
        /\ run \in BOOLEAN
BY Order DEF Prefixes!TypeOK, Prefixes!Content, Prefixes!Resting

(* The checkout a job begins with.                                         *)
LEMMA PrefixInit == Prefixes!Init => PrefixInv
<1> SUFFICES ASSUME Prefixes!Init PROVE PrefixInv
  OBVIOUS
<1>1. /\ txt \in [Asns -> Snapshots \cup {Absent}]
      /\ manifest = [a \in Asns |-> [of |-> txt[a], run |-> FALSE]]
      /\ unsafe = {} /\ temp = [file |-> "none", of |-> Absent, synced |-> FALSE]
      /\ fetched = [a \in Asns |-> Absent] /\ next = 1 /\ pc = "off" /\ run = FALSE
  BY Order DEF Prefixes!Init, Prefixes!NoTemp
<1>2. \A a \in Asns : txt[a] # Torn /\ manifest[a].of = txt[a] /\ manifest[a].run = FALSE
  BY <1>1, FileAssumption
<1>3. Prefixes!TypeOK
  <2>1. manifest \in [Asns -> [of : Snapshots \cup {Absent, Torn}, run : BOOLEAN]]
    BY <1>1
  <2>2. /\ txt \in [Asns -> Snapshots \cup {Absent, Torn}]
        /\ unsafe \subseteq {"txt", "manifest"} \X Asns
        /\ fetched \in [Asns -> Snapshots \cup {Absent}]
    BY <1>1
  <2>3. temp \in [file : {"none", "txt", "manifest"}, of : Snapshots \cup {Absent, Torn},
                 synced : BOOLEAN]
    BY <1>1
  <2>4. next \in 1 .. Len(KnownASNs) /\ pc = "off"
    BY <1>1, Order
  <2>5. run \in BOOLEAN
    BY <1>1
  <2> QED
    BY <2>1, <2>2, <2>3, <2>4, <2>5, PrefixTypes
<1>4. FetchesInv /\ DoneInv /\ TempInv
  BY <1>1 DEF FetchesInv, DoneInv, TempInv, Writing
<1>5. DurableInv
  BY <1>1, <1>2, FileAssumption DEF DurableInv
<1> QED
  BY <1>3, <1>4, <1>5 DEF PrefixInv

(* On to the next ASN once the files of this one are done.                 *)
LEMMA NextAsnDone ==
    ASSUME PrefixInv, pc \in Writing, Prefixes!NextAsn("compare", "ok"),
           fetched' = fetched,
           \A i \in 1 .. next : FilesDone(txt', manifest', fetched, KnownASNs[i])
    PROVE  /\ pc' \in {"compare", "ok"} /\ next' \in 1 .. Len(KnownASNs)
           /\ FetchesInv' /\ DoneInv' /\ TempInv'
<1>1. next \in 1 .. Len(KnownASNs) /\ Len(KnownASNs) \in Nat \ {0}
  BY Order, PrefixTypes DEF PrefixInv
<1>2. FetchesInv'
  BY <1>1 DEF PrefixInv, FetchesInv, Prefixes!NextAsn, Writing
<1>3. CASE next < Len(KnownASNs)
  <2>1. next' = next + 1 /\ pc' = "compare"
    BY <1>3 DEF Prefixes!NextAsn
  <2> QED
    BY <1>1, <1>2, <1>3, <2>1 DEF DoneInv, TempInv, Writing
<1>4. CASE ~(next < Len(KnownASNs))
  <2>1. next' = 1 /\ pc' = "ok" /\ next = Len(KnownASNs)
    BY <1>1, <1>4 DEF Prefixes!NextAsn
  <2>2. \A a \in Asns : FilesDone(txt', manifest', fetched, a)
    BY <2>1, Order
  <2> QED
    BY <1>1, <1>2, <2>1, <2>2 DEF DoneInv, TempInv, Writing
<1> QED
  BY <1>3, <1>4

-----------------------------------------------------------------------------
(* The properties of one step of the prefix updater.                       *)
PrefixShrink ==
    \A a \in Asns : txt[a] \in Snapshots /\ txt'[a] # txt[a] =>
        Size[txt'[a]] * 100 >= Size[txt[a]] * 65

PrefixDates == \A a \in Asns : manifest'[a] # manifest[a] => manifest'[a].of # manifest[a].of

LEMMA PrefixStart ==
    ASSUME PrefixInv, Prefixes!StartRun
    PROVE  PrefixInv' /\ PrefixShrink /\ PrefixDates
<1>1. /\ pc' = "fetch" /\ next' = 1 /\ run' = ~run
      /\ fetched' = [a \in Asns |-> Absent]
      /\ UNCHANGED <<txt, manifest, unsafe, temp>>
  BY Order DEF Prefixes!StartRun
<1>2. run' \in BOOLEAN
  BY <1>1
<1>3. Prefixes!TypeOK'
  BY <1>1, <1>2, Order, PrefixTypes DEF PrefixInv, Prefixes!TypeOK, Prefixes!Content
<1>4. FetchesInv' /\ DoneInv' /\ TempInv'
  BY <1>1 DEF FetchesInv, DoneInv, TempInv, Writing
<1>5. DurableInv' /\ PrefixShrink /\ PrefixDates
  BY <1>1 DEF PrefixInv, DurableInv, PrefixShrink, PrefixDates
<1> QED
  BY <1>3, <1>4, <1>5 DEF PrefixInv

LEMMA PrefixFetch ==
    ASSUME PrefixInv, Prefixes!Fetch
    PROVE  PrefixInv' /\ PrefixShrink /\ PrefixDates
<1>1. /\ pc = "fetch" /\ Prefixes!NextAsn("fetch", "compare")
      /\ UNCHANGED <<txt, manifest, unsafe, temp, run>>
  BY DEF Prefixes!Fetch
<1>2. PICK s \in Snapshots : fetched' = [fetched EXCEPT ![KnownASNs[next]] = s]
  BY DEF Prefixes!Fetch, Prefixes!asn
<1>3. next \in 1 .. Len(KnownASNs) /\ Len(KnownASNs) \in Nat \ {0}
  BY Order, PrefixTypes DEF PrefixInv
<1>4. \A i \in 1 .. next : fetched'[KnownASNs[i]] \in Snapshots
  BY <1>1, <1>2, <1>3, Order, PrefixTypes DEF PrefixInv, FetchesInv
<1>5. /\ pc' \in {"fetch", "compare"} /\ next' \in 1 .. Len(KnownASNs)
      /\ pc' = "fetch" => next' = next + 1
      /\ pc' = "compare" => next' = 1 /\ next = Len(KnownASNs)
  BY <1>1, <1>3 DEF Prefixes!NextAsn
<1>6. Prefixes!TypeOK'
  <2>1. fetched' \in [Asns -> Snapshots \cup {Absent}]
    BY <1>2, PrefixTypes DEF PrefixInv
  <2> QED
    BY <1>1, <1>5, <2>1, Order DEF PrefixInv, Prefixes!TypeOK, Prefixes!Content
<1>7. FetchesInv'
  <2>1. CASE pc' = "fetch"
    BY <1>3, <1>4, <1>5, <2>1 DEF FetchesInv, Writing
  <2>2. CASE pc' = "compare"
    BY <1>4, <1>5, <2>2, Order DEF FetchesInv
  <2> QED
    BY <1>5, <2>1, <2>2
<1>8. DoneInv' /\ TempInv'
  <2>1. pc' \in Writing => next' = 1
    BY <1>5 DEF Writing
  <2>2. pc' \in Writing => \A i \in 1 .. next' - 1 : FALSE
    BY <2>1
  <2>3. DoneInv'
    BY <1>5, <2>2 DEF DoneInv
  <2>4. TempInv'
    BY <1>5 DEF TempInv
  <2> QED
    BY <2>3, <2>4
<1>9. DurableInv' /\ PrefixShrink /\ PrefixDates
  BY <1>1 DEF PrefixInv, DurableInv, PrefixShrink, PrefixDates
<1> QED
  BY <1>6, <1>7, <1>8, <1>9 DEF PrefixInv

LEMMA PrefixFails ==
    ASSUME PrefixInv, Prefixes!Fails
    PROVE  PrefixInv' /\ PrefixShrink /\ PrefixDates
<1>1. /\ pc' = "error" /\ temp' = [file |-> "none", of |-> Absent, synced |-> FALSE]
      /\ UNCHANGED <<txt, manifest, unsafe, fetched, next, run>>
  BY DEF Prefixes!Fails, Prefixes!NoTemp
<1>2. Prefixes!TypeOK'
  <2>1. temp' \in [file : {"none", "txt", "manifest"}, of : Prefixes!Content, synced : BOOLEAN]
    BY <1>1 DEF Prefixes!Content
  <2> QED
    BY <1>1, <2>1 DEF PrefixInv, Prefixes!TypeOK, Prefixes!Resting, Prefixes!Content
<1>3. FetchesInv' /\ DoneInv' /\ TempInv'
  BY <1>1 DEF FetchesInv, DoneInv, TempInv, Writing
<1>4. DurableInv' /\ PrefixShrink /\ PrefixDates
  BY <1>1, FileAssumption DEF PrefixInv, DurableInv, PrefixShrink, PrefixDates
<1> QED
  BY <1>2, <1>3, <1>4 DEF PrefixInv

(* Nothing renamed is still volatile: a crash loses no file.               *)
LEMMA PrefixCrash ==
    ASSUME PrefixInv, Prefixes!Crash
    PROVE  PrefixInv' /\ PrefixShrink /\ PrefixDates
<1>1. /\ pc' = "off" /\ temp' = [file |-> "none", of |-> Absent, synced |-> FALSE]
      /\ unsafe' = {} /\ UNCHANGED <<fetched, next, run>>
  BY DEF Prefixes!Crash, Prefixes!NoTemp
<1>2. /\ txt' = [a \in Asns |-> txt[a]]
      /\ manifest' = [a \in Asns |-> manifest[a]]
  <2>1. PICK lost \in SUBSET unsafe :
          /\ txt' = [a \in Asns |-> IF <<"txt", a>> \in lost THEN Torn ELSE txt[a]]
          /\ manifest' = [a \in Asns |-> IF <<"manifest", a>> \in lost
                                         THEN [manifest[a] EXCEPT !.of = Torn] ELSE manifest[a]]
    BY Order DEF Prefixes!Crash
  <2>2. lost = {}
    BY DEF PrefixInv, DurableInv
  <2> QED
    BY <2>1, <2>2
<1>3. txt' = txt /\ manifest' = manifest
  BY <1>2, PrefixTypes DEF PrefixInv
<1>4. Prefixes!TypeOK'
  <2>1. temp' \in [file : {"none", "txt", "manifest"}, of : Prefixes!Content, synced : BOOLEAN]
    BY <1>1 DEF Prefixes!Content
  <2> QED
    BY <1>1, <1>3, <2>1 DEF PrefixInv, Prefixes!TypeOK, Prefixes!Resting, Prefixes!Content
<1>5. FetchesInv' /\ DoneInv' /\ TempInv'
  BY <1>1 DEF FetchesInv, DoneInv, TempInv, Writing
<1>6. DurableInv' /\ PrefixShrink /\ PrefixDates
  BY <1>1, <1>3, FileAssumption DEF PrefixInv, DurableInv, PrefixShrink, PrefixDates
<1> QED
  BY <1>4, <1>5, <1>6 DEF PrefixInv

(* The snapshot is kept, or written to a temporary file and synced.        *)
LEMMA PrefixPrepare ==
    ASSUME PrefixInv, Prefixes!KeepSnapshot \/ Prefixes!WriteSnapshot \/ Prefixes!Sync
    PROVE  PrefixInv' /\ PrefixShrink /\ PrefixDates
<1> DEFINE a == KnownASNs[next]
<1>1. UNCHANGED <<txt, manifest, unsafe, fetched, next, run>>
  BY DEF Prefixes!KeepSnapshot, Prefixes!WriteSnapshot, Prefixes!Sync
<1>2. /\ a \in Asns /\ pc \in Writing
      /\ pc' \in {"describe", "sync", "rename"}
      /\ temp' \in [file : {"none", "txt", "manifest"}, of : Snapshots \cup {Absent, Torn},
                    synced : BOOLEAN]
      /\ temp'.of # Torn
  <2>1. a \in Asns /\ pc \in Writing
    BY Order, PrefixTypes DEF PrefixInv, Writing, Prefixes!KeepSnapshot, Prefixes!WriteSnapshot,
                              Prefixes!Sync
  <2>2. pc' \in {"describe", "sync", "rename"}
    BY DEF Prefixes!KeepSnapshot, Prefixes!WriteSnapshot, Prefixes!Sync
  <2>3. CASE Prefixes!KeepSnapshot
    BY <2>1, <2>2, <2>3, PrefixTypes DEF Prefixes!KeepSnapshot, PrefixInv, DurableInv
  <2>4. CASE Prefixes!WriteSnapshot
    <3>1. fetched[a] \in Snapshots
      BY <2>1, <2>4 DEF Prefixes!WriteSnapshot, PrefixInv, FetchesInv, Writing
    <3>2. temp' = [file |-> "txt", of |-> fetched[a], synced |-> FALSE]
      BY <2>4 DEF Prefixes!WriteSnapshot, Prefixes!asn
    <3> QED
      BY <2>1, <2>2, <3>1, <3>2, FileAssumption
  <2>5. CASE Prefixes!Sync
    BY <2>1, <2>2, <2>5, PrefixTypes DEF Prefixes!Sync, PrefixInv, DurableInv
  <2> QED
    BY <2>3, <2>4, <2>5
<1>3. Prefixes!TypeOK'
  BY <1>1, <1>2 DEF PrefixInv, Prefixes!TypeOK, Prefixes!Content
<1>4. FetchesInv' /\ DoneInv'
  BY <1>1, <1>2 DEF PrefixInv, FetchesInv, DoneInv, Writing
<1>5. TempInv'
  <2>1. CASE Prefixes!KeepSnapshot
    <3>1. FreshEnough(txt, fetched, a)
      BY <2>1 DEF Prefixes!KeepSnapshot, Prefixes!CountDrop, Prefixes!Unchanged, Prefixes!asn,
                  FreshEnough
    <3> QED
      BY <1>1, <2>1, <3>1 DEF Prefixes!KeepSnapshot, TempInv
  <2>2. CASE Prefixes!WriteSnapshot
    BY <1>1, <2>2 DEF Prefixes!WriteSnapshot, Prefixes!asn, TempInv
  <2>3. CASE Prefixes!Sync
    <3>1. temp'.synced /\ temp'.file = temp.file /\ temp'.of = temp.of
      BY <2>3, PrefixTypes DEF Prefixes!Sync, PrefixInv
    <3>2. pc = "sync" /\ pc' = "rename"
      BY <2>3 DEF Prefixes!Sync
    <3> QED
      BY <1>1, <3>1, <3>2 DEF PrefixInv, TempInv
  <2> QED
    BY <2>1, <2>2, <2>3
<1>6. DurableInv' /\ PrefixShrink /\ PrefixDates
  BY <1>1, <1>2 DEF PrefixInv, DurableInv, PrefixShrink, PrefixDates
<1> QED
  BY <1>3, <1>4, <1>5, <1>6 DEF PrefixInv

(* The new snapshot replaces the old one, of which it keeps enough.        *)
LEMMA PrefixRenameSnapshot ==
    ASSUME PrefixInv, Prefixes!RenameSnapshot
    PROVE  PrefixInv' /\ PrefixShrink /\ PrefixDates
<1> DEFINE a == KnownASNs[next]
<1>1. /\ pc = "rename" /\ temp.file = "txt" /\ pc' = "describe"
      /\ txt' = [txt EXCEPT ![a] = temp.of]
      /\ temp' = [file |-> "none", of |-> Absent, synced |-> FALSE]
      /\ UNCHANGED <<manifest, fetched, next, run>>
  BY DEF Prefixes!RenameSnapshot, Prefixes!NoTemp, Prefixes!asn
<1>2. /\ next \in 1 .. Len(KnownASNs) /\ a \in Asns /\ Len(KnownASNs) \in Nat
      /\ \A i \in 1 .. next - 1 : KnownASNs[i] \in Asns /\ KnownASNs[i] # a
  BY Order, PrefixTypes DEF PrefixInv
<1>3. temp.of = fetched[a] /\ ~Prefixes!CountDrop(txt[a], temp.of) /\ temp.synced
  BY <1>1 DEF PrefixInv, TempInv
<1>4. temp.of \in Snapshots
  BY <1>1, <1>2, <1>3 DEF PrefixInv, FetchesInv, Writing
<1>5. unsafe' = {}
  BY <1>3 DEF Prefixes!RenameSnapshot, Prefixes!Replaced, PrefixInv, DurableInv
<1>6. /\ txt' \in [Asns -> Snapshots \cup {Absent, Torn}] /\ txt'[a] = temp.of
      /\ \A b \in Asns : b # a => txt'[b] = txt[b]
  BY <1>1, <1>2, <1>4, PrefixTypes DEF PrefixInv
<1>7. Prefixes!TypeOK'
  <2>1. temp' \in [file : {"none", "txt", "manifest"}, of : Prefixes!Content, synced : BOOLEAN]
    BY <1>1 DEF Prefixes!Content
  <2> QED
    BY <1>1, <1>5, <1>6, <2>1, Order DEF PrefixInv, Prefixes!TypeOK, Prefixes!Content
<1>8. FetchesInv'
  BY <1>1 DEF PrefixInv, FetchesInv, Writing
<1>9. DoneInv'
  BY <1>1, <1>2, <1>6 DEF PrefixInv, DoneInv, FilesDone, FreshEnough, Writing
<1>10. TempInv'
  BY <1>1, <1>2, <1>3, <1>6 DEF TempInv, FreshEnough
<1>11. DurableInv' /\ PrefixDates
  BY <1>1, <1>4, <1>5, <1>6, FileAssumption DEF PrefixInv, DurableInv, PrefixDates
<1>12. PrefixShrink
  <2>1. txt[a] \in Snapshots => Size[temp.of] * 100 >= Size[txt[a]] * 65
    BY <1>3, <1>4, SizeAssumption DEF Prefixes!CountDrop
  <2> QED
    BY <1>6, <2>1 DEF PrefixShrink
<1> QED
  BY <1>7, <1>8, <1>9, <1>10, <1>11, <1>12 DEF PrefixInv

LEMMA PrefixKeepManifest ==
    ASSUME PrefixInv, Prefixes!KeepManifest
    PROVE  PrefixInv' /\ PrefixShrink /\ PrefixDates
<1> DEFINE a == KnownASNs[next]
<1>1. /\ pc = "describe" /\ txt[a] \in Snapshots /\ manifest[a].of = txt[a]
      /\ Prefixes!NextAsn("compare", "ok")
      /\ UNCHANGED <<txt, manifest, unsafe, temp, fetched, run>>
  BY DEF Prefixes!KeepManifest, Prefixes!Describes, Prefixes!asn
<1>2. FilesDone(txt, manifest, fetched, a)
  BY <1>1 DEF FilesDone, PrefixInv, TempInv
<1>3. next \in 1 .. Len(KnownASNs) /\ Len(KnownASNs) \in Nat
  BY Order, PrefixTypes DEF PrefixInv
<1>4. \A i \in 1 .. next : FilesDone(txt', manifest', fetched, KnownASNs[i])
  BY <1>1, <1>2, <1>3 DEF PrefixInv, DoneInv, Writing
<1>5. /\ pc' \in {"compare", "ok"} /\ next' \in 1 .. Len(KnownASNs)
      /\ FetchesInv' /\ DoneInv' /\ TempInv'
  BY <1>1, <1>4, NextAsnDone DEF Writing
<1>6. Prefixes!TypeOK'
  BY <1>1, <1>5 DEF PrefixInv, Prefixes!TypeOK, Prefixes!Resting, Prefixes!Content
<1>7. DurableInv' /\ PrefixShrink /\ PrefixDates
  BY <1>1 DEF PrefixInv, DurableInv, PrefixShrink, PrefixDates
<1> QED
  BY <1>5, <1>6, <1>7 DEF PrefixInv

LEMMA PrefixWriteManifest ==
    ASSUME PrefixInv, Prefixes!WriteManifest
    PROVE  PrefixInv' /\ PrefixShrink /\ PrefixDates
<1> DEFINE a == KnownASNs[next]
<1>1. /\ pc = "describe" /\ pc' = "sync" /\ txt[a] \in Snapshots /\ manifest[a].of # txt[a]
      /\ temp' = [file |-> "manifest", of |-> txt[a], synced |-> FALSE]
      /\ UNCHANGED <<txt, manifest, unsafe, fetched, next, run>>
  BY DEF Prefixes!WriteManifest, Prefixes!Describes, Prefixes!asn
<1>2. Prefixes!TypeOK'
  <2>1. temp' \in [file : {"none", "txt", "manifest"}, of : Prefixes!Content, synced : BOOLEAN]
    BY <1>1 DEF Prefixes!Content
  <2> QED
    BY <1>1, <2>1 DEF PrefixInv, Prefixes!TypeOK, Prefixes!Content
<1>3. FetchesInv' /\ DoneInv'
  BY <1>1 DEF PrefixInv, FetchesInv, DoneInv, Writing
<1>4. TempInv'
  BY <1>1 DEF PrefixInv, TempInv
<1>5. DurableInv' /\ PrefixShrink /\ PrefixDates
  BY <1>1, FileAssumption DEF PrefixInv, DurableInv, PrefixShrink, PrefixDates
<1> QED
  BY <1>2, <1>3, <1>4, <1>5 DEF PrefixInv

(* The manifest changes when it describes another snapshot than before.    *)
LEMMA PrefixRenameManifest ==
    ASSUME PrefixInv, Prefixes!RenameManifest
    PROVE  PrefixInv' /\ PrefixShrink /\ PrefixDates
<1> DEFINE a == KnownASNs[next]
<1>1. /\ pc = "rename" /\ temp.file = "manifest" /\ Prefixes!NextAsn("compare", "ok")
      /\ manifest' = [manifest EXCEPT ![a] = [of |-> temp.of, run |-> run]]
      /\ temp' = [file |-> "none", of |-> Absent, synced |-> FALSE]
      /\ UNCHANGED <<txt, fetched, run>>
  BY DEF Prefixes!RenameManifest, Prefixes!NoTemp, Prefixes!asn
<1>2. /\ next \in 1 .. Len(KnownASNs) /\ a \in Asns /\ Len(KnownASNs) \in Nat
      /\ \A i \in 1 .. next - 1 : KnownASNs[i] \in Asns /\ KnownASNs[i] # a
  BY Order, PrefixTypes DEF PrefixInv
<1>3. /\ temp.of = txt[a] /\ temp.of \in Snapshots /\ temp.synced
      /\ manifest[a].of # temp.of /\ FreshEnough(txt, fetched, a)
  BY <1>1 DEF PrefixInv, TempInv
<1>4. unsafe' = {}
  BY <1>3 DEF Prefixes!RenameManifest, Prefixes!Replaced, PrefixInv, DurableInv
<1>5. /\ manifest' \in [Asns -> [of : Snapshots \cup {Absent, Torn}, run : BOOLEAN]]
      /\ manifest'[a].of = temp.of
      /\ \A b \in Asns : b # a => manifest'[b] = manifest[b]
  <2>1. [of |-> temp.of, run |-> run] \in [of : Snapshots \cup {Absent, Torn}, run : BOOLEAN]
    BY <1>3, PrefixTypes DEF PrefixInv
  <2> QED
    BY <1>1, <1>2, <2>1, PrefixTypes DEF PrefixInv
<1>6. \A i \in 1 .. next : FilesDone(txt', manifest', fetched, KnownASNs[i])
  <2>1. FilesDone(txt', manifest', fetched, a)
    BY <1>1, <1>3, <1>5 DEF FilesDone
  <2>2. \A i \in 1 .. next - 1 : FilesDone(txt', manifest', fetched, KnownASNs[i])
    BY <1>1, <1>2, <1>5 DEF PrefixInv, DoneInv, FilesDone, Writing
  <2> QED
    BY <1>2, <2>1, <2>2
<1>7. /\ pc' \in {"compare", "ok"} /\ next' \in 1 .. Len(KnownASNs)
      /\ FetchesInv' /\ DoneInv' /\ TempInv'
  BY <1>1, <1>6, NextAsnDone DEF Writing
<1>8. Prefixes!TypeOK'
  <2>1. temp' \in [file : {"none", "txt", "manifest"}, of : Prefixes!Content, synced : BOOLEAN]
    BY <1>1 DEF Prefixes!Content
  <2> QED
    BY <1>1, <1>4, <1>5, <1>7, <2>1, Order
    DEF PrefixInv, Prefixes!TypeOK, Prefixes!Resting, Prefixes!Content
<1>9. DurableInv' /\ PrefixShrink
  BY <1>1, <1>3, <1>4, <1>5, FileAssumption DEF PrefixInv, DurableInv, PrefixShrink
<1>10. PrefixDates
  BY <1>3, <1>5 DEF PrefixDates
<1> QED
  BY <1>7, <1>8, <1>9, <1>10 DEF PrefixInv

LEMMA PrefixNext ==
    ASSUME PrefixInv, Prefixes!Next
    PROVE  PrefixInv' /\ PrefixShrink /\ PrefixDates
BY PrefixStart, PrefixFetch, PrefixFails, PrefixCrash, PrefixPrepare, PrefixRenameSnapshot,
   PrefixKeepManifest, PrefixWriteManifest, PrefixRenameManifest
DEF Prefixes!Next, Prefixes!Step

-----------------------------------------------------------------------------
(* The names: what the loader accepts from a commit, and how far one       *)
(* commit may shrink what the one before it holds.                         *)
Good(s) == Metadata!Parses(s, Minimum)
KeepsEnough(old, new) == Count[new.list] * 100 >= Count[old.list] * 65

Last == commits[Len(commits)]

(* Where a run has its new snapshot in place, and where not yet.           *)
BeforeSnapshot == job \in {"fetch", "update"} \/ (job = "rename" /\ draft.file = "snapshot")
AfterSnapshot == job \in {"describe", "ok"} \/ (job = "rename" /\ draft.file = "manifest")

JobInv ==
    /\ job = "update" => entries \in Lists
    /\ job = "rename" /\ draft.file = "snapshot" =>
          /\ entries \in Lists /\ draft.of = [list |-> entries, at |-> now]
          /\ Metadata!NotRefused(snapshot, entries) /\ ~Metadata!Same(snapshot, entries)
    /\ job = "rename" /\ draft.file = "manifest" => draft.of = snapshot
    /\ AfterSnapshot => snapshot.list = entries /\ Good(snapshot)
    /\ job = "ok" => described = snapshot

(* A run of the workflow begins with the latest commit and keeps enough of *)
(* it.                                                                     *)
CheckoutInv ==
    /\ fresh /\ BeforeSnapshot => snapshot = Last
    /\ fresh /\ AfterSnapshot => KeepsEnough(Last, snapshot)

(* The inductive invariant of the metadata updater and the loader.         *)
MetadataInv ==
    /\ Metadata!TypeOK /\ JobInv /\ CheckoutInv
    /\ Metadata!CommitAcceptable /\ Good(embedded) /\ Metadata!LoadedWhole

(* The properties of one step of the metadata updater.                     *)
MetadataShrink ==
    /\ job \notin Metadata!Resting /\ {snapshot, snapshot'} \subseteq Metadata!Snapshot
    /\ snapshot'.list # snapshot.list
    => Count[snapshot'.list] * 100 >= Count[snapshot.list] * 65

MetadataDates ==
    job \notin Metadata!Resting /\ {snapshot, snapshot'} \subseteq Metadata!Snapshot
        /\ snapshot.at # "none"
    => snapshot' = snapshot \/ snapshot'.list # snapshot.list

-----------------------------------------------------------------------------
(* The type invariant, with the sets of locations written out.             *)
LEMMA MetadataTypes ==
    Metadata!TypeOK <=>
        /\ snapshot \in Metadata!File /\ described \in Metadata!File
        /\ volatile \subseteq {"snapshot", "manifest"}
        /\ draft \in [file : {"none", "snapshot", "manifest"}, of : Metadata!File]
        /\ entries \in Lists \cup {"none"}
        /\ job \in {"off", "ok", "error", "fetch", "update", "rename", "describe"}
        /\ fresh \in BOOLEAN /\ now \in {"even", "odd"}
        /\ commits \in Seq(Metadata!Snapshot) /\ Len(commits) \in 1 .. 2
        /\ embedded \in Metadata!Snapshot
        /\ loader \in {"idle", "manifest", "snapshot", "returned"}
        /\ source \in 1 .. NumSources
        /\ read \in Metadata!File
        /\ loaded \in Metadata!Snapshot \cup {Metadata!Missing}
BY DEF Metadata!TypeOK, Metadata!Resting

LEMMA Files ==
    /\ Metadata!Snapshot \subseteq Metadata!File
    /\ Metadata!Missing \in Metadata!File /\ Metadata!Lost \in Metadata!File
    /\ Metadata!Lost \notin Metadata!Snapshot /\ Metadata!Missing \notin Metadata!Snapshot
    /\ Metadata!NoDraft \in [file : {"none", "snapshot", "manifest"}, of : Metadata!File]
    /\ Metadata!NoDraft.file = "none"
    /\ \A s \in Metadata!Snapshot : s.list \in Lists /\ Count[s.list] \in Nat
BY MarksAssumption, CountAssumption
DEF Metadata!File, Metadata!Missing, Metadata!Lost, Metadata!NoDraft, Metadata!Snapshot

(* What parses is a snapshot with enough names.                            *)
LEMMA GoodSnapshot ==
    ASSUME NEW s, Good(s)
    PROVE  s \in Metadata!Snapshot /\ Count[s.list] \in Nat /\ Count[s.list] >= Minimum
BY Files DEF Good, Metadata!Parses

(* The job's and the loader's arithmetic agree.                            *)
LEMMA ShareKept ==
    ASSUME NEW x \in Nat, NEW y \in Nat, x * 100 >= y * 65
    PROVE  x >= (y * 65) \div 100
OBVIOUS

LEMMA OwnShare ==
    ASSUME NEW x \in Nat
    PROVE  x * 100 >= x * 65 /\ x >= (x * 65) \div 100
OBVIOUS

(* The last commit is one that can be loaded.                              *)
LEMMA LastGood ==
    ASSUME Metadata!TypeOK, Metadata!CommitAcceptable
    PROVE  Good(Last) /\ Last \in Metadata!Snapshot /\ Len(commits) \in 1 .. 2
<1>1. Len(commits) \in 1 .. 2 /\ DOMAIN commits = 1 .. Len(commits)
  BY MetadataTypes
<1>2. Good(Last)
  BY <1>1 DEF Metadata!CommitAcceptable, Good, Last
<1> QED
  BY <1>1, <1>2, GoodSnapshot

LEMMA MetadataInit == Metadata!Init => MetadataInv
<1> SUFFICES ASSUME Metadata!Init PROVE MetadataInv
  OBVIOUS
<1>1. /\ embedded \in Metadata!Snapshot /\ Good(embedded) /\ commits = <<embedded>>
      /\ embedded.list \in Lists
  BY Files DEF Metadata!Init, Good
<1>2. [embedded EXCEPT !.at = "none"] \in Metadata!Snapshot
  BY <1>1 DEF Metadata!Snapshot
<1>3. Metadata!TypeOK
  <2>1. snapshot \in Metadata!File /\ described \in Metadata!File
    BY <1>1, <1>2, Files DEF Metadata!Init
  <2>2. /\ volatile \subseteq {"snapshot", "manifest"} /\ entries \in Lists \cup {"none"}
        /\ draft \in [file : {"none", "snapshot", "manifest"}, of : Metadata!File]
        /\ job = "off" /\ now = "even"
    BY Files DEF Metadata!Init
  <2>3. fresh \in BOOLEAN
    BY DEF Metadata!Init
  <2>4. commits \in Seq(Metadata!Snapshot) /\ Len(commits) \in 1 .. 2
    BY <1>1
  <2>5. loader = "idle" /\ source \in 1 .. NumSources
    BY SourcesAssumption DEF Metadata!Init
  <2>6. read \in Metadata!File /\ loaded = Metadata!Missing
    BY Files DEF Metadata!Init
  <2> QED
    BY <1>1, <2>1, <2>2, <2>3, <2>4, <2>5, <2>6, MetadataTypes
<1>4. JobInv /\ CheckoutInv /\ Metadata!LoadedWhole
  BY DEF Metadata!Init, JobInv, CheckoutInv, BeforeSnapshot, AfterSnapshot, Metadata!LoadedWhole
<1>5. Metadata!CommitAcceptable
  <2>1. DOMAIN commits = 1 .. 1 /\ Len(commits) = 1 /\ commits[1] = embedded
    BY <1>1
  <2> QED
    BY <1>1, <2>1 DEF Metadata!CommitAcceptable, Good
<1> QED
  BY <1>1, <1>3, <1>4, <1>5 DEF MetadataInv

-----------------------------------------------------------------------------
(* What the loader and the commits are owed while the job runs.            *)
LoaderVars == <<commits, embedded, loader, source, read, loaded>>

LEMMA LoaderUntouched ==
    ASSUME MetadataInv, UNCHANGED LoaderVars
    PROVE  Metadata!CommitAcceptable' /\ Good(embedded)' /\ Metadata!LoadedWhole'
BY DEF LoaderVars, MetadataInv, Metadata!CommitAcceptable, Metadata!LoadedWhole, Good,
       Metadata!Parses, Metadata!MinimumRemote

LEMMA SnapshotUntouched ==
    ASSUME snapshot' = snapshot
    PROVE  MetadataShrink /\ MetadataDates
BY DEF MetadataShrink, MetadataDates

LEMMA MetadataStart ==
    ASSUME MetadataInv, Metadata!RunByHand \/ Metadata!RunWorkflow
    PROVE  MetadataInv' /\ MetadataShrink /\ MetadataDates
<1>1. /\ job \in Metadata!Resting /\ job' = "fetch" /\ entries' = "none"
      /\ now' \in {"even", "odd"} /\ UNCHANGED <<draft, LoaderVars>>
  BY DEF Metadata!RunByHand, Metadata!RunWorkflow, Metadata!StartRun, Metadata!loaderVars, LoaderVars
<1>2. /\ snapshot' \in Metadata!File /\ described' \in Metadata!File
      /\ volatile' \subseteq {"snapshot", "manifest"} /\ fresh' \in BOOLEAN
      /\ fresh' => snapshot' = Last
  <2>1. CASE Metadata!RunByHand
    BY <2>1, MetadataTypes DEF Metadata!RunByHand, MetadataInv
  <2>2. CASE Metadata!RunWorkflow
    BY <2>2, LastGood, Files DEF Metadata!RunWorkflow, MetadataInv, Last
  <2> QED
    BY <2>1, <2>2
<1>3. Metadata!TypeOK'
  BY <1>1, <1>2 DEF LoaderVars, MetadataInv, Metadata!TypeOK, Metadata!Resting, Metadata!File
<1>4. JobInv' /\ CheckoutInv'
  BY <1>1, <1>2 DEF JobInv, CheckoutInv, BeforeSnapshot, AfterSnapshot, Last, LoaderVars
<1>5. MetadataShrink /\ MetadataDates
  BY <1>1 DEF MetadataShrink, MetadataDates
<1> QED
  BY <1>1, <1>3, <1>4, <1>5, LoaderUntouched DEF MetadataInv

(* Steps of the job that leave both files alone.                           *)
LEMMA MetadataPrepare ==
    ASSUME MetadataInv,
           \/ Metadata!FetchEntries \/ Metadata!Fails \/ Metadata!Refuse \/ Metadata!Keep
           \/ Metadata!Write \/ Metadata!KeepManifest \/ Metadata!WriteManifest
    PROVE  MetadataInv' /\ MetadataShrink /\ MetadataDates
<1> USE DEF Metadata!loaderVars, LoaderVars
<1>1. UNCHANGED <<snapshot, described, volatile, fresh, now, LoaderVars>>
  BY DEF Metadata!FetchEntries, Metadata!Fails, Metadata!Refuse, Metadata!Keep, Metadata!Write,
         Metadata!KeepManifest, Metadata!WriteManifest
<1>2. \/ job' = "error"
      \/ job = "fetch" /\ job' = "update" /\ entries' \in Lists /\ draft' = draft
      \/ /\ job = "update" /\ job' \in {"rename", "describe"} /\ entries' = entries
         /\ Metadata!NotRefused(snapshot, entries)
         /\ job' = "describe" => Metadata!Same(snapshot, entries) /\ draft' = draft
         /\ job' = "rename" =>
               /\ ~Metadata!Same(snapshot, entries)
               /\ draft' = [file |-> "snapshot", of |-> [list |-> entries, at |-> now]]
      \/ /\ job = "describe" /\ job' \in {"rename", "ok"} /\ entries' = entries
         /\ job' = "ok" => described = snapshot /\ draft' = draft
         /\ job' = "rename" => draft' = [file |-> "manifest", of |-> snapshot]
  BY DEF Metadata!FetchEntries, Metadata!Fails, Metadata!Refuse, Metadata!Keep, Metadata!Write,
         Metadata!KeepManifest, Metadata!WriteManifest
<1>3. entries' \in Lists \cup {"none"}
  BY MetadataTypes DEF Metadata!FetchEntries, Metadata!Fails, Metadata!Refuse, Metadata!Keep,
     Metadata!Write, Metadata!KeepManifest, Metadata!WriteManifest, MetadataInv
<1>4. draft' \in [file : {"none", "snapshot", "manifest"}, of : Metadata!File]
  <2>1. CASE Metadata!Write
    <3>1. entries \in Lists /\ now \in {"even", "odd"}
      BY <2>1, MetadataTypes DEF Metadata!Write, MetadataInv, JobInv
    <3>2. [list |-> entries, at |-> now] \in Metadata!File
      BY <3>1, Files DEF Metadata!Snapshot
    <3> QED
      BY <2>1, <3>2 DEF Metadata!Write
  <2>2. CASE Metadata!WriteManifest
    BY <2>2, MetadataTypes DEF Metadata!WriteManifest, MetadataInv
  <2>3. CASE draft' = draft \/ draft' = Metadata!NoDraft
    BY <2>3, MetadataTypes, Files DEF MetadataInv
  <2> QED
    BY <2>1, <2>2, <2>3 DEF Metadata!FetchEntries, Metadata!Fails, Metadata!Refuse, Metadata!Keep,
                            Metadata!KeepManifest
<1>5. Metadata!TypeOK'
  <2>1. job' \in {"off", "ok", "error", "fetch", "update", "rename", "describe"}
    BY <1>2
  <2> QED
    BY <1>1, <1>3, <1>4, <2>1 DEF MetadataInv, Metadata!TypeOK, Metadata!Resting, Metadata!File
<1>6. CASE job' = "error"
  <2>1. JobInv' /\ CheckoutInv'
    BY <1>6 DEF JobInv, CheckoutInv, BeforeSnapshot, AfterSnapshot
  <2> QED
    BY <1>1, <1>5, <2>1, LoaderUntouched, SnapshotUntouched DEF MetadataInv
<1>7. CASE job = "fetch" /\ job' = "update" /\ entries' \in Lists /\ draft' = draft
  <2>1. JobInv' /\ CheckoutInv'
    BY <1>1, <1>7 DEF MetadataInv, JobInv, CheckoutInv, BeforeSnapshot, AfterSnapshot, Last
  <2> QED
    BY <1>1, <1>5, <2>1, LoaderUntouched, SnapshotUntouched DEF MetadataInv
<1>8. CASE job = "update" /\ job' = "rename" /\ entries' = entries
           /\ Metadata!NotRefused(snapshot, entries) /\ ~Metadata!Same(snapshot, entries)
           /\ draft' = [file |-> "snapshot", of |-> [list |-> entries, at |-> now]]
  <2>1. JobInv' /\ CheckoutInv'
    BY <1>1, <1>8 DEF MetadataInv, JobInv, CheckoutInv, BeforeSnapshot, AfterSnapshot, Last,
                      Metadata!NotRefused, Metadata!Same
  <2> QED
    BY <1>1, <1>5, <2>1, LoaderUntouched, SnapshotUntouched DEF MetadataInv
<1>9. CASE job = "update" /\ job' = "describe" /\ entries' = entries /\ draft' = draft
           /\ Metadata!NotRefused(snapshot, entries) /\ Metadata!Same(snapshot, entries)
  <2>1. snapshot.list = entries /\ Good(snapshot)
    BY <1>9 DEF Metadata!NotRefused, Metadata!Same, Good, Metadata!Parses
  <2>2. fresh => KeepsEnough(Last, snapshot)
    <3>1. fresh => snapshot = Last
      BY <1>9 DEF MetadataInv, CheckoutInv, BeforeSnapshot
    <3> QED
      BY <2>1, <3>1, GoodSnapshot, OwnShare DEF KeepsEnough
  <2>3. JobInv' /\ CheckoutInv'
    BY <1>1, <1>9, <2>1, <2>2
    DEF JobInv, CheckoutInv, BeforeSnapshot, AfterSnapshot, Last, KeepsEnough, Good,
        Metadata!Parses
  <2> QED
    BY <1>1, <1>5, <2>3, LoaderUntouched, SnapshotUntouched DEF MetadataInv
<1>10. CASE /\ job = "describe" /\ entries' = entries
            /\ \/ job' = "ok" /\ described = snapshot /\ draft' = draft
               \/ job' = "rename" /\ draft' = [file |-> "manifest", of |-> snapshot]
  <2>1. AfterSnapshot /\ ~BeforeSnapshot'
    BY <1>10 DEF AfterSnapshot, BeforeSnapshot
  <2>2. JobInv'
    BY <1>1, <1>10, <2>1 DEF MetadataInv, JobInv, Good, Metadata!Parses
  <2>3. CheckoutInv'
    BY <1>1, <2>1 DEF MetadataInv, CheckoutInv, KeepsEnough, Last
  <2> QED
    BY <1>1, <1>5, <2>2, <2>3, LoaderUntouched, SnapshotUntouched DEF MetadataInv
<1> QED
  BY <1>2, <1>6, <1>7, <1>8, <1>9, <1>10

(* The new snapshot replaces the old one, of which it keeps enough.        *)
LEMMA MetadataRenameSnapshot ==
    ASSUME MetadataInv, Metadata!RenameSnapshot
    PROVE  MetadataInv' /\ MetadataShrink /\ MetadataDates
<1> USE DEF Metadata!loaderVars, LoaderVars
<1>1. /\ job = "rename" /\ draft.file = "snapshot" /\ snapshot' = draft.of
      /\ volatile' = volatile \cup {"snapshot"} /\ draft' = Metadata!NoDraft /\ job' = "describe"
      /\ UNCHANGED <<described, entries, fresh, now, LoaderVars>>
  BY DEF Metadata!RenameSnapshot
<1>2. /\ entries \in Lists /\ draft.of = [list |-> entries, at |-> now]
      /\ Metadata!NotRefused(snapshot, entries) /\ ~Metadata!Same(snapshot, entries)
  BY <1>1 DEF MetadataInv, JobInv
<1>3. /\ snapshot'.list = entries /\ snapshot' \in Metadata!Snapshot /\ Good(snapshot')
  <2>1. snapshot' \in Metadata!Snapshot /\ snapshot'.at # "none"
    BY <1>1, <1>2, MetadataTypes DEF MetadataInv, Metadata!Snapshot
  <2> QED
    BY <1>1, <1>2, <2>1 DEF Good, Metadata!Parses, Metadata!NotRefused
<1>4. Count[snapshot'.list] * 100 >= Count[snapshot.list] * 65
  <2>1. /\ snapshot \in Metadata!Snapshot /\ Count[snapshot.list] \in Nat
        /\ Count[entries] \in Nat /\ Count[entries] >= Minimum /\ Minimum \in Nat
    BY <1>2, Files, CountAssumption DEF Metadata!NotRefused
  <2> QED
    BY <1>2, <1>3, <2>1 DEF Metadata!NotRefused
<1>5. Metadata!TypeOK'
  BY <1>1, <1>3, Files DEF MetadataInv, Metadata!TypeOK, Metadata!Resting, Metadata!File
<1>6. JobInv'
  BY <1>1, <1>3, Files DEF JobInv, AfterSnapshot
<1>7. CheckoutInv'
  <2>1. fresh => snapshot = Last
    BY <1>1 DEF MetadataInv, CheckoutInv, BeforeSnapshot
  <2>2. fresh' => KeepsEnough(Last', snapshot')
    BY <1>1, <1>4, <2>1 DEF KeepsEnough, Last
  <2>3. ~BeforeSnapshot'
    BY <1>1 DEF BeforeSnapshot
  <2> QED
    BY <2>2, <2>3 DEF CheckoutInv
<1>8. MetadataShrink
  BY <1>4 DEF MetadataShrink
<1>9. MetadataDates
  BY <1>2, <1>3 DEF MetadataDates, Metadata!Same
<1> QED
  BY <1>1, <1>5, <1>6, <1>7, <1>8, <1>9, LoaderUntouched DEF MetadataInv

LEMMA MetadataRenameManifest ==
    ASSUME MetadataInv, Metadata!RenameManifest
    PROVE  MetadataInv' /\ MetadataShrink /\ MetadataDates
<1> USE DEF Metadata!loaderVars, LoaderVars
<1>1. /\ job = "rename" /\ draft.file = "manifest" /\ described' = draft.of
      /\ volatile' = volatile \cup {"manifest"} /\ draft' = Metadata!NoDraft /\ job' = "ok"
      /\ UNCHANGED <<snapshot, entries, fresh, now, LoaderVars>>
  BY DEF Metadata!RenameManifest
<1>2. draft.of = snapshot /\ AfterSnapshot
  BY <1>1 DEF MetadataInv, JobInv, AfterSnapshot
<1>3. Metadata!TypeOK'
  BY <1>1, <1>2, Files DEF MetadataInv, Metadata!TypeOK, Metadata!Resting, Metadata!File
<1>4. JobInv'
  BY <1>1, <1>2 DEF MetadataInv, JobInv, AfterSnapshot, Good, Metadata!Parses
<1>5. CheckoutInv'
  BY <1>1, <1>2 DEF MetadataInv, CheckoutInv, BeforeSnapshot, AfterSnapshot, KeepsEnough, Last
<1> QED
  BY <1>1, <1>3, <1>4, <1>5, LoaderUntouched, SnapshotUntouched DEF MetadataInv

(* The data of a renamed file may be lost, never made up.                  *)
LEMMA MetadataCrash ==
    ASSUME MetadataInv, Metadata!Crash
    PROVE  MetadataInv' /\ MetadataShrink /\ MetadataDates
<1> USE DEF Metadata!loaderVars, LoaderVars
<1>1. /\ volatile' = {} /\ draft' = Metadata!NoDraft /\ job' = "off"
      /\ snapshot' \in {snapshot, Metadata!Lost} /\ described' \in {described, Metadata!Lost}
      /\ UNCHANGED <<entries, fresh, now, LoaderVars>>
  BY DEF Metadata!Crash
<1>2. Metadata!TypeOK'
  <2>1. snapshot' \in Metadata!File /\ described' \in Metadata!File
    BY <1>1, Files, MetadataTypes DEF MetadataInv
  <2> QED
    BY <1>1, <2>1, Files DEF MetadataInv, Metadata!TypeOK, Metadata!Resting, Metadata!File
<1>3. JobInv' /\ CheckoutInv'
  BY <1>1 DEF JobInv, CheckoutInv, BeforeSnapshot, AfterSnapshot
<1>4. MetadataShrink /\ MetadataDates
  <2>1. snapshot' = snapshot \/ snapshot' \notin Metadata!Snapshot
    BY <1>1, Files
  <2> QED
    BY <2>1 DEF MetadataShrink, MetadataDates
<1> QED
  BY <1>1, <1>2, <1>3, <1>4, LoaderUntouched DEF MetadataInv

(* What the workflow commits keeps enough of the commit it started from.   *)
LEMMA MetadataCommit ==
    ASSUME MetadataInv, Metadata!Commit
    PROVE  MetadataInv' /\ MetadataShrink /\ MetadataDates
<1>1. /\ job = "ok" /\ fresh /\ commits' = <<Last, snapshot>>
      /\ UNCHANGED <<snapshot, described, volatile, draft, entries, job, fresh, now,
                     embedded, loader, source, read, loaded>>
  BY DEF Metadata!Commit, Metadata!updaterVars, Metadata!loaderVars, Last
<1>2. Good(snapshot) /\ KeepsEnough(Last, snapshot) /\ Good(Last)
  BY <1>1, LastGood DEF MetadataInv, JobInv, CheckoutInv, AfterSnapshot
<1>3. /\ snapshot \in Metadata!Snapshot /\ Last \in Metadata!Snapshot
      /\ Count[snapshot.list] \in Nat /\ Count[Last.list] \in Nat
  BY <1>2, GoodSnapshot
<1>4. /\ commits' \in Seq(Metadata!Snapshot) /\ Len(commits') = 2 /\ DOMAIN commits' = 1 .. 2
      /\ commits'[1] = Last /\ commits'[2] = snapshot
  BY <1>1, <1>3
<1>5. Metadata!TypeOK'
  BY <1>1, <1>4 DEF MetadataInv, Metadata!TypeOK, Metadata!Resting, Metadata!File
<1>6. JobInv'
  BY <1>1 DEF MetadataInv, JobInv, AfterSnapshot, Good, Metadata!Parses
<1>7. CheckoutInv'
  <2>1. KeepsEnough(snapshot, snapshot)
    BY <1>3, OwnShare DEF KeepsEnough
  <2>2. Last' = snapshot /\ ~BeforeSnapshot'
    BY <1>1, <1>4 DEF Last, BeforeSnapshot
  <2> QED
    BY <1>1, <2>1, <2>2 DEF CheckoutInv, KeepsEnough
<1>8. Metadata!CommitAcceptable'
  <2>1. Count[snapshot.list] >= (Count[Last.list] * 65) \div 100
    BY <1>2, <1>3, ShareKept DEF KeepsEnough
  <2>2. \A i \in DOMAIN commits' : Metadata!Parses(commits'[i], Minimum)
    BY <1>2, <1>4 DEF Good
  <2>3. \A i \in 1 .. Len(commits') - 1 : i = 1
    BY <1>4
  <2> QED
    BY <1>4, <2>1, <2>2, <2>3 DEF Metadata!CommitAcceptable, Metadata!Parses
<1>9. Good(embedded)' /\ Metadata!LoadedWhole'
  BY <1>1 DEF MetadataInv, Good, Metadata!Parses, Metadata!LoadedWhole, Metadata!MinimumRemote
<1> QED
  BY <1>1, <1>5, <1>6, <1>7, <1>8, <1>9, SnapshotUntouched DEF MetadataInv

-----------------------------------------------------------------------------
(* A snapshot the loader returns is big enough: its own is, by a share.    *)
LEMMA EnoughEmbedded ==
    ASSUME Good(embedded)
    PROVE  Count[embedded.list] >= Metadata!MinimumRemote
<1>1. Count[embedded.list] \in Nat /\ Count[embedded.list] >= Minimum /\ Minimum \in Nat
  BY GoodSnapshot, CountAssumption
<1> QED
  BY <1>1, OwnShare DEF Metadata!MinimumRemote, Metadata!Greater

(* A step of the loader, with nothing returned or what may be.             *)
LEMMA LoaderStep ==
    ASSUME MetadataInv, UNCHANGED <<snapshot, described, volatile, draft, entries, job, fresh, now,
                                    commits>>,
           Good(embedded'), embedded' \in Metadata!Snapshot,
           loader' \in {"idle", "manifest", "snapshot", "returned"},
           source' \in 1 .. NumSources, read' \in Metadata!File,
           loaded' \in Metadata!Snapshot \cup {Metadata!Missing}, Metadata!LoadedWhole'
    PROVE  MetadataInv' /\ MetadataShrink /\ MetadataDates
<1>1. Metadata!TypeOK'
  BY DEF MetadataInv, Metadata!TypeOK, Metadata!Resting, Metadata!File
<1>2. JobInv'
  BY DEF MetadataInv, JobInv, AfterSnapshot, Good, Metadata!Parses
<1>3. CheckoutInv'
  BY DEF MetadataInv, CheckoutInv, BeforeSnapshot, AfterSnapshot, KeepsEnough, Last
<1>4. Metadata!CommitAcceptable'
  BY DEF MetadataInv, Metadata!CommitAcceptable, Metadata!Parses
<1>5. Good(embedded)'
  BY DEF Good, Metadata!Parses
<1> QED
  BY <1>1, <1>2, <1>3, <1>4, <1>5, SnapshotUntouched DEF MetadataInv

LEMMA MetadataLoad ==
    ASSUME MetadataInv, Metadata!Load
    PROVE  MetadataInv' /\ MetadataShrink /\ MetadataDates
<1>1. Good(embedded') /\ embedded' \in Metadata!Snapshot
  BY LastGood, GoodSnapshot DEF Metadata!Load, Last, MetadataInv
<1>2. 1 \in 1 .. NumSources
  BY SourcesAssumption
<1>3. Metadata!LoadedWhole'
  BY DEF Metadata!Load, Metadata!LoadedWhole
<1> QED
  BY <1>1, <1>2, <1>3, LoaderStep, Files DEF Metadata!Load, Metadata!updaterVars

(* On to the next source, or back to the embedded snapshot.                *)
LEMMA MetadataNextSource ==
    ASSUME MetadataInv, Metadata!NextSource, loader # "returned", embedded' = embedded,
           UNCHANGED <<snapshot, described, volatile, draft, entries, job, fresh, now, commits>>
    PROVE  MetadataInv' /\ MetadataShrink /\ MetadataDates
<1>1. Good(embedded') /\ embedded' \in Metadata!Snapshot /\ read' \in Metadata!File
  BY GoodSnapshot, Files DEF MetadataInv, Metadata!NextSource
<1>2. source \in 1 .. NumSources /\ NumSources \in Nat
  BY SourcesAssumption, MetadataTypes DEF MetadataInv
<1>3. CASE source < NumSources
  <2>1. loader' = "manifest" /\ source' \in 1 .. NumSources /\ loaded' = loaded
    BY <1>2, <1>3 DEF Metadata!NextSource
  <2>2. Metadata!LoadedWhole'
    BY <2>1 DEF Metadata!LoadedWhole
  <2>3. loaded' \in Metadata!Snapshot \cup {Metadata!Missing}
    BY <2>1, MetadataTypes DEF MetadataInv
  <2> QED
    BY <1>1, <2>1, <2>2, <2>3, LoaderStep
<1>4. CASE ~(source < NumSources)
  <2>1. loader' = "returned" /\ source' = source /\ loaded' = embedded
    BY <1>4 DEF Metadata!NextSource
  <2>2. Metadata!LoadedWhole'
    BY <2>1, EnoughEmbedded DEF MetadataInv, Metadata!LoadedWhole, Metadata!MinimumRemote
  <2>3. loaded' \in Metadata!Snapshot
    BY <1>1, <2>1
  <2> QED
    BY <1>1, <1>2, <2>1, <2>2, <2>3, LoaderStep
<1> QED
  BY <1>3, <1>4

LEMMA MetadataLoading ==
    ASSUME MetadataInv, Metadata!Loading
    PROVE  MetadataInv' /\ MetadataShrink /\ MetadataDates
<1>1. UNCHANGED <<snapshot, described, volatile, draft, entries, job, fresh, now, commits, embedded>>
  BY DEF Metadata!Loading, Metadata!FetchFails, Metadata!FetchManifest, Metadata!FetchSnapshot,
         Metadata!updaterVars
<1>2. /\ Good(embedded') /\ embedded' \in Metadata!Snapshot
      /\ source \in 1 .. NumSources /\ read \in Metadata!File
      /\ loaded \in Metadata!Snapshot \cup {Metadata!Missing}
  BY <1>1, GoodSnapshot, MetadataTypes DEF MetadataInv
<1>3. CASE Metadata!FetchFails
  BY <1>1, <1>3, MetadataNextSource DEF Metadata!FetchFails
<1>4. CASE Metadata!FetchManifest
  <2>1. read' \in Metadata!Snapshot
    <3>1. \A i \in DOMAIN commits : commits[i] \in Metadata!Snapshot
      BY MetadataTypes DEF MetadataInv
    <3> QED
      BY <1>4, <3>1 DEF Metadata!FetchManifest, Metadata!Served
  <2>2. loader' = "snapshot" /\ UNCHANGED <<source, loaded>>
    BY <1>4 DEF Metadata!FetchManifest
  <2>3. Metadata!LoadedWhole'
    BY <2>2 DEF Metadata!LoadedWhole
  <2> QED
    BY <1>1, <1>2, <2>1, <2>2, <2>3, LoaderStep, Files
<1>5. CASE Metadata!FetchSnapshot
  <2>1. PICK s : IF Metadata!Accepts(s)
                 THEN loaded' = s /\ loader' = "returned" /\ UNCHANGED <<source, read>>
                 ELSE Metadata!NextSource
    BY <1>5 DEF Metadata!FetchSnapshot
  <2>2. CASE ~Metadata!Accepts(s)
    BY <1>1, <1>5, <2>1, <2>2, MetadataNextSource DEF Metadata!FetchSnapshot
  <2>3. CASE Metadata!Accepts(s)
    <3>1. /\ loaded' = s /\ loader' = "returned" /\ UNCHANGED <<source, read>>
          /\ s \in Metadata!Snapshot /\ Count[s.list] >= Metadata!MinimumRemote /\ read = s
      BY <2>1, <2>3 DEF Metadata!Accepts, Metadata!Parses
    <3>2. Metadata!LoadedWhole'
      BY <1>1, <3>1 DEF Metadata!LoadedWhole, Metadata!MinimumRemote
    <3> QED
      BY <1>1, <1>2, <3>1, <3>2, LoaderStep
  <2> QED
    BY <2>2, <2>3
<1> QED
  BY <1>3, <1>4, <1>5 DEF Metadata!Loading

LEMMA MetadataNext ==
    ASSUME MetadataInv, Metadata!Next
    PROVE  MetadataInv' /\ MetadataShrink /\ MetadataDates
BY MetadataStart, MetadataPrepare, MetadataRenameSnapshot, MetadataRenameManifest, MetadataCrash,
   MetadataCommit, MetadataLoad, MetadataLoading
DEF Metadata!Next, Metadata!Update

-----------------------------------------------------------------------------
(* Both jobs: the one a behaviour is of, and the other at rest.            *)
IInv == PrefixInv /\ MetadataInv

LEMMA InitInv == Init => IInv
BY PrefixInit, MetadataInit DEF Init, IInv, PrefixesAtRest, MetadataAtRest

LEMMA PrefixSame ==
    ASSUME PrefixInv, UNCHANGED prefixVars
    PROVE  PrefixInv' /\ PrefixShrink /\ PrefixDates
<1>1. UNCHANGED <<txt, manifest, unsafe, temp, fetched, next, pc, run>>
  BY DEF prefixVars
<1>2. Prefixes!TypeOK'
  BY <1>1 DEF PrefixInv, Prefixes!TypeOK, Prefixes!Content, Prefixes!Resting
<1>3. FetchesInv' /\ DoneInv' /\ TempInv' /\ DurableInv'
  BY <1>1 DEF PrefixInv, FetchesInv, DoneInv, TempInv, DurableInv, Prefixes!CountDrop
<1> QED
  BY <1>1, <1>2, <1>3 DEF PrefixInv, PrefixShrink, PrefixDates

LEMMA MetadataSame ==
    ASSUME MetadataInv, UNCHANGED metadataVars
    PROVE  MetadataInv' /\ MetadataShrink /\ MetadataDates
<1>1. /\ UNCHANGED <<snapshot, described, volatile, draft, entries, job, fresh, now, commits>>
      /\ UNCHANGED <<embedded, loader, source, read, loaded>>
  BY DEF metadataVars
<1>2. /\ Good(embedded') /\ embedded' \in Metadata!Snapshot
      /\ loader' \in {"idle", "manifest", "snapshot", "returned"}
      /\ source' \in 1 .. NumSources /\ read' \in Metadata!File
      /\ loaded' \in Metadata!Snapshot \cup {Metadata!Missing}
  BY <1>1, MetadataTypes DEF MetadataInv
<1>3. Metadata!LoadedWhole'
  BY <1>1, LoaderUntouched DEF LoaderVars
<1> QED
  BY <1>1, <1>2, <1>3, LoaderStep

LEMMA NextKeeps ==
    ASSUME IInv, [Next]_vars
    PROVE  IInv' /\ PrefixShrink /\ PrefixDates /\ MetadataShrink /\ MetadataDates
<1>1. CASE MaintainPrefixes
  BY <1>1, PrefixNext, MetadataSame DEF MaintainPrefixes, IInv
<1>2. CASE MaintainMetadata
  BY <1>2, PrefixSame, MetadataNext DEF MaintainMetadata, IInv
<1>3. CASE UNCHANGED vars
  BY <1>3, PrefixSame, MetadataSame DEF vars, IInv
<1> QED
  BY <1>1, <1>2, <1>3 DEF Next

LEMMA Inductive == Spec => []IInv
<1>1. IInv /\ [Next]_vars => IInv'
  BY NextKeeps
<1> QED
  BY InitInv, <1>1, PTL DEF Spec

-----------------------------------------------------------------------------
(* A successful run of either job leaves a pair of files that is new,      *)
(* consistent and acceptable, whatever crashes and failed runs came before.*)
THEOREM CompletedRunHolds == Spec => []CompletedRun
<1>1. IInv => CompletedRun
  <2> SUFFICES ASSUME IInv PROVE CompletedRun
    OBVIOUS
  <2>1. pc = "ok" => \A a \in Asns : FilesDone(txt, manifest, fetched, a)
    BY DEF IInv, PrefixInv, DoneInv
  <2>2. Prefixes!CompletedRunConsistent /\ Prefixes!CompletedRunFresh
    BY <2>1, Order
    DEF FilesDone, FreshEnough, Prefixes!CompletedRunConsistent, Prefixes!CompletedRunFresh
  <2>3. Metadata!CompletedRun
    BY DEF IInv, MetadataInv, JobInv, AfterSnapshot, Good, Metadata!CompletedRun
  <2> QED
    BY <2>2, <2>3 DEF CompletedRun
<1> QED
  BY Inductive, <1>1, PTL

(* A stop of the machine at any moment leaves no torn prefix file.         *)
THEOREM NeverTornHolds == Spec => []NeverTorn
<1>1. IInv => NeverTorn
  BY Order DEF IInv, PrefixInv, DurableInv, NeverTorn, Prefixes!NeverTorn
<1> QED
  BY Inductive, <1>1, PTL

(* Every committed pair of AS name files is complete, and acceptable to a  *)
(* program compiled at the commit before it, although they are not synced. *)
THEOREM CommitAcceptableHolds == Spec => []CommitAcceptable
<1>1. IInv => CommitAcceptable
  BY DEF IInv, MetadataInv, CommitAcceptable
<1> QED
  BY Inductive, <1>1, PTL

(* LoadASNMetadata returns its own names, or those a committed manifest    *)
(* describes, whatever the sources serve.                                  *)
THEOREM LoadedWholeHolds == Spec => []LoadedWhole
<1>1. IInv => LoadedWhole
  BY DEF IInv, MetadataInv, LoadedWhole
<1> QED
  BY Inductive, <1>1, PTL

(* No step of either job replaces a list by one with less than 65% of it,  *)
(* in any state earlier runs, edits or crashes can leave.                  *)
THEOREM ShrinkProtectedHolds == Spec => ShrinkProtected
<1>1. IInv /\ [Next]_vars =>
        [\A a \in Prefixes!Asns : txt[a] \in Snapshots /\ txt'[a] # txt[a] =>
              Size[txt'[a]] * 100 >= Size[txt[a]] * 65]_(Prefixes!vars)
  BY NextKeeps, Order DEF PrefixShrink
<1>2. IInv /\ [Next]_vars =>
        [/\ job \notin Metadata!Resting /\ {snapshot, snapshot'} \subseteq Metadata!Snapshot
         /\ snapshot'.list # snapshot.list
         => Count[snapshot'.list] * 100 >= Count[snapshot.list] * 65]_(Metadata!vars)
  BY NextKeeps DEF MetadataShrink
<1> QED
  BY Inductive, <1>1, <1>2, PTL
  DEF Spec, ShrinkProtected, Prefixes!ShrinkProtected, Metadata!ShrinkProtected

(* A manifest of the prefixes, and the date of the AS names, change only   *)
(* with the list they belong to.                                           *)
THEOREM GeneratedAtKeptHolds == Spec => GeneratedAtKept
<1>1. IInv /\ [Next]_vars =>
        [\A a \in Prefixes!Asns : manifest'[a] # manifest[a] =>
              manifest'[a].of # manifest[a].of]_(Prefixes!vars)
  BY NextKeeps, Order DEF PrefixDates
<1>2. IInv /\ [Next]_vars =>
        [job \notin Metadata!Resting /\ {snapshot, snapshot'} \subseteq Metadata!Snapshot
            /\ snapshot.at # "none" =>
          snapshot' = snapshot \/ snapshot'.list # snapshot.list]_(Metadata!vars)
  BY NextKeeps DEF MetadataDates
<1> QED
  BY Inductive, <1>1, <1>2, PTL
  DEF Spec, GeneratedAtKept, Prefixes!GeneratedAtKept, Metadata!GeneratedAtKept
=============================================================================
