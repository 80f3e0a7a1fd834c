--------------------------- MODULE PrefixUpdater ---------------------------
(***************************************************************************)
(* cmd/update-prefixes/main.go: the scheduled job that refreshes the IPv6  *)
(* prefix snapshots of bk/prefix and the manifest beside each of them.  It *)
(* fetches every ASN first, then replaces one file after the other through *)
(* a temporary file, fsync and rename.  Any step may fail, the machine may *)
(* stop at any moment, and the job is run again later on what is left.     *)
(*                                                                         *)
(* A snapshot file is the prefix list it holds; a manifest is the list its *)
(* count and hash describe and the run that generated it.                  *)
(***************************************************************************)
EXTENDS PrefixFiles

VARIABLES
    txt,        \* <asn>.txt
    manifest,   \* <asn>.txt.manifest.json: [of, run]
    unsafe,     \* files whose data a power failure could still lose
    temp,       \* the temporary file being written
    fetched,    \* valuesByASN
    next,       \* index of the ASN being fetched or written
    pc,         \* where the job is; "off", "ok" and "error" between runs
    run         \* time.Now() of the run, as the parity of its number

vars == <<txt, manifest, unsafe, temp, fetched, next, pc, run>>

Content == Snapshots \cup {Absent, Torn}
NoTemp == [file |-> "none", of |-> Absent, synced |-> FALSE]
asn == KnownASNs[next]
Resting == {"off", "ok", "error"}

TypeOK ==
    /\ txt \in [Asns -> Content]
    /\ manifest \in [Asns -> [of : Content, run : BOOLEAN]]
    /\ unsafe \subseteq {"txt", "manifest"} \X Asns
    /\ temp \in [file : {"none", "txt", "manifest"}, of : Content, synced : BOOLEAN]
    /\ fetched \in [Asns -> Snapshots \cup {Absent}]
    /\ next \in 1 .. Len(KnownASNs)
    /\ pc \in Resting \cup {"fetch", "compare", "sync", "rename", "describe"}
    /\ run \in BOOLEAN

(* A checkout of the repository: each ASN has a snapshot with its manifest *)
(* or, when it is new to knownASNs, neither.                               *)
Init ==
    /\ txt \in [Asns -> Snapshots \cup {Absent}]
    /\ manifest = [a \in Asns |-> [of |-> txt[a], run |-> FALSE]]
    /\ unsafe = {} /\ temp = NoTemp /\ fetched = [a \in Asns |-> Absent]
    /\ next = 1 /\ pc = "off" /\ run = FALSE

-----------------------------------------------------------------------------
StartRun ==
    /\ pc \in Resting
    /\ pc' = "fetch" /\ next' = 1 /\ run' = ~run
    /\ fetched' = [a \in Asns |-> Absent]
    /\ UNCHANGED <<txt, manifest, unsafe, temp>>

(* On to the next ASN; after the last one, on to pc = after.               *)
NextAsn(here, after) ==
    IF next < Len(KnownASNs) THEN next' = next + 1 /\ pc' = here
    ELSE next' = 1 /\ pc' = after

Fetch ==
    /\ pc = "fetch"
    /\ \E s \in Snapshots : fetched' = [fetched EXCEPT ![asn] = s]
    /\ NextAsn("fetch", "compare")
    /\ UNCHANGED <<txt, manifest, unsafe, temp, run>>

(* Any error ends the run; the deferred os.Remove drops the temporary file. *)
Fails ==
    /\ pc \notin Resting
    /\ pc' = "error" /\ temp' = NoTemp
    /\ UNCHANGED <<txt, manifest, unsafe, fetched, next, run>>

(* writePrefixFile: errPrefixCountDrop when less than 65% would be left.   *)
DroppedToNothing(old, new) == old \in Snapshots /\ Size[new] = 0

CountDrop(old, new) == old \in Snapshots /\ Size[new] * 100 < Size[old] * 65

(* bytes.Equal(current, candidate).                                        *)
Unchanged(old, new) == old = new

KeepSnapshotOnly ==
    /\ pc = "compare"
    /\ CountDrop(txt[asn], fetched[asn]) \/ Unchanged(txt[asn], fetched[asn])
    /\ NextAsn("compare", "ok")
    /\ UNCHANGED <<txt, manifest, unsafe, temp, fetched, run>>

KeepSnapshot ==
    /\ pc = "compare"
    /\ CountDrop(txt[asn], fetched[asn]) \/ Unchanged(txt[asn], fetched[asn])
    /\ pc' = "describe"
    /\ UNCHANGED <<txt, manifest, unsafe, temp, fetched, next, run>>

WriteSnapshot ==
    /\ pc = "compare"
    /\ ~CountDrop(txt[asn], fetched[asn]) /\ ~Unchanged(txt[asn], fetched[asn])
    /\ temp' = [file |-> "txt", of |-> fetched[asn], synced |-> FALSE]
    /\ pc' = "sync"
    /\ UNCHANGED <<txt, manifest, unsafe, fetched, next, run>>

(* temporary.Sync() and Close().                                           *)
SyncMissing ==
    /\ pc = "sync"
    /\ pc' = "rename"
    /\ UNCHANGED <<txt, manifest, unsafe, temp, fetched, next, run>>

Sync ==
    /\ pc = "sync"
    /\ temp' = [temp EXCEPT !.synced = TRUE]
    /\ pc' = "rename"
    /\ UNCHANGED <<txt, manifest, unsafe, fetched, next, run>>

(* os.Rename: the file is replaced at once, by data that is on disk only   *)
(* if it was synced.                                                       *)
Replaced(file) ==
    unsafe' = IF temp.synced THEN unsafe \ {<<file, asn>>} ELSE unsafe \cup {<<file, asn>>}

RenameSnapshot ==
    /\ pc = "rename" /\ temp.file = "txt"
    /\ txt' = [txt EXCEPT ![asn] = temp.of]
    /\ Replaced("txt")
    /\ temp' = NoTemp /\ pc' = "describe"
    /\ UNCHANGED <<manifest, fetched, next, run>>

(* writePrefixManifest reads the snapshot back.  An empty one is an error. *)
Describes == manifest[asn].of = txt[asn]

KeepManifest ==
    /\ pc = "describe" /\ txt[asn] \in Snapshots /\ Describes
    /\ NextAsn("compare", "ok")
    /\ UNCHANGED <<txt, manifest, unsafe, temp, fetched, run>>

WriteManifestAlways ==
    /\ pc = "describe" /\ txt[asn] \in Snapshots
    /\ temp' = [file |-> "manifest", of |-> txt[asn], synced |-> FALSE]
    /\ pc' = "sync"
    /\ UNCHANGED <<txt, manifest, unsafe, fetched, next, run>>

WriteManifest ==
    /\ pc = "describe" /\ txt[asn] \in Snapshots /\ ~Describes
    /\ temp' = [file |-> "manifest", of |-> txt[asn], synced |-> FALSE]
    /\ pc' = "sync"
    /\ UNCHANGED <<txt, manifest, unsafe, fetched, next, run>>

RenameManifest ==
    /\ pc = "rename" /\ temp.file = "manifest"
    /\ manifest' = [manifest EXCEPT ![asn] = [of |-> temp.of, run |-> run]]
    /\ Replaced("manifest")
    /\ temp' = NoTemp
    /\ NextAsn("compare", "ok")
    /\ UNCHANGED <<txt, fetched, run>>

(* The machine stops.  Renamed files stay; data that never reached the     *)
(* disk may be lost.                                                       *)
Crash ==
    /\ \E lost \in SUBSET unsafe :
          /\ txt' = [a \in Asns |-> IF <<"txt", a>> \in lost THEN Torn ELSE txt[a]]
          /\ manifest' = [a \in Asns |-> IF <<"manifest", a>> \in lost
                                         THEN [manifest[a] EXCEPT !.of = Torn] ELSE manifest[a]]
    /\ unsafe' = {} /\ temp' = NoTemp /\ pc' = "off"
    /\ UNCHANGED <<fetched, next, run>>

Step == Fetch \/ KeepSnapshot \/ WriteSnapshot \/ Sync \/ RenameSnapshot
        \/ KeepManifest \/ WriteManifest \/ RenameManifest

Next == StartRun \/ Step \/ Fails \/ Crash

Spec == Init /\ [][Next]_vars

-----------------------------------------------------------------------------
(* The loader of bk/prefix_registry.go rejects a snapshot whose manifest   *)
(* describes another one, so what the job leaves for the commit that       *)
(* follows a successful run must be consistent - also after an earlier run *)
(* failed or the machine stopped between a snapshot and its manifest.      *)
CompletedRunConsistent ==
    pc = "ok" => \A a \in Asns : txt[a] \in Snapshots /\ manifest[a].of = txt[a]

(* A successful run leaves every ASN with what it fetched, except where    *)
(* that would have dropped too many prefixes.                              *)
CompletedRunFresh ==
    pc = "ok" => \A a \in Asns : txt[a] = fetched[a] \/ Size[fetched[a]] * 100 < Size[txt[a]] * 65

(* Whenever the machine stops, every file is complete: the old one or the  *)
(* new one (writeAtomicFile and writePrefixFile sync before they rename).  *)
NeverTorn == \A a \in Asns : txt[a] # Torn /\ manifest[a].of # Torn

(* No step, in whatever state earlier runs left the directory, replaces a  *)
(* snapshot by one with less than 65% of its prefixes.                     *)
ShrinkProtected ==
    [][\A a \in Asns : txt[a] \in Snapshots /\ txt'[a] # txt[a] =>
          Size[txt'[a]] * 100 >= Size[txt[a]] * 65]_vars

(* A manifest keeps its generated_at as long as its snapshot is unchanged: *)
(* a run that finds nothing new changes no file, so nothing is committed   *)
(* (TestWritePrefixManifestPreservesGeneratedAtWhenSnapshotIsUnchanged).   *)
GeneratedAtKept ==
    [][\A a \in Asns : manifest'[a] # manifest[a] => manifest'[a].of # manifest[a].of]_vars
=============================================================================
