---------------------------- MODULE ASNMetadata ----------------------------
(***************************************************************************)
(* The registry of AS names, from the job that refreshes it                *)
(* (cmd/update-asn-metadata/main.go) to the program that loads it          *)
(* (bgptools/asn_metadata.go).  The job replaces a snapshot and its        *)
(* manifest in a checkout, a workflow commits the pair, and two sources -  *)
(* a mirror and the repository - serve the committed files one by one,     *)
(* each of them possibly a commit old, and the snapshot possibly altered on *)
(* the way.  The program prefers a pair that matches and falls back to the *)
(* snapshot it was compiled with.                                          *)
(*                                                                         *)
(* A snapshot is the list of names it holds and when it was generated; a   *)
(* manifest is the snapshot its hash, count and date describe.             *)
(***************************************************************************)
EXTENDS MetadataFiles

(* generated_at is the run that wrote the snapshot, as the parity of its   *)
(* number; a snapshot written by hand may have none.                       *)
Snapshot == [list : Lists, at : {"none", "even", "odd"}]
Lost == [list |-> "lost", at |-> "none"]
Missing == [list |-> "missing", at |-> "none"]
File == Snapshot \cup {Lost, Missing}

VARIABLES
    snapshot,  \* bgp-asn-map.json in the checkout
    described, \* what bgp-asn-map.manifest.json beside it describes
    volatile,  \* files whose data a power failure could still lose
    draft,     \* the temporary file
    entries,   \* what fetchEntries returned
    job,       \* where the job is; "off", "ok" and "error" between runs
    fresh,     \* the workflow started the run, in a checkout of its own
    now,       \* time.Now() of the run
    commits,   \* the two latest committed pairs, the older one first
    embedded,  \* the snapshot the program was compiled with
    loader,    \* where loadASNMetadata is
    source,    \* index of the source it is trying, from 1
    manifest,  \* the manifest it fetched
    loaded     \* what it returned

updaterVars == <<snapshot, described, volatile, draft, entries, job, fresh, now>>
loaderVars == <<embedded, loader, source, manifest, loaded>>
vars == <<updaterVars, commits, loaderVars>>

NoDraft == [file |-> "none", of |-> Missing]
Resting == {"off", "ok", "error"}

TypeOK ==
    /\ snapshot \in File /\ described \in File
    /\ volatile \subseteq {"snapshot", "manifest"}
    /\ draft \in [file : {"none", "snapshot", "manifest"}, of : File]
    /\ entries \in Lists \cup {"none"}
    /\ job \in Resting \cup {"fetch", "update", "rename", "describe"}
    /\ fresh \in BOOLEAN /\ now \in {"even", "odd"}
    /\ commits \in Seq(Snapshot) /\ Len(commits) \in 1 .. 2
    /\ embedded \in Snapshot
    /\ loader \in {"idle", "manifest", "snapshot", "returned"}
    /\ source \in 1 .. NumSources
    /\ manifest \in File
    /\ loaded \in Snapshot \cup {Missing}

(* What the loader accepts: parseASNMetadataDocument and                   *)
(* validateASNMetadataManifest.                                            *)
Parses(s, minimum) == s \in Snapshot /\ s.at # "none" /\ Count[s.list] >= minimum

(* A checkout of the repository, which holds the committed snapshot, one   *)
(* edited by hand that lost its date, or none, perhaps without a manifest. *)
Init ==
    /\ embedded \in {s \in Snapshot : s.at = "even" /\ Parses(s, Minimum)}
    /\ commits = <<embedded>>
    /\ snapshot \in {embedded, [embedded EXCEPT !.at = "none"], Missing}
    /\ described \in {embedded, Missing}
    /\ volatile = {} /\ draft = NoDraft /\ entries = "none"
    /\ job = "off" /\ fresh = FALSE /\ now = "even"
    /\ loader = "idle" /\ source = 1 /\ manifest = Missing /\ loaded = Missing

-----------------------------------------------------------------------------
(* The job is started by the workflow, in a fresh checkout of the latest   *)
(* commit, or by hand on what earlier runs left.                           *)
StartRun ==
    /\ job \in Resting
    /\ job' = "fetch"
    /\ now' = IF now = "even" THEN "odd" ELSE "even"
    /\ entries' = "none"
    /\ UNCHANGED <<draft, commits, loaderVars>>

RunByHand ==
    /\ StartRun
    /\ fresh' = FALSE
    /\ UNCHANGED <<snapshot, described, volatile>>

RunWorkflow ==
    /\ StartRun
    /\ fresh' = TRUE
    /\ snapshot' = commits[Len(commits)] /\ described' = snapshot' /\ volatile' = {}

(* fetchEntries: names of one AS once, in order, and at least one.         *)
FetchEntries ==
    /\ job = "fetch"
    /\ \E l \in {k \in Lists : Count[k] > 0} : entries' = l
    /\ job' = "update"
    /\ UNCHANGED <<snapshot, described, volatile, draft, fresh, now, commits, loaderVars>>

(* Any error ends the run; the deferred os.Remove drops the draft.         *)
Fails ==
    /\ job \notin Resting
    /\ job' = "error" /\ draft' = NoDraft
    /\ UNCHANGED <<snapshot, described, volatile, entries, fresh, now, commits, loaderVars>>

(* updateSnapshot refuses a list below the minimum, a checkout without a   *)
(* readable snapshot, and a drop below 65% unless the snapshot itself is   *)
(* below the minimum.                                                      *)
NotRefusedWithoutDrop(s, l) == Count[l] >= Minimum /\ s \in Snapshot

NotRefused(s, l) ==
    /\ Count[l] >= Minimum
    /\ s \in Snapshot
    /\ Count[s.list] >= Minimum => Count[l] * 100 >= Count[s.list] * 65

(* sameEntries, and the snapshot has a date.                               *)
Same(s, l) == s.list = l /\ s.at # "none"

Refuse ==
    /\ job = "update" /\ ~NotRefused(snapshot, entries)
    /\ job' = "error"
    /\ UNCHANGED <<snapshot, described, volatile, draft, entries, fresh, now, commits, loaderVars>>

Keep ==
    /\ job = "update" /\ NotRefused(snapshot, entries) /\ Same(snapshot, entries)
    /\ job' = "describe"
    /\ UNCHANGED <<snapshot, described, volatile, draft, entries, fresh, now, commits, loaderVars>>

(* The draft is written and closed, not synced.                            *)
Write ==
    /\ job = "update" /\ NotRefused(snapshot, entries) /\ ~Same(snapshot, entries)
    /\ draft' = [file |-> "snapshot", of |-> [list |-> entries, at |-> now]]
    /\ job' = "rename"
    /\ UNCHANGED <<snapshot, described, volatile, entries, fresh, now, commits, loaderVars>>

RenameSnapshot ==
    /\ job = "rename" /\ draft.file = "snapshot"
    /\ snapshot' = draft.of /\ volatile' = volatile \cup {"snapshot"}
    /\ draft' = NoDraft /\ job' = "describe"
    /\ UNCHANGED <<described, entries, fresh, now, commits, loaderVars>>

(* writeManifest and writeAtomic: an unchanged manifest is not written.    *)
KeepManifest ==
    /\ job = "describe" /\ described = snapshot
    /\ job' = "ok"
    /\ UNCHANGED <<snapshot, described, volatile, draft, entries, fresh, now, commits, loaderVars>>

WriteManifest ==
    /\ job = "describe" /\ described # snapshot
    /\ draft' = [file |-> "manifest", of |-> snapshot]
    /\ job' = "rename"
    /\ UNCHANGED <<snapshot, described, volatile, entries, fresh, now, commits, loaderVars>>

RenameManifest ==
    /\ job = "rename" /\ draft.file = "manifest"
    /\ described' = draft.of /\ volatile' = volatile \cup {"manifest"}
    /\ draft' = NoDraft /\ job' = "ok"
    /\ UNCHANGED <<snapshot, entries, fresh, now, commits, loaderVars>>

(* The machine stops: the data of renamed files may be lost.               *)
Crash ==
    /\ \E lost \in SUBSET volatile :
          /\ snapshot' = IF "snapshot" \in lost THEN Lost ELSE snapshot
          /\ described' = IF "manifest" \in lost THEN Lost ELSE described
    /\ volatile' = {} /\ draft' = NoDraft /\ job' = "off"
    /\ UNCHANGED <<entries, fresh, now, commits, loaderVars>>

(* The workflow commits what a successful run changed.                     *)
Commit ==
    /\ job = "ok" /\ fresh /\ snapshot # commits[Len(commits)]
    /\ commits' = <<commits[Len(commits)], snapshot>>
    /\ UNCHANGED <<updaterVars, loaderVars>>

-----------------------------------------------------------------------------
(* LoadASNMetadata of a program compiled at any commit.                    *)
Load ==
    /\ loader \in {"idle", "returned"}
    /\ embedded' \in {embedded, commits[Len(commits)]}
    /\ loader' = "manifest" /\ source' = 1 /\ manifest' = Missing /\ loaded' = Missing
    /\ UNCHANGED <<updaterVars, commits>>

Served == {commits[i] : i \in DOMAIN commits}

(* The next source; after the last one the embedded snapshot is returned.  *)
NextSource ==
    /\ manifest' = Missing
    /\ IF source < NumSources
       THEN loader' = "manifest" /\ source' = source + 1 /\ UNCHANGED loaded
       ELSE loader' = "returned" /\ loaded' = embedded /\ UNCHANGED source

FetchFails ==
    /\ loader \in {"manifest", "snapshot"}
    /\ NextSource
    /\ UNCHANGED <<updaterVars, commits, embedded>>

FetchManifest ==
    /\ loader = "manifest"
    /\ manifest' \in Served
    /\ loader' = "snapshot"
    /\ UNCHANGED <<updaterVars, commits, embedded, source, loaded>>

Greater(x, y) == IF x > y THEN x ELSE y

MinimumRemote == Greater(Minimum, (Count[embedded.list] * 65) \div 100)

AcceptsUnmatched(s) == Parses(s, MinimumRemote)

Accepts(s) == Parses(s, MinimumRemote) /\ manifest = s

(* What arrives is a committed snapshot or any other that parses.          *)
FetchSnapshot ==
    /\ loader = "snapshot"
    /\ \E s \in Served \cup Snapshot :
          IF Accepts(s)
          THEN loaded' = s /\ loader' = "returned" /\ UNCHANGED <<source, manifest>>
          ELSE NextSource
    /\ UNCHANGED <<updaterVars, commits, embedded>>

Update == FetchEntries \/ Refuse \/ Keep \/ Write \/ RenameSnapshot \/ KeepManifest
          \/ WriteManifest \/ RenameManifest

Loading == FetchFails \/ FetchManifest \/ FetchSnapshot

Next == RunByHand \/ RunWorkflow \/ Update \/ Fails \/ Crash \/ Commit \/ Load \/ Loading

Spec == Init /\ [][Next]_vars

-----------------------------------------------------------------------------
(* A successful run leaves the list it fetched, dated, and a manifest that *)
(* describes it, whatever earlier runs or a crash left of the two files;   *)
(* so the loader accepts the pair that is committed.                       *)
CompletedRun ==
    job = "ok" => snapshot.list = entries /\ described = snapshot /\ Parses(snapshot, Minimum)

(* Every commit can be loaded by a program compiled at the one before: the *)
(* job and the loader agree on how far a list may shrink.                  *)
CommitAcceptable ==
    /\ \A i \in DOMAIN commits : Parses(commits[i], Minimum)
    /\ \A i \in 1 .. Len(commits) - 1 :
          Count[commits[i + 1].list] >= (Count[commits[i].list] * 65) \div 100

(* The loader returns its own snapshot or the one a committed manifest     *)
(* describes, never one that was altered or that belongs to another        *)
(* commit than its manifest, and never much less than it was compiled with.*)
LoadedWhole ==
    loader = "returned" =>
        /\ loaded = embedded \/ loaded = manifest
        /\ Count[loaded.list] >= MinimumRemote

(* No run replaces a snapshot by one with less than 65% of its names.      *)
ShrinkProtected ==
    [][/\ job \notin Resting /\ {snapshot, snapshot'} \subseteq Snapshot
       /\ snapshot'.list # snapshot.list
       => Count[snapshot'.list] * 100 >= Count[snapshot.list] * 65]_vars

(* The date changes only with the list, so a run that finds nothing new    *)
(* leaves nothing to commit.                                               *)
GeneratedAtKept ==
    [][job \notin Resting /\ {snapshot, snapshot'} \subseteq Snapshot /\ snapshot.at # "none" =>
          snapshot' = snapshot \/ snapshot'.list # snapshot.list]_vars
=============================================================================
