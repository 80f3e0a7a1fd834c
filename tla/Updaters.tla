------------------------------ MODULE Updaters ------------------------------
(***************************************************************************)
(* The two scheduled jobs that maintain the data of the repository: the    *)
(* IPv6 prefixes of bk/prefix (PrefixUpdater) and the AS names of          *)
(* bgptools/data (ASNMetadata, with the program that loads them).  They    *)
(* share no file, so a behaviour is one of either, chosen at the start,    *)
(* with the other at rest.                                                 *)
(***************************************************************************)
EXTENDS PrefixFiles, MetadataFiles

VARIABLES txt, manifest, unsafe, temp, fetched, next, pc, run
VARIABLES snapshot, described, volatile, draft, entries, job, fresh, now, commits, embedded,
          loader, source, read, loaded
VARIABLE updater    \* which job this is

Prefixes == INSTANCE PrefixUpdater
Metadata == INSTANCE ASNMetadata WITH manifest <- read

prefixVars == <<txt, manifest, unsafe, temp, fetched, next, pc, run>>
metadataVars == <<snapshot, described, volatile, draft, entries, job, fresh, now, commits,
                  embedded, loader, source, read, loaded>>
vars == <<prefixVars, metadataVars, updater>>

PrefixesAtRest == Prefixes!Init /\ txt = [a \in Asns |-> Absent]

MetadataAtRest ==
    /\ embedded = CHOOSE s \in Metadata!Snapshot : s.at = "even" /\ Metadata!Parses(s, Minimum)
    /\ snapshot = Metadata!Missing /\ described = Metadata!Missing
    /\ Metadata!Init

Init ==
    \/ updater = "prefixes" /\ Prefixes!Init /\ MetadataAtRest
    \/ updater = "metadata" /\ PrefixesAtRest /\ Metadata!Init

MaintainPrefixes == updater = "prefixes" /\ Prefixes!Next /\ UNCHANGED <<metadataVars, updater>>
MaintainMetadata == updater = "metadata" /\ Metadata!Next /\ UNCHANGED <<prefixVars, updater>>

Next == MaintainPrefixes \/ MaintainMetadata

Spec == Init /\ [][Next]_vars

-----------------------------------------------------------------------------
(* A successful run of either job leaves what it fetched, with a manifest  *)
(* that describes it, whatever earlier runs or a crash left of the files:  *)
(* the pair that is committed is one the loaders accept.                   *)
CompletedRun ==
    Prefixes!CompletedRunConsistent /\ Prefixes!CompletedRunFresh /\ Metadata!CompletedRun

(* A prefix file is complete whenever the machine stops: it is synced      *)
(* before it is renamed into place.                                        *)
NeverTorn == Prefixes!NeverTorn

(* The metadata files are not synced before they are renamed, yet every    *)
(* committed pair is complete and acceptable to a program compiled at the  *)
(* commit before it.                                                       *)
CommitAcceptable == Metadata!CommitAcceptable

(* A program returns its own AS names or those a committed manifest        *)
(* describes, never a snapshot of another commit than its manifest.        *)
LoadedWhole == Metadata!LoadedWhole

(* No run of either job replaces a list by one with less than 65% of it.   *)
ShrinkProtected == Prefixes!ShrinkProtected /\ Metadata!ShrinkProtected

(* A date changes only with the list it belongs to, so a run that finds    *)
(* nothing new leaves nothing to commit.                                   *)
GeneratedAtKept == Prefixes!GeneratedAtKept /\ Metadata!GeneratedAtKept
=============================================================================
