--------------------------- MODULE MetadataFiles ----------------------------
(***************************************************************************)
(* What the AS name files of bgptools/data may hold and where they are     *)
(* served from (cmd/update-asn-metadata/main.go, bgptools/asn_metadata.go) *)
(***************************************************************************)
EXTENDS Integers, Sequences, FiniteSets

CONSTANTS
    Lists,       \* lists of AS names the upstream registry may publish
    Count,       \* number of names in each
    Minimum,     \* ASNMetadataMinimum, and the default of -min-count
    NumSources   \* asnMetadataSnapshotURLs

ASSUME CountAssumption == Count \in [Lists -> Nat] /\ Minimum \in Nat
ASSUME SourcesAssumption == NumSources \in Nat \ {0}
(* The marks ASNMetadata uses for a file without a list are none.          *)
ASSUME MarksAssumption == {"lost", "missing", "none"} \cap Lists = {}

=============================================================================
