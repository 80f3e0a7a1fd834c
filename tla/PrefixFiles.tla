---------------------------- MODULE PrefixFiles -----------------------------
(***************************************************************************)
(* The files cmd/update-prefixes/main.go keeps in bk/prefix: which ASNs    *)
(* have one and what it may hold.  PrefixUpdater is the job itself.        *)
(***************************************************************************)
EXTENDS Integers, Sequences, FiniteSets

CONSTANTS
    KnownASNs,     \* knownASNs, in the order of the code
    Snapshots,     \* prefix lists the upstream API may announce
    Size,          \* number of prefixes of each
    Absent, Torn   \* a file that does not exist, or whose data was lost

Asns == {KnownASNs[i] : i \in 1 .. Len(KnownASNs)}

ASSUME OrderAssumption == /\ KnownASNs \in Seq(Asns) /\ KnownASNs # <<>>
                          /\ \A i, j \in 1 .. Len(KnownASNs) : KnownASNs[i] = KnownASNs[j] => i = j
ASSUME SizeAssumption == Size \in [Snapshots -> Nat \ {0}]
ASSUME FileAssumption == Absent \notin Snapshots /\ Torn \notin Snapshots /\ Absent # Torn

=============================================================================
