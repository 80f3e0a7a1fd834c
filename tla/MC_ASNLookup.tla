---------------------------- MODULE MC_ASNLookup ----------------------------
(* Two ASNs, both default sources and two published versions of each list. *)
(* The embedded lists match the address equally well; in the first version *)
(* published neither does, in the second one list does better.             *)
EXTENDS ASNLookup, TLC

CONSTANTS as1, as2, v1, v2

Bits == as1 :> (Embedded :> 32 @@ v1 :> -1 @@ v2 :> 32) @@ as2 :> (Embedded :> 32 @@ v1 :> -1 @@ v2 :> 48)
Names == as1 :> 1 @@ as2 :> 2
=============================================================================
