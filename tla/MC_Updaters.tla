---------------------------- MODULE MC_Updaters ----------------------------
(* Two ASNs, with prefix lists of 20, 13 and 12 prefixes (13 is exactly    *)
(* 65% of 20, 12 is below) and a second list of 13; lists of 20, 12 and 8  *)
(* AS names with a minimum of 9 (the 12 would be a drop, the 8 is refused  *)
(* anyway), and two sources to load them from.                             *)
EXTENDS Updaters, TLC

CONSTANTS as1, as2, large, least, other, small
CONSTANTS full, reduced, tiny

TwoASNs == <<as1, as2>>
Sizes == large :> 20 @@ least :> 13 @@ other :> 13 @@ small :> 12
Names == full :> 20 @@ reduced :> 12 @@ tiny :> 8
=============================================================================
