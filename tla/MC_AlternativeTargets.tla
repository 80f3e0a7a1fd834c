----------------------- MODULE MC_AlternativeTargets -----------------------
(* Two route reports, which may start again and again, two mirrors and two *)
(* lists: one with four addresses for the target, the other without any.   *)
(* A report takes a tick and a list is fresh for two.                      *)
EXTENDS AlternativeTargets

CONSTANTS r1, r2

Full == <<[matches |-> FALSE, ips |-> <<"ip">>], [matches |-> TRUE, ips |-> <<"">>],
          [matches |-> TRUE, ips |-> <<"ip", "", "ip", "ip", "ip">>]>>
Unhelpful == <<[matches |-> FALSE, ips |-> <<"ip">>]>>
TwoLists == {Full, Unhelpful}
=============================================================================
