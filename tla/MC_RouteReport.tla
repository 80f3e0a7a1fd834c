--------------------------- MODULE MC_RouteReport ---------------------------
(* Two targets with an attempt each, the address of one of them malformed, *)
(* or one target with two concurrent attempts.  An attempt has up to two   *)
(* alternatives to try, so that the context can end between them.          *)
EXTENDS RouteReport

CONSTANTS t1, t2, a1, a2

WideOrDeep == {[targets |-> {t1, t2}, attempts |-> {a1}], [targets |-> {t1}, attempts |-> {a1, a2}]}
TwoCandidates == {<<"skip", "ip">>, <<"ip", "ip">>}
=============================================================================
