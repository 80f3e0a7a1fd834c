------------------------- MODULE MC_IPBGPReport -------------------------
(* The options of the calls: each of them on and off, with every source of *)
(* the ASN, and without a fallback no server is configured for it.         *)
EXTENDS IPBGPReport

CONSTANT feed

Varied == {c \in Config : (c.server => c.whois) /\ (c.geofeed <=> c.whois)}

Hanging == {c \in Config : c.whois /\ ~c.server /\ c.asn = "supplied"}
=============================================================================
