----------------------------- MODULE MC_CliMain -----------------------------
(* Four ASes with most ways to leave each of them, and a fifth one that    *)
(* closes a ring behind two direct upstreams.                              *)
EXTENDS CliMain, TLC

CONSTANTS t, a, b, c, d

Fork(x) == CASE x = a -> {t, b} [] x = b -> {c, t} [] x = c -> {a, b}

Onward(x) == {{}, Fork(x)} \cup {{y} : y \in {t, a, b, c} \ {x}}

GraphsDrawn ==
    {[nodes |-> nt[1], green |-> {t}, tier1 |-> nt[2],
      edges |-> ({t} \X up) \cup ({a} \X xa) \cup ({b} \X xb) \cup ({c} \X xc)] :
        nt \in {<<t, a, b, c>>} \X {{}, {b}, {b, c}} \cup {<<<<a, t, b>>, {b}>>},
        up \in SUBSET {a, b, c}, xa \in Onward(a), xb \in Onward(b), xc \in Onward(c)}
    \cup {[nodes |-> <<t, a, b, c, d>>, green |-> {t}, tier1 |-> ts,
           edges |-> {<<t, a>>, <<t, b>>, <<a, c>>, <<c, d>>, <<d, c>>} \cup ({b} \X xb)] :
              ts \in SUBSET {c, d}, xb \in {{}, {c}, {d}}}
    \cup {[nodes |-> ns, green |-> {}, tier1 |-> {}, edges |-> {<<t, a>>}] :
             ns \in {<<>>, <<t, a>>, <<a, t>>}}

(* TLC evaluates a definition once, and a substituted constant each time.  *)
SomeGraphs == GraphsDrawn

Default ==
    [flags |-> TRUE, help |-> FALSE, showVersion |-> FALSE, showIPInfo |-> FALSE,
     ipv6 |-> FALSE, json |-> FALSE, routeJSON |-> FALSE, deep |-> FALSE,
     ip |-> "fine", dns |-> "system", timeoutOK |-> TRUE, triesOK |-> TRUE]

(* The graphs are walked for the default options only; without an address, *)
(* or with a malformed one, everything else is tried.                      *)
SomeOptions ==
    {Default}
    \cup {[Default EXCEPT !.flags = FALSE], [Default EXCEPT !.help = TRUE],
          [Default EXCEPT !.showVersion = TRUE], [Default EXCEPT !.dns = "other"],
          [Default EXCEPT !.deep = TRUE]}
    \cup {[Default EXCEPT !.ip = i, !.dns = m, !.ipv6 = v] :
             i \in {"", "malformed"}, m \in {"auto", "system", "doh", "dot"}, v \in BOOLEAN}
    \cup {[Default EXCEPT !.ip = "malformed", !.showIPInfo = TRUE]}
    \cup {[Default EXCEPT !.ip = i, !.json = j, !.routeJSON = ~j, !.deep = w, !.timeoutOK = o,
                          !.triesOK = r, !.dns = "doh"] :
             i \in {"", "fine"}, j \in BOOLEAN, w \in BOOLEAN, o \in BOOLEAN, r \in BOOLEAN}
    \cup {[Default EXCEPT !.json = TRUE, !.routeJSON = TRUE]}
=============================================================================
