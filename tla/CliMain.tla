------------------------------ MODULE CliMain ------------------------------
(***************************************************************************)
(* The command line, cmd/main.go: main checks its options, sets up the     *)
(* resolver, and runs one of two structured reports or, by default, two    *)
(* goroutines - the upstreams of an address (PopWalk) and the return       *)
(* routes - whose results it prints when both have ended.                  *)
(*                                                                         *)
(* Left out: what is printed besides the results, the hit counter that     *)
(* nothing waits for, and the prompt that waits for the Enter key on       *)
(* Windows and macOS.                                                      *)
(***************************************************************************)
EXTENDS PopWalk

CONSTANT Options    \* the command lines considered

(* Option values are kept as far as main distinguishes them: unparsable    *)
(* flags, an address that is empty, malformed or fine, a timeout and a     *)
(* number of attempts that are in range or not.                            *)
CliOptions ==
    [flags : BOOLEAN, help : BOOLEAN, showVersion : BOOLEAN, showIPInfo : BOOLEAN,
     ipv6 : BOOLEAN, json : BOOLEAN, routeJSON : BOOLEAN, deep : BOOLEAN,
     ip : {"", "malformed", "fine"}, dns : {"auto", "system", "doh", "dot", "other"},
     timeoutOK : BOOLEAN, triesOK : BOOLEAN]

ASSUME OptionsAssumption == Options \subseteq CliOptions

VARIABLES
    options,
    main,       \* where main is; "ended" when the process is gone
    code,       \* its exit status
    access,     \* preCheck.StackType; "nil" without a check
    connected,  \* preCheck.Connected
    running,    \* the process answers DNS queries through an encrypted upstream
    deferred,   \* main has deferred the shutdown of the resolver
    target,     \* targetIP
    useIPv6,
    wg,         \* counter of the wait group
    pop,        \* the goroutine that calls GetPoPInfo
    trace,      \* the goroutine that calls BackTrace
    results,    \* ConcurrentResults: what is not empty
    printed     \* history: results when main printed them

cliVars == <<options, main, code, access, connected, running, deferred, target, useIPv6,
             wg, pop, trace, results, printed>>
vars == <<popVars, cliVars>>

resolverVars == <<access, connected, running, deferred>>
workVars == <<wg, pop, trace, results>>

Nothing == [bgp |-> FALSE, backtrace |-> FALSE]

CliTypeOK ==
    /\ PopTypeOK
    /\ options \in CliOptions
    /\ main \in {"parse", "check", "resolve", "report", "info", "stack", "startPop",
                 "startTrace", "wait", "ended"}
    /\ code \in 0 .. 2
    /\ access \in {"nil", "None", "IPv4", "IPv6", "DualStack"}
    /\ connected \in BOOLEAN /\ running \in BOOLEAN /\ deferred \in BOOLEAN
    /\ target \in {"", "malformed", "fine"}
    /\ useIPv6 \in BOOLEAN
    /\ wg \in 0 .. 2
    /\ pop \in {"none", "first", "sleep", "second", "gone"}
    /\ trace \in {"none", "running", "gone"}
    /\ results \in [bgp : BOOLEAN, backtrace : BOOLEAN]
    /\ printed \in {<<>>} \cup [bgp : BOOLEAN, backtrace : BOOLEAN]

CliInit ==
    /\ PopInit
    /\ options \in Options
    /\ main = "parse" /\ code = 0
    /\ access = "nil" /\ connected = FALSE /\ running = FALSE /\ deferred = FALSE
    /\ target = "" /\ useIPv6 = FALSE
    /\ wg = 0 /\ pop = "none" /\ trace = "none"
    /\ results = Nothing /\ printed = <<>>

-----------------------------------------------------------------------------
(* main returns, and what it deferred runs; os.Exit runs nothing.          *)
ReturnForgetful ==
    /\ main' = "ended"
    /\ UNCHANGED <<code, access, connected, running, deferred>>

Return ==
    /\ main' = "ended"
    /\ running' = (running /\ ~deferred)
    /\ UNCHANGED <<code, access, connected, deferred>>

Exit(n) ==
    /\ main' = "ended" /\ code' = n
    /\ UNCHANGED resolverVars

(* validateStructuredOptions.                                              *)
ValidOptions ==
    /\ ~(options.json /\ options.routeJSON)
    /\ options.deep => options.json
    /\ options.routeJSON => options.timeoutOK /\ options.triesOK
    /\ options.json => options.ip # "" /\ options.timeoutOK

Structured == options.json \/ options.routeJSON

ParseOptions ==
    /\ main = "parse"
    /\ IF ~options.flags THEN Exit(2)
       ELSE IF options.help \/ options.showVersion THEN Return
       ELSE IF options.dns = "other" \/ ~ValidOptions THEN Exit(2)
       ELSE /\ main' = IF Structured THEN "resolve" ELSE "check"
            /\ UNCHANGED <<code, resolverVars>>
    /\ UNCHANGED <<popVars, options, target, useIPv6, workVars, printed>>

(* CheckPublicAccess (a library) probes the network, in legacy mode only.  *)
CheckAccess ==
    /\ main = "check"
    /\ access' \in {"None", "IPv4", "IPv6", "DualStack"}
    /\ connected' = (access' # "None")
    /\ main' = "resolve"
    /\ UNCHANGED <<popVars, options, code, running, deferred, target, useIPv6, workVars, printed>>

(* What resolver.Configure (a library) may make active for a mode, with    *)
(* the address family of the upstream it found.                            *)
Configured(mode) ==
    LET usable == IF mode = "auto" THEN {"system", "doh", "dot"} ELSE {mode}
    IN  [active : usable \cap {"doh", "dot"}, stack : {"", "IPv4", "IPv6"}]
        \cup [active : (usable \cap {"system"}) \cup {"unavailable"}, stack : {""}]

Encrypted(status) == status.active \in {"doh", "dot"}

Unavailable == [active |-> "unavailable", stack |-> ""]

(* configureBacktraceResolver: offline, only an encrypted mode, or auto    *)
(* mode with a reachable upstream, is configured at all.                   *)
Statuses ==
    IF access = "nil" \/ connected \/ options.dns \in {"doh", "dot"}
    THEN Configured(options.dns)
    ELSE IF options.dns = "auto" THEN Configured("auto") \cup {Unavailable}
    ELSE {Unavailable}

(* configureBacktraceResolver, promoteEncryptedDNSConnectivity and the     *)
(* deferred shutdown.                                                      *)
ConfigureResolver ==
    /\ main = "resolve"
    /\ \E status \in Statuses :
          LET promoted == access # "nil" /\ ~connected /\ Encrypted(status)
          IN  /\ running' = Encrypted(status)
              /\ deferred' = Encrypted(status)
              /\ connected' = (connected \/ promoted)
              /\ access' = IF promoted /\ status.stack # "" THEN status.stack ELSE access
    /\ main' = IF Structured THEN "report" ELSE "info"
    /\ UNCHANGED <<popVars, options, code, target, useIPv6, workVars, printed>>

(* The structured reports; an error, of the report or of standard output,  *)
(* ends in os.Exit(1).                                                     *)
ReportPrinted ==
    /\ main = "report"
    /\ Return
    /\ UNCHANGED <<popVars, options, target, useIPv6, workVars, printed>>

ReportFails ==
    /\ main = "report"
    /\ Exit(1)
    /\ UNCHANGED <<popVars, options, target, useIPv6, workVars, printed>>

(* ipinfo.io tells the public address, or nothing.  An option overrides it.*)
FetchInfo ==
    /\ main = "info"
    /\ \E found \in IF options.showIPInfo THEN {"", "fine"} ELSE {""} :
          target' = IF options.ip # "" THEN options.ip ELSE found
    /\ main' = "stack"
    /\ UNCHANGED <<popVars, options, code, resolverVars, useIPv6, workVars, printed>>

ChooseStack ==
    /\ main = "stack"
    /\ IF connected /\ access \in {"IPv4", "IPv6", "DualStack"}
       THEN /\ useIPv6' = (access = "IPv6" \/ (access = "DualStack" /\ options.ipv6))
            /\ main' = IF target # "" THEN "startPop" ELSE "startTrace"
            /\ UNCHANGED <<code, resolverVars>>
       ELSE Return /\ UNCHANGED useIPv6
    /\ UNCHANGED <<popVars, options, target, workVars, printed>>

StartPopUncounted ==
    /\ main = "startPop"
    /\ pop' = "first" /\ Call(target = "fine")
    /\ main' = "startTrace"
    /\ UNCHANGED <<options, code, resolverVars, target, useIPv6, wg, trace, results, printed>>

StartPop ==
    /\ main = "startPop"
    /\ wg' = wg + 1
    /\ pop' = "first" /\ Call(target = "fine")
    /\ main' = "startTrace"
    /\ UNCHANGED <<options, code, resolverVars, target, useIPv6, trace, results, printed>>

StartTrace ==
    /\ main = "startTrace"
    /\ wg' = wg + 1
    /\ trace' = "running"
    /\ main' = "wait"
    /\ UNCHANGED <<popVars, options, code, resolverVars, target, useIPv6, pop, results, printed>>

(* wg.Wait returns: the results are printed and main returns.              *)
PrintResults ==
    /\ main = "wait" /\ wg = 0
    /\ printed' = results
    /\ Return
    /\ UNCHANGED <<popVars, options, target, useIPv6, workVars>>

-----------------------------------------------------------------------------
mainVars == <<options, main, code, resolverVars, target, useIPv6, printed>>

(* The goroutine inside GetPoPInfo.                                        *)
PopStep ==
    /\ main # "ended" /\ pop \in {"first", "second"}
    /\ PopNext
    /\ UNCHANGED cliVars

(* GetPoPInfo returned: upstreams are kept, and the goroutine ends; a      *)
(* failed or empty result is tried once more, after three seconds.         *)
PopReturns ==
    /\ main # "ended" /\ pop \in {"first", "second"} /\ stage \in {"ok", "error"}
    /\ LET found == stage = "ok" /\ upstreams # <<>>
       IN  /\ results' = [results EXCEPT !.bgp = found]
           /\ pop' = IF found \/ pop = "second" THEN "gone" ELSE "sleep"
    /\ wg' = IF pop' = "gone" THEN wg - 1 ELSE wg
    /\ UNCHANGED <<popVars, mainVars, trace>>

PopRetries ==
    /\ main # "ended" /\ pop = "sleep"
    /\ pop' = "second" /\ Call(target = "fine")
    /\ UNCHANGED <<mainVars, wg, trace, results>>

(* BackTrace returns a table or panics; safeGo recovers, and either way    *)
(* the wait group is told.                                                 *)
DoneNotDeferred ==
    /\ main # "ended" /\ trace = "running"
    /\ trace' = "gone"
    /\ \E ok \in BOOLEAN :
          /\ results' = [results EXCEPT !.backtrace = ok]
          /\ wg' = IF ok THEN wg - 1 ELSE wg
    /\ UNCHANGED <<popVars, mainVars, pop>>

TraceEnds ==
    /\ main # "ended" /\ trace = "running"
    /\ trace' = "gone"
    /\ \E ok \in BOOLEAN : results' = [results EXCEPT !.backtrace = ok]
    /\ wg' = wg - 1
    /\ UNCHANGED <<popVars, mainVars, pop>>

Ended == main = "ended" /\ UNCHANGED vars

Main ==
    \/ ParseOptions \/ CheckAccess \/ ConfigureResolver \/ ReportPrinted \/ ReportFails
    \/ FetchInfo \/ ChooseStack \/ StartPop \/ StartTrace \/ PrintResults

PopGoroutine == PopStep \/ PopReturns \/ PopRetries

CliNext == Main \/ PopGoroutine \/ TraceEnds \/ Ended

(* main asks ipinfo.io with the default client and without a context: no   *)
(* timeout ends this request, nor the reading of its body.                 *)
AwaitsSite == main = "info" /\ options.showIPInfo

(* Every other request has a timeout, so main and its goroutines go on;    *)
(* that BackTrace returns is ReportReturned of RouteReport.                *)
CliSpec ==
    CliInit /\ [][CliNext]_vars
    /\ WF_vars(Main /\ ~AwaitsSite) /\ WF_vars(PopGoroutine) /\ WF_vars(TraceEnds)

-----------------------------------------------------------------------------
(* main prints what its goroutines came to and nothing less: a goroutine   *)
(* it started has ended, also after a panic or a second try, before the    *)
(* process is gone, and nothing changes a result that was printed.         *)
PrintedIsFinal ==
    printed # <<>> =>
        /\ printed = results
        /\ trace = "gone" /\ pop = (IF target = "" THEN "none" ELSE "gone")
        /\ results.bgp <=> target # "" /\ stage = "ok" /\ upstreams # <<>>

(* The encrypted resolver lives as long as main: whoever uses the network  *)
(* after it was configured still has it, and only a failed report, which   *)
(* leaves through os.Exit, does not shut it down.                          *)
ResolverStopped ==
    /\ main = "ended" /\ running => code = 1 /\ Structured
    /\ deferred /\ main # "ended" => running

(* The program ends, whatever the site serves and however the goroutines   *)
(* fare, unless the walk goes round a ring of ASes for ever or ipinfo.io   *)
(* neither answers nor hangs up.                                           *)
MainReturns == []<>~AwaitsSite => <>(main = "ended" \/ InRing)
=============================================================================
