-------------------------- MODULE CliMain_proofs --------------------------
(***************************************************************************)
(* Proofs about CliMain, for every value of its constants: all command     *)
(* lines, and whatever graphs the site may serve.                          *)
(***************************************************************************)
EXTENDS CliMain, FiniteSetTheorems, TLAPS

(* Where main is before it starts a goroutine, and before it configures    *)
(* the resolver.                                                           *)
Unconfigured == {"parse", "check", "resolve"}
Early == Unconfigured \cup {"report", "info", "stack", "startPop"}

(* The types that matter to the goroutines, their results and the resolver.*)
GoroutineTypes ==
    /\ main \in Early \cup {"startTrace", "wait", "ended"}
    /\ pop \in {"none", "first", "sleep", "second", "gone"}
    /\ trace \in {"none", "running", "gone"}
    /\ results \in [bgp : BOOLEAN, backtrace : BOOLEAN]
    /\ running \in BOOLEAN /\ deferred \in BOOLEAN

(* The wait group counts the goroutines that have not called Done yet.     *)
PopPending == pop \in {"first", "sleep", "second"}
TracePending == trace = "running"

CountsPending ==
    /\ PopPending /\ TracePending => wg = 2
    /\ PopPending /\ ~TracePending => wg = 1
    /\ ~PopPending /\ TracePending => wg = 1
    /\ ~PopPending /\ ~TracePending => wg = 0

(* An address to look up; without one there is no goroutine for it.        *)
HasTarget == target # ""

(* Which goroutines main has started, and is waiting for.                  *)
WaitInv ==
    /\ main \in Early => pop = "none" /\ trace = "none" /\ wg = 0
    /\ main = "startPop" => HasTarget
    /\ main = "startTrace" => trace = "none"
    /\ main = "wait" => trace # "none"
    /\ main \in {"startTrace", "wait"} => CountsPending /\ (pop = "none" <=> ~HasTarget)

(* A result is there when its goroutine has ended with one.                *)
ResultInv ==
    main # "ended" =>
        /\ printed = <<>>
        /\ results.bgp <=> pop = "gone" /\ stage = "ok" /\ upstreams # <<>>

(* The resolver runs from its configuration on, and its shutdown has been  *)
(* deferred as long as it does.                                            *)
ResolverInv ==
    /\ main \in Unconfigured => ~running /\ ~deferred
    /\ main # "ended" => (running <=> deferred)
    /\ main = "report" => Structured

(* The inductive invariant of the command line.                            *)
IInv ==
    /\ GoroutineTypes /\ WaitInv /\ ResultInv /\ ResolverInv
    /\ PrintedIsFinal /\ ResolverStopped

-----------------------------------------------------------------------------
LEMMA InitInv == CliInit => IInv
<1> SUFFICES ASSUME CliInit PROVE IInv
  OBVIOUS
<1>1. GoroutineTypes
  BY DEF CliInit, GoroutineTypes, Early, Unconfigured, Nothing
<1>2. WaitInv
  BY DEF CliInit, WaitInv, Early, Unconfigured
<1>3. ResultInv /\ PrintedIsFinal
  BY DEF CliInit, ResultInv, Nothing, PrintedIsFinal
<1>4. ResolverInv /\ ResolverStopped
  BY DEF CliInit, ResolverInv, Unconfigured, ResolverStopped
<1> QED
  BY <1>1, <1>2, <1>3, <1>4 DEF IInv

(* main goes on without a goroutine: to a later place, or to its end.      *)
LEMMA EarlyStep ==
    ASSUME IInv, main \in Early, main' \in Early \cup {"startTrace", "ended"},
           UNCHANGED <<popVars, options, workVars, printed>>,
           main' = "startPop" => HasTarget',
           main' = "startTrace" => ~HasTarget',
           ResolverInv', ResolverStopped', running' \in BOOLEAN, deferred' \in BOOLEAN
    PROVE  IInv'
<1>1. UNCHANGED <<stage, upstreams, wg, pop, trace, results, printed>>
  BY DEF popVars, workVars
<1>2. pop = "none" /\ trace = "none" /\ wg = 0
  BY DEF IInv, WaitInv
<1>3. GoroutineTypes'
  BY <1>1 DEF IInv, GoroutineTypes, Early, Unconfigured
<1>4. WaitInv'
  BY <1>1, <1>2 DEF WaitInv, CountsPending, PopPending, TracePending, Early, Unconfigured
<1>5. printed = <<>> /\ ~results.bgp
  BY <1>2 DEF IInv, ResultInv, Early, Unconfigured
<1>6. ResultInv' /\ PrintedIsFinal'
  BY <1>1, <1>2, <1>5 DEF ResultInv, PrintedIsFinal
<1> QED
  BY <1>3, <1>4, <1>6 DEF IInv

LEMMA ParseKeeps ==
    ASSUME IInv, ParseOptions
    PROVE  IInv'
<1>1. main = "parse" /\ ~running /\ ~deferred
  BY DEF ParseOptions, IInv, ResolverInv, Unconfigured
<1>2. /\ UNCHANGED <<popVars, options, target, workVars, printed>>
      /\ main' \in {"ended", "resolve", "check"} /\ ~running' /\ deferred' = deferred
  BY <1>1 DEF ParseOptions, Exit, Return, resolverVars
<1>3. ResolverInv' /\ ResolverStopped'
  BY <1>1, <1>2 DEF ResolverInv, ResolverStopped
<1>4. running' \in BOOLEAN /\ deferred' \in BOOLEAN
  BY DEF IInv, GoroutineTypes, ParseOptions, Exit, Return, resolverVars
<1> QED
  BY <1>1, <1>2, <1>3, <1>4, EarlyStep DEF Early, Unconfigured

LEMMA ConfigureKeeps ==
    ASSUME IInv, ConfigureResolver
    PROVE  IInv'
<1>1. /\ main = "resolve" /\ main' \in {"report", "info"} /\ (main' = "report" => Structured)
      /\ UNCHANGED <<popVars, options, code, target, useIPv6, workVars, printed>>
  BY DEF ConfigureResolver
<1>2. PICK status \in Statuses : running' = Encrypted(status) /\ deferred' = Encrypted(status)
  BY DEF ConfigureResolver
<1>3. running' \in BOOLEAN /\ deferred' \in BOOLEAN /\ (running' <=> deferred')
  BY <1>2 DEF Encrypted
<1>4. ResolverInv' /\ ResolverStopped'
  BY <1>1, <1>3 DEF ResolverInv, ResolverStopped, Unconfigured, Structured
<1> QED
  BY <1>1, <1>3, <1>4, EarlyStep DEF Early, Unconfigured

(* main returns before it has started a goroutine, or leaves through       *)
(* os.Exit after a failed report.                                          *)
LEMMA EarlyReturnKeeps ==
    ASSUME IInv, main \in Early, Return, UNCHANGED <<popVars, options, workVars, printed>>
    PROVE  IInv'
<1>1. main' = "ended" /\ ~running' /\ deferred' = deferred
  BY DEF Return, IInv, ResolverInv, Early, Unconfigured
<1>2. ResolverInv' /\ ResolverStopped'
  BY <1>1 DEF ResolverInv, ResolverStopped, Unconfigured
<1>3. running' \in BOOLEAN /\ deferred' \in BOOLEAN
  BY DEF Return, IInv, GoroutineTypes
<1> QED
  BY <1>1, <1>2, <1>3, EarlyStep

LEMMA ReportFailsKeeps ==
    ASSUME IInv, ReportFails
    PROVE  IInv'
<1>1. /\ main = "report" /\ main' = "ended" /\ code' = 1 /\ UNCHANGED <<running, deferred>>
      /\ UNCHANGED <<popVars, options, workVars, printed>>
  BY DEF ReportFails, Exit, resolverVars
<1>2. ResolverInv' /\ ResolverStopped'
  BY <1>1 DEF IInv, ResolverInv, ResolverStopped, Unconfigured, Structured
<1>3. running' \in BOOLEAN /\ deferred' \in BOOLEAN
  BY <1>1 DEF IInv, GoroutineTypes
<1> QED
  BY <1>1, <1>2, <1>3, EarlyStep DEF Early

(* The other steps of main before it starts a goroutine.                   *)
LEMMA SetUpKeeps ==
    ASSUME IInv, CheckAccess \/ FetchInfo \/ (ChooseStack /\ ~Return)
    PROVE  IInv'
<1>1. /\ main \in {"check", "info", "stack"}
      /\ main' \in {"resolve", "stack", "startPop", "startTrace"}
      /\ main' = "resolve" <=> main = "check"
      /\ UNCHANGED <<popVars, options, workVars, printed, running, deferred>>
      /\ main' = "startPop" => HasTarget'
      /\ main' = "startTrace" => ~HasTarget'
  BY DEF CheckAccess, FetchInfo, ChooseStack, resolverVars, HasTarget
<1>2. ResolverInv' /\ ResolverStopped'
  BY <1>1 DEF IInv, ResolverInv, ResolverStopped, Unconfigured
<1>3. running' \in BOOLEAN /\ deferred' \in BOOLEAN
  BY <1>1 DEF IInv, GoroutineTypes
<1> QED
  BY <1>1, <1>2, <1>3, EarlyStep DEF Early, Unconfigured

-----------------------------------------------------------------------------
(* The resolver does not notice the goroutines.                            *)
LEMMA ResolverUntouched ==
    ASSUME IInv, main # "ended", main' # "ended", main' \notin Unconfigured \cup {"report"},
           UNCHANGED <<running, deferred>>
    PROVE  ResolverInv' /\ ResolverStopped'
BY DEF IInv, ResolverInv, ResolverStopped

LEMMA StartPopKeeps ==
    ASSUME IInv, StartPop
    PROVE  IInv'
<1>1. /\ main = "startPop" /\ main' = "startTrace" /\ wg' = wg + 1 /\ pop' = "first"
      /\ UNCHANGED <<options, running, deferred, target, HasTarget, trace, results, printed>>
  BY DEF StartPop, resolverVars, HasTarget
<1>2. pop = "none" /\ trace = "none" /\ wg = 0 /\ HasTarget /\ printed = <<>> /\ ~results.bgp
  BY <1>1 DEF IInv, WaitInv, ResultInv, Early
<1>3. GoroutineTypes'
  BY <1>1 DEF IInv, GoroutineTypes
<1>4. WaitInv'
  <2>1. CountsPending'
    BY <1>1, <1>2 DEF CountsPending, PopPending, TracePending
  <2>2. pop' = "none" <=> ~HasTarget'
    BY <1>1, <1>2
  <2> QED
    BY <1>1, <1>2, <2>1, <2>2 DEF WaitInv, Early, Unconfigured
<1>5. ResultInv' /\ PrintedIsFinal'
  BY <1>1, <1>2 DEF ResultInv, PrintedIsFinal
<1> QED
  BY <1>1, <1>3, <1>4, <1>5, ResolverUntouched DEF IInv, Unconfigured

LEMMA StartTraceKeeps ==
    ASSUME IInv, StartTrace
    PROVE  IInv'
<1>1. /\ main = "startTrace" /\ main' = "wait" /\ wg' = wg + 1 /\ trace' = "running"
      /\ UNCHANGED <<stage, upstreams, options, running, deferred, target, HasTarget, pop,
                     results, printed>>
  BY DEF StartTrace, resolverVars, popVars, HasTarget
<1>2. trace = "none" /\ CountsPending /\ (pop = "none" <=> ~HasTarget)
  BY <1>1 DEF IInv, WaitInv
<1>3. GoroutineTypes'
  BY <1>1 DEF IInv, GoroutineTypes
<1>4. WaitInv'
  <2>1. CountsPending'
    BY <1>1, <1>2 DEF CountsPending, PopPending, TracePending
  <2>2. pop' = "none" <=> ~HasTarget'
    BY <1>1, <1>2
  <2> QED
    BY <1>1, <2>1, <2>2 DEF WaitInv, Early, Unconfigured
<1>5. ResultInv' /\ PrintedIsFinal'
  BY <1>1 DEF IInv, ResultInv, PrintedIsFinal
<1> QED
  BY <1>1, <1>3, <1>4, <1>5, ResolverUntouched DEF IInv, Unconfigured

(* When the wait group is back at zero, no goroutine is left to change     *)
(* what is printed.                                                        *)
LEMMA PrintKeeps ==
    ASSUME IInv, PrintResults
    PROVE  IInv'
<1>1. /\ main = "wait" /\ wg = 0 /\ main' = "ended" /\ printed' = results
      /\ UNCHANGED <<stage, upstreams, options, target, HasTarget, deferred, wg, pop, trace,
                     results>>
      /\ running' = (running /\ ~deferred)
  BY DEF PrintResults, Return, popVars, workVars, HasTarget
<1>2. trace = "gone" /\ pop \in {"none", "gone"} /\ (pop = "none" <=> ~HasTarget)
  <2>1. CountsPending /\ trace # "none" /\ (pop = "none" <=> ~HasTarget)
    BY <1>1 DEF IInv, WaitInv
  <2>2. ~PopPending /\ ~TracePending
    BY <1>1, <2>1 DEF CountsPending
  <2> QED
    BY <2>1, <2>2 DEF IInv, GoroutineTypes, PopPending, TracePending
<1>3. results.bgp <=> pop = "gone" /\ stage = "ok" /\ upstreams # <<>>
  BY <1>1 DEF IInv, ResultInv
<1>4. GoroutineTypes'
  BY <1>1 DEF IInv, GoroutineTypes
<1>5. WaitInv' /\ ResultInv'
  BY <1>1 DEF WaitInv, ResultInv, Early, Unconfigured
<1>6. PrintedIsFinal'
  BY <1>1, <1>2, <1>3 DEF PrintedIsFinal, HasTarget
<1>7. ~running'
  BY <1>1 DEF IInv, ResolverInv
<1>8. ResolverInv' /\ ResolverStopped'
  BY <1>1, <1>7 DEF ResolverInv, ResolverStopped, Unconfigured
<1> QED
  BY <1>4, <1>5, <1>6, <1>8 DEF IInv

-----------------------------------------------------------------------------
(* A goroutine runs only while main waits for it, or is about to.          *)
LEMMA GoroutineRuns ==
    ASSUME IInv, main # "ended", pop \in {"first", "sleep", "second"} \/ trace = "running"
    PROVE  /\ main \in {"startTrace", "wait"} /\ CountsPending /\ (pop = "none" <=> ~HasTarget)
           /\ printed = <<>>
BY DEF IInv, GoroutineTypes, WaitInv, ResultInv

LEMMA PopKeeps ==
    ASSUME IInv, PopGoroutine
    PROVE  IInv'
<1>1. /\ main # "ended" /\ pop \in {"first", "sleep", "second"}
      /\ UNCHANGED <<options, main, code, running, deferred, target, HasTarget, trace, printed>>
  BY DEF PopGoroutine, PopStep, PopReturns, PopRetries, mainVars, cliVars, resolverVars,
         HasTarget
<1>2. /\ main \in {"startTrace", "wait"} /\ CountsPending /\ (pop = "none" <=> ~HasTarget)
      /\ printed = <<>> /\ ~results.bgp
  BY <1>1, GoroutineRuns DEF IInv, ResultInv
<1>3. /\ pop' \in {"first", "sleep", "second", "gone"}
      /\ wg' = IF pop' = "gone" THEN wg - 1 ELSE wg
      /\ results' \in [bgp : BOOLEAN, backtrace : BOOLEAN]
      /\ results'.bgp <=> pop' = "gone" /\ stage' = "ok" /\ upstreams' # <<>>
  <2>1. CASE PopStep
    BY <1>1, <1>2, <2>1 DEF PopStep, cliVars, IInv, GoroutineTypes
  <2>2. CASE PopRetries
    BY <1>1, <1>2, <2>2 DEF PopRetries, IInv, GoroutineTypes
  <2>3. CASE PopReturns
    <3> DEFINE found == stage = "ok" /\ upstreams # <<>>
    <3>1. /\ results' = [results EXCEPT !.bgp = found]
          /\ pop' = IF found \/ pop = "second" THEN "gone" ELSE "sleep"
          /\ wg' = IF pop' = "gone" THEN wg - 1 ELSE wg
          /\ UNCHANGED <<stage, upstreams>>
      BY <2>3 DEF PopReturns, popVars
    <3>2. found \in BOOLEAN
      OBVIOUS
    <3>3. found <=> stage' = "ok" /\ upstreams' # <<>>
      BY <3>1
    <3> HIDE DEF found
    <3>4. results' \in [bgp : BOOLEAN, backtrace : BOOLEAN] /\ results'.bgp = found
      BY <3>1, <3>2 DEF IInv, GoroutineTypes
    <3>5. pop' \in {"sleep", "gone"} /\ (found => pop' = "gone")
      BY <3>1
    <3> QED
      BY <3>1, <3>3, <3>4, <3>5
  <2> QED
    BY <2>1, <2>2, <2>3 DEF PopGoroutine
<1>4. GoroutineTypes'
  BY <1>1, <1>3 DEF IInv, GoroutineTypes
<1>5. WaitInv'
  <2>1. CountsPending'
    <3>1. PopPending /\ TracePending' = TracePending /\ (PopPending' <=> pop' # "gone")
      BY <1>1, <1>3 DEF PopPending, TracePending
    <3> QED
      BY <1>2, <1>3, <3>1 DEF CountsPending
  <2>2. pop' = "none" <=> ~HasTarget'
    BY <1>1, <1>2, <1>3
  <2>3. main' = "wait" => trace' # "none"
    BY <1>1 DEF IInv, WaitInv
  <2>4. main' = "startTrace" => trace' = "none"
    BY <1>1 DEF IInv, WaitInv
  <2> QED
    BY <1>1, <1>2, <2>1, <2>2, <2>3, <2>4 DEF WaitInv, Early, Unconfigured
<1>6. ResultInv' /\ PrintedIsFinal'
  BY <1>1, <1>2, <1>3 DEF ResultInv, PrintedIsFinal
<1> QED
  BY <1>1, <1>2, <1>4, <1>5, <1>6, ResolverUntouched DEF IInv, Unconfigured

(* BackTrace returns, or panics and is recovered.                          *)
LEMMA TraceKeeps ==
    ASSUME IInv, TraceEnds
    PROVE  IInv'
<1>1. /\ main # "ended" /\ trace = "running" /\ trace' = "gone" /\ wg' = wg - 1
      /\ UNCHANGED <<stage, upstreams, options, main, code, running, deferred, target, HasTarget,
                     pop, printed>>
  BY DEF TraceEnds, mainVars, resolverVars, popVars, HasTarget
<1>2. /\ main \in {"startTrace", "wait"} /\ CountsPending /\ (pop = "none" <=> ~HasTarget)
      /\ printed = <<>>
  BY <1>1, GoroutineRuns
<1>3. results' \in [bgp : BOOLEAN, backtrace : BOOLEAN] /\ results'.bgp = results.bgp
  BY DEF TraceEnds, IInv, GoroutineTypes
<1>4. GoroutineTypes'
  BY <1>1, <1>3 DEF IInv, GoroutineTypes
<1>5. WaitInv'
  <2>1. CountsPending'
    <3>1. PopPending' = PopPending /\ TracePending /\ ~TracePending'
      BY <1>1 DEF PopPending, TracePending
    <3> QED
      BY <1>1, <1>2, <3>1 DEF CountsPending
  <2>2. main = "wait"
    BY <1>1, <1>2 DEF IInv, WaitInv
  <2>3. pop' = "none" <=> ~HasTarget'
    BY <1>1, <1>2
  <2> QED
    BY <1>1, <2>1, <2>2, <2>3 DEF WaitInv, Early, Unconfigured
<1>6. ResultInv' /\ PrintedIsFinal'
  BY <1>1, <1>2, <1>3 DEF IInv, ResultInv, PrintedIsFinal
<1> QED
  BY <1>1, <1>2, <1>4, <1>5, <1>6, ResolverUntouched DEF IInv, Unconfigured

LEMMA SameKeeps ==
    ASSUME IInv, UNCHANGED vars
    PROVE  IInv'
<1>1. UNCHANGED <<stage, upstreams, options, main, code, running, deferred, target, HasTarget,
                  wg, pop, trace, results, printed>>
  BY DEF vars, popVars, cliVars, HasTarget
<1>2. GoroutineTypes' /\ ResultInv'
  BY <1>1 DEF IInv, GoroutineTypes, ResultInv
<1>3. WaitInv'
  <2>1. CountsPending' <=> CountsPending
    BY <1>1 DEF CountsPending, PopPending, TracePending
  <2> QED
    BY <1>1, <2>1 DEF IInv, WaitInv
<1>4. ResolverInv' /\ ResolverStopped'
  BY <1>1 DEF IInv, ResolverInv, ResolverStopped, Structured
<1>5. PrintedIsFinal'
  BY <1>1 DEF IInv, PrintedIsFinal
<1> QED
  BY <1>2, <1>3, <1>4, <1>5 DEF IInv

LEMMA NextKeeps ==
    ASSUME IInv, [CliNext]_vars
    PROVE  IInv'
<1>1. CASE ReportPrinted
  BY <1>1, EarlyReturnKeeps DEF ReportPrinted, Early
<1>2. CASE ChooseStack
  <2>1. CASE Return
    BY <1>2, <2>1, EarlyReturnKeeps DEF ChooseStack, Early
  <2> QED
    BY <1>2, <2>1, SetUpKeeps
<1>3. CASE Main
  BY <1>1, <1>2, <1>3, ParseKeeps, SetUpKeeps, ConfigureKeeps, ReportFailsKeeps, StartPopKeeps,
     StartTraceKeeps, PrintKeeps
  DEF Main
<1> QED
  BY <1>3, PopKeeps, TraceKeeps, SameKeeps DEF CliNext, Ended

LEMMA Inductive == CliSpec => []IInv
<1>1. IInv /\ [CliNext]_vars => IInv'
  BY NextKeeps
<1> QED
  BY InitInv, <1>1, PTL DEF CliSpec

-----------------------------------------------------------------------------
(* What main prints is what its goroutines came to: each of them has ended *)
(* and none can change a result any more, whatever the command line, the   *)
(* site and a panic do.                                                    *)
THEOREM PrintedIsFinalHolds == CliSpec => []PrintedIsFinal
<1>1. IInv => PrintedIsFinal
  BY DEF IInv
<1> QED
  BY Inductive, <1>1, PTL

(* Every way out of main but os.Exit after a failed report shuts down the  *)
(* encrypted resolver, and none does before main ends.                     *)
THEOREM ResolverStoppedHolds == CliSpec => []ResolverStopped
<1>1. IInv => ResolverStopped
  BY DEF IInv
<1> QED
  BY Inductive, <1>1, PTL

-----------------------------------------------------------------------------
(* The rank of a number grows with it, and every rank up to the number of  *)
(* numbers is taken: Nth is well defined.                                  *)
LEMMA RankGrows ==
    ASSUME NEW ns \in SUBSET Nat, IsFiniteSet(ns), NEW i \in ns, NEW j \in ns, i < j
    PROVE  Rank(ns, i) < Rank(ns, j)
<1> DEFINE below(x) == {y \in ns : y <= x}
<1>1. IsFiniteSet(below(i)) /\ IsFiniteSet(below(j))
  BY FS_Subset
<1>2. below(i) \in SUBSET below(j) /\ j \in below(j) /\ j \notin below(i)
  <2>1. i \in Nat /\ j \in Nat /\ \A y \in ns : y \in Nat
    OBVIOUS
  <2>2. \A y \in ns : y <= i => y <= j
    BY <2>1
  <2>3. j <= j /\ ~(j <= i)
    BY <2>1
  <2> QED
    BY <2>2, <2>3
<1> HIDE DEF below
<1>3. /\ Cardinality(below(i)) <= Cardinality(below(j))
      /\ Cardinality(below(i)) # Cardinality(below(j))
  BY <1>1, <1>2, FS_Subset
<1>4. Cardinality(below(i)) \in Nat /\ Cardinality(below(j)) \in Nat
  BY <1>1, FS_CardinalityType
<1> QED
  BY <1>3, <1>4 DEF Rank, below

LEMMA RankInRange ==
    ASSUME NEW ns \in SUBSET Nat, IsFiniteSet(ns), NEW i \in ns
    PROVE  Rank(ns, i) \in 1 .. Cardinality(ns)
<1> DEFINE below == {y \in ns : y <= i}
<1>1. below \in SUBSET ns /\ i \in below
  OBVIOUS
<1> HIDE DEF below
<1>2. IsFiniteSet(below) /\ Cardinality(below) <= Cardinality(ns)
  BY <1>1, FS_Subset
<1>3. Cardinality(below) \in Nat /\ Cardinality(ns) \in Nat
  BY <1>2, FS_CardinalityType
<1>4. Cardinality(below) # 0
  BY <1>1, <1>2, FS_EmptySet
<1> QED
  BY <1>2, <1>3, <1>4 DEF Rank, below

LEMMA NthIsBijection ==
    ASSUME NEW ns \in SUBSET Nat, IsFiniteSet(ns)
    PROVE  /\ Cardinality(ns) \in Nat
           /\ \A k \in 1 .. Cardinality(ns) : Nth(ns, k) \in ns /\ Rank(ns, Nth(ns, k)) = k
           /\ \A i \in ns : \E k \in 1 .. Cardinality(ns) : Nth(ns, k) = i
<1> DEFINE T == 1 .. Cardinality(ns)
           rank == [i \in ns |-> Rank(ns, i)]
<1>1. Cardinality(ns) \in Nat
  BY FS_CardinalityType
<1>2. IsFiniteSet(T) /\ Cardinality(T) = Cardinality(ns)
  BY <1>1, FS_Interval
<1>3. rank \in [ns -> T]
  BY RankInRange
<1>4. \A i, j \in ns : Rank(ns, i) = Rank(ns, j) => i = j
  <2> SUFFICES ASSUME NEW i \in ns, NEW j \in ns, Rank(ns, i) = Rank(ns, j), i # j
               PROVE  FALSE
    OBVIOUS
  <2>1. i < j \/ j < i
    OBVIOUS
  <2>2. Rank(ns, i) \in Nat
    BY RankInRange
  <2> QED
    BY <2>1, <2>2, RankGrows
<1>5. rank \in Injection(ns, T)
  BY <1>3, <1>4 DEF Injection, IsInjective
<1>6. rank \in Surjection(ns, T)
  BY <1>2, <1>5, FS_Injection
<1>7. ASSUME NEW k \in T PROVE Nth(ns, k) \in ns /\ Rank(ns, Nth(ns, k)) = k
  <2>1. \E i \in ns : Rank(ns, i) = k
    BY <1>6 DEF Surjection
  <2> QED
    BY <2>1 DEF Nth
<1>8. ASSUME NEW i \in ns PROVE Rank(ns, i) \in T /\ Nth(ns, Rank(ns, i)) = i
  <2>1. Rank(ns, i) \in T
    BY RankInRange
  <2> QED
    BY <1>4, <1>7, <2>1
<1> QED
  BY <1>1, <1>7, <1>8

(* The direct upstreams are drawn once each: the exits of the target that  *)
(* have a card.                                                            *)
LEMMA DirectsDrawn ==
    ASSUME NEW g \in Graphs
    PROVE  /\ DirectOf(g) \in Seq(ASNs)
           /\ \A i, j \in 1 .. Len(DirectOf(g)) : DirectOf(g)[i] = DirectOf(g)[j] => i = j
           /\ {DirectOf(g)[i] : i \in 1 .. Len(DirectOf(g))}
                 = ExitsOf(g, TargetOf(g)) \cap NodesOf(g)
<1>1. /\ g.nodes \in Seq(ASNs)
      /\ \A i, j \in DOMAIN g.nodes : g.nodes[i] = g.nodes[j] => i = j
  BY GraphsAssumption DEF Graph
<1> DEFINE exits == ExitsOf(g, TargetOf(g))
           drawn == {i \in DOMAIN g.nodes : g.nodes[i] \in exits}
           n == Cardinality(drawn)
<1>2. drawn \in SUBSET Nat /\ IsFiniteSet(drawn)
  <2>1. DOMAIN g.nodes = 1 .. Len(g.nodes) /\ Len(g.nodes) \in Nat
    BY <1>1
  <2>2. IsFiniteSet(1 .. Len(g.nodes))
    BY <2>1, FS_Interval
  <2>3. drawn \in SUBSET (1 .. Len(g.nodes))
    BY <2>1
  <2> QED
    BY <2>1, <2>2, <2>3, FS_Subset
<1>3. DirectOf(g) = [k \in 1 .. n |-> g.nodes[Nth(drawn, k)]]
  BY DEF DirectOf
<1>4. \A i \in drawn : i \in DOMAIN g.nodes /\ g.nodes[i] \in exits /\ g.nodes[i] \in ASNs
  BY <1>1
<1>5. NodesOf(g) \cap exits = {g.nodes[i] : i \in drawn}
  BY DEF NodesOf
<1> HIDE DEF exits, drawn
<1>6. /\ n \in Nat
      /\ \A k \in 1 .. n : Nth(drawn, k) \in drawn /\ Rank(drawn, Nth(drawn, k)) = k
      /\ \A i \in drawn : \E k \in 1 .. n : Nth(drawn, k) = i
  BY <1>2, NthIsBijection
<1> HIDE DEF n
<1>7. DirectOf(g) \in Seq(ASNs) /\ Len(DirectOf(g)) = n
  BY <1>3, <1>4, <1>6
<1>8. ASSUME NEW i \in 1 .. n, NEW j \in 1 .. n, DirectOf(g)[i] = DirectOf(g)[j]
      PROVE  i = j
  <2>1. g.nodes[Nth(drawn, i)] = g.nodes[Nth(drawn, j)]
    BY <1>3, <1>8
  <2>2. Nth(drawn, i) = Nth(drawn, j)
    BY <1>1, <1>4, <1>6, <2>1
  <2> QED
    BY <1>6, <2>2
<1>9. {DirectOf(g)[i] : i \in 1 .. n} = {g.nodes[i] : i \in drawn}
  <2>1. \A k \in 1 .. n : DirectOf(g)[k] \in {g.nodes[i] : i \in drawn}
    BY <1>3, <1>6
  <2>2. ASSUME NEW i \in drawn PROVE g.nodes[i] \in {DirectOf(g)[k] : k \in 1 .. n}
    BY <1>3, <1>6
  <2> QED
    BY <2>1, <2>2
<1> QED
  BY <1>5, <1>7, <1>8, <1>9 DEF exits

-----------------------------------------------------------------------------
(* Chains.  What is beyond an AS is on its chain, and nothing else is if   *)
(* that ends the chain.                                                    *)
LEMMA BeyondIsUnique ==
    ASSUME NEW e \in Beyond, NEW f \in Beyond, e[1] = f[1]
    PROVE  e[2] = f[2]
BY DEF Beyond

LEMMA BeyondOnChain ==
    ASSUME NEW e \in Beyond, NEW ends
    PROVE  e[2] \in Chain(e[1], ends)
BY DEF Chain, ClosedSets, Beyond

(* The chain goes on beyond what does not end it.                          *)
LEMMA ChainGoesOn ==
    ASSUME NEW x, NEW ends, NEW e \in Beyond, e[1] \in Chain(x, ends) \ ends
    PROVE  e[2] \in Chain(x, ends)
BY DEF Chain, ClosedSets, Beyond

(* Whatever is closed under going beyond has the chain in it.              *)
LEMMA ChainLeast ==
    ASSUME NEW x, NEW ends, NEW S \in SUBSET NodesOf(graph),
           \A e \in Beyond : e[1] = x \/ e[1] \in S \ ends => e[2] \in S
    PROVE  Chain(x, ends) \subseteq S
BY DEF Chain, ClosedSets

(* A chain that cannot go on is empty, and one that ends at once is that   *)
(* one AS.                                                                 *)
LEMMA ChainEmpty ==
    ASSUME NEW x, NEW ends, \A e \in Beyond : e[1] # x
    PROVE  Chain(x, ends) = {}
<1>1. \A f \in Beyond : f[1] = x \/ f[1] \in {} \ ends => f[2] \in {}
  OBVIOUS
<1>2. {} \in SUBSET NodesOf(graph)
  OBVIOUS
<1>3. Chain(x, ends) \subseteq {}
  BY <1>1, <1>2, ChainLeast
<1> QED
  BY <1>3

LEMMA ChainEnds ==
    ASSUME NEW ends, NEW e \in Beyond, e[2] \in ends
    PROVE  Chain(e[1], ends) = {e[2]}
<1>1. PICK S : S = {e[2]}
  OBVIOUS
<1>2. S \in SUBSET NodesOf(graph)
  BY <1>1 DEF Beyond
<1>3. \A f \in Beyond : f[1] = e[1] \/ f[1] \in S \ ends => f[2] \in S
  <2> SUFFICES ASSUME NEW f \in Beyond, f[1] = e[1] \/ f[1] \in S \ ends
               PROVE  f[2] \in S
    OBVIOUS
  <2>1. f[1] = e[1]
    BY <1>1
  <2> QED
    BY <1>1, <2>1, BeyondIsUnique
<1>4. Chain(e[1], ends) \subseteq S
  BY <1>2, <1>3, ChainLeast
<1> QED
  BY <1>1, <1>4, BeyondOnChain

(* An AS that does not end the chain may be left out: the ends are those   *)
(* of the chain from there.                                                *)
LEMMA ChainPast ==
    ASSUME NEW ends, NEW e \in Beyond, e[2] \notin ends
    PROVE  Chain(e[1], ends) \cap ends = Chain(e[2], ends) \cap ends
<1>1. PICK C : C = Chain(e[2], ends)
  OBVIOUS
<1>2. PICK D : D = Chain(e[1], ends)
  OBVIOUS
<1>3. PICK S : S = C \cup {e[2]}
  OBVIOUS
<1>4. S \in SUBSET NodesOf(graph) /\ D \in SUBSET NodesOf(graph)
  BY <1>1, <1>2, <1>3 DEF Beyond, Chain
<1>5. D \subseteq S
  <2>1. \A f \in Beyond : f[1] = e[1] \/ f[1] \in S \ ends => f[2] \in S
    <3> SUFFICES ASSUME NEW f \in Beyond, f[1] = e[1] \/ f[1] \in S \ ends
                 PROVE  f[2] \in S
      OBVIOUS
    <3>1. CASE f[1] = e[1]
      BY <1>3, <3>1, BeyondIsUnique
    <3>2. CASE f[1] = e[2]
      BY <1>1, <1>3, <3>2, BeyondOnChain
    <3>3. CASE f[1] \in C \ ends
      BY <1>1, <1>3, <3>3, ChainGoesOn
    <3> QED
      BY <1>3, <3>1, <3>2, <3>3
  <2> QED
    BY <1>2, <1>4, <2>1, ChainLeast
<1>6. C \subseteq D
  <2>1. e[2] \in D
    BY <1>2, BeyondOnChain
  <2>2. \A f \in Beyond : f[1] = e[2] \/ f[1] \in D \ ends => f[2] \in D
    BY <1>2, <2>1, ChainGoesOn
  <2> QED
    BY <1>1, <1>4, <2>2, ChainLeast
<1> QED
  BY <1>1, <1>2, <1>3, <1>5, <1>6

(* The graph does not change under the walk, nor do its chains.            *)
LEMMA SameChains ==
    ASSUME UNCHANGED graph
    PROVE  /\ Beyond' = Beyond
           /\ \A x, ends : Chain(x, ends)' = Chain(x, ends)
<1>1. Beyond' = Beyond
  BY DEF Beyond, NodesOf, ExitsOf
<1> QED
  BY <1>1 DEF Chain, ClosedSets, NodesOf

(* GoesOn: what is beyond the current AS and not listed yet.               *)
LEMMA GoingOn ==
    ASSUME graph \in Graphs, NEW a \in ASNs
    PROVE  GoesOn(a) <=> <<current, a>> \in Beyond /\ a \notin Listed
<1>1. ExitsOf(graph, current) = {a} => <<current, a>> \in graph.edges
  BY DEF ExitsOf
<1> QED
  BY <1>1 DEF GoesOn, Beyond

-----------------------------------------------------------------------------
(* The inductive invariant of the walk.  The direct upstreams come first,  *)
(* in the order they are drawn, and no AS is listed twice.                 *)
Directs == DirectOf(graph)

Drawn ==
    /\ graph \in Graphs
    /\ upstreams \in Seq(Upstream)
    /\ Len(Directs) <= Len(upstreams)
    /\ \A i \in 1 .. Len(upstreams) : upstreams[i].direct <=> i <= Len(Directs)
    /\ \A i \in 1 .. Len(Directs) : upstreams[i].asn = Directs[i]
    /\ \A i, j \in 1 .. Len(upstreams) : upstreams[i].asn = upstreams[j].asn => i = j

(* Behind a single direct upstream everything listed is on its chain, and  *)
(* only beyond the current AS there may be something that is not listed.   *)
SingleInv ==
    /\ Listed \subseteq DirectUpstreams \cup ChainASes
    /\ \A e \in Beyond :
          e[1] \in Listed => e[2] \in Listed \/ (stage = "walk" /\ e[1] = current)
    /\ stage = "walk" => current \in Listed

(* Behind several the walks that are over have listed the ends of their    *)
(* chains, and the current one has not passed its own.                     *)
ManyInv ==
    /\ Listed \subseteq DirectUpstreams \cup FirstEnds
    /\ \A i \in 1 .. Len(Directs) :
          stage = "ok" \/ i < nth => Chain(Directs[i], Ends) \cap Ends \subseteq Listed
    /\ stage = "walk" => Chain(Directs[nth], Ends) \cap Ends = Chain(current, Ends) \cap Ends

WalkInv ==
    /\ stage \notin {"walk", "ok"} => upstreams = <<>>
    /\ stage \in {"walk", "ok"} => Drawn /\ (Single => SingleInv) /\ (~Single => ManyInv)
    /\ stage = "walk" => nth \in 1 .. Len(Directs)

(* The direct upstreams are the first ones of the list.                    *)
LEMMA DirectsAre ==
    Drawn => /\ Directs \in Seq(ASNs)
             /\ DirectUpstreams = {Directs[i] : i \in 1 .. Len(Directs)}
             /\ DirectUpstreams = ExitsOf(graph, TargetOf(graph)) \cap NodesOf(graph)
             /\ Cardinality(DirectUpstreams) = Len(Directs)
             /\ DirectUpstreams \subseteq Listed
<1> SUFFICES ASSUME Drawn
             PROVE  /\ Directs \in Seq(ASNs)
                    /\ DirectUpstreams = {Directs[i] : i \in 1 .. Len(Directs)}
                    /\ DirectUpstreams = ExitsOf(graph, TargetOf(graph)) \cap NodesOf(graph)
                    /\ Cardinality(DirectUpstreams) = Len(Directs)
                    /\ DirectUpstreams \subseteq Listed
  OBVIOUS
<1>1. /\ Directs \in Seq(ASNs)
      /\ \A i, j \in 1 .. Len(Directs) : Directs[i] = Directs[j] => i = j
      /\ {Directs[i] : i \in 1 .. Len(Directs)}
            = ExitsOf(graph, TargetOf(graph)) \cap NodesOf(graph)
  BY DirectsDrawn DEF Drawn, Directs
<1>2. PICK n : n = Len(Directs)
  OBVIOUS
<1>3. n \in Nat /\ DOMAIN Directs = 1 .. n
  BY <1>1, <1>2
<1>4. PICK m : m = Len(upstreams)
  OBVIOUS
<1>5. m \in Nat /\ n <= m /\ DOMAIN upstreams = 1 .. m
  BY <1>2, <1>4 DEF Drawn
<1>6. \A i \in 1 .. m : upstreams[i].direct <=> i \in 1 .. n
  BY <1>2, <1>3, <1>4, <1>5 DEF Drawn
<1>7. {j \in DOMAIN upstreams : upstreams[j].direct} = 1 .. n
  <2>1. \A i \in 1 .. n : i \in 1 .. m
    BY <1>3, <1>5
  <2> QED
    BY <1>5, <1>6, <2>1
<1>8. \A i \in 1 .. n : upstreams[i].asn = Directs[i]
  BY <1>2 DEF Drawn
<1>9. DirectUpstreams = {Directs[i] : i \in 1 .. n}
  BY <1>7, <1>8 DEF DirectUpstreams
<1>10. Cardinality({Directs[i] : i \in 1 .. n}) = n
  <2> DEFINE D == {Directs[i] : i \in 1 .. n}
             f == [i \in 1 .. n |-> Directs[i]]
  <2>1. IsFiniteSet(1 .. n) /\ Cardinality(1 .. n) = n
    BY <1>3, FS_Interval
  <2>2. f \in Bijection(1 .. n, D)
    BY <1>1, <1>2 DEF Bijection, Injection, IsInjective, Surjection
  <2>3. ExistsBijection(1 .. n, D)
    BY <2>2 DEF ExistsBijection
  <2> QED
    BY <2>1, <2>3, FS_Bijection
<1>11. DirectUpstreams \subseteq Listed
  BY DEF DirectUpstreams, Listed
<1> QED
  BY <1>1, <1>2, <1>9, <1>10, <1>11

(* Adding an AS that is not listed.                                        *)
LEMMA ListsOnce ==
    ASSUME Drawn, NEW a \in ASNs, a \notin Listed, List(a), UNCHANGED graph
    PROVE  /\ Drawn'
           /\ Listed' = Listed \cup {a}
           /\ DirectUpstreams' = DirectUpstreams
<1>1. upstreams \in Seq(Upstream) /\ Directs' = Directs
  BY DEF Drawn, Directs
<1>2. PICK n : n = Len(Directs)
  OBVIOUS
<1>3. n \in Nat /\ n <= Len(upstreams)
  BY <1>2, DirectsAre DEF Drawn
<1>4. PICK m : m = Len(upstreams)
  OBVIOUS
<1>5. m \in Nat /\ DOMAIN upstreams = 1 .. m
  BY <1>1, <1>4
<1>6. PICK u : u = [asn |-> a, direct |-> FALSE]
  OBVIOUS
<1>7. u \in Upstream /\ u.asn = a /\ u.direct = FALSE
  BY <1>6 DEF Upstream
<1>8. upstreams' = Append(upstreams, u)
  BY <1>6 DEF List
<1>9. /\ upstreams' \in Seq(Upstream) /\ Len(upstreams') = m + 1
      /\ DOMAIN upstreams' = 1 .. m + 1
      /\ upstreams'[m + 1] = u
      /\ \A i \in 1 .. m : upstreams'[i] = upstreams[i]
  BY <1>1, <1>4, <1>7, <1>8
<1>10. \A i \in 1 .. m + 1 : i \in 1 .. m \/ i = m + 1
  BY <1>5
<1>11. \A i \in 1 .. m : i \in 1 .. m + 1 /\ i # m + 1
  BY <1>5
<1>12. \A i \in 1 .. m : upstreams[i].asn # a
  BY <1>5 DEF Listed
<1>13. n <= m /\ ~(m + 1 <= n) /\ m + 1 \in 1 .. m + 1 /\ (1 .. n) \subseteq 1 .. m
  BY <1>3, <1>4, <1>5
<1>14. Drawn'
  <2>1. \A i \in 1 .. m + 1 : upstreams'[i].direct <=> i <= n
    BY <1>2, <1>4, <1>7, <1>9, <1>10, <1>13 DEF Drawn
  <2>2. \A i \in 1 .. n : upstreams'[i].asn = Directs[i]
    BY <1>2, <1>9, <1>13 DEF Drawn
  <2>3. \A i, j \in 1 .. m + 1 : upstreams'[i].asn = upstreams'[j].asn => i = j
    BY <1>4, <1>7, <1>9, <1>10, <1>12 DEF Drawn
  <2>4. n <= m + 1
    BY <1>3, <1>5, <1>13
  <2> QED
    BY <1>1, <1>2, <1>9, <2>1, <2>2, <2>3, <2>4 DEF Drawn
<1>15. Listed' = Listed \cup {a}
  BY <1>5, <1>7, <1>9, <1>10, <1>11, <1>13 DEF Listed
<1>16. DirectUpstreams' = DirectUpstreams
  <2>1. {i \in DOMAIN upstreams' : upstreams'[i].direct}
           = {i \in DOMAIN upstreams : upstreams[i].direct}
    BY <1>5, <1>7, <1>9, <1>10, <1>11
  <2>2. \A i \in DOMAIN upstreams : upstreams'[i].asn = upstreams[i].asn
    BY <1>5, <1>9
  <2> QED
    BY <2>1, <2>2 DEF DirectUpstreams
<1> QED
  BY <1>14, <1>15, <1>16

-----------------------------------------------------------------------------
(* The parts of the promise that a step leaves alone.                      *)
LEMMA SameParts ==
    ASSUME UNCHANGED graph, DirectUpstreams' = DirectUpstreams
    PROVE  /\ Beyond' = Beyond /\ Directs' = Directs /\ Single' = Single
           /\ ChainASes' = ChainASes /\ Ends' = Ends /\ FirstEnds' = FirstEnds
           /\ \A x, ends : Chain(x, ends)' = Chain(x, ends)
<1>1. Beyond' = Beyond /\ \A x, ends : Chain(x, ends)' = Chain(x, ends)
  BY SameChains
<1>2. Directs' = Directs /\ Single' = Single /\ Ends' = Ends
  BY DEF Directs, Single, Ends
<1>3. ChainASes' = ChainASes
  BY SameChains DEF ChainASes
<1>4. FirstEnds' = FirstEnds
  BY SameChains, <1>2 DEF FirstEnds
<1> QED
  BY <1>1, <1>2, <1>3, <1>4

(* The walk starts behind the first direct upstream, if there is one.      *)
FreshWalk ==
    /\ graph \in Graphs
    /\ upstreams = [i \in DOMAIN Directs |-> [asn |-> Directs[i], direct |-> TRUE]]
    /\ IF Directs = <<>> THEN stage = "ok"
       ELSE stage = "walk" /\ nth = 1 /\ current = Directs[1]

LEMMA FreshWalkInv == FreshWalk => WalkInv
<1> SUFFICES ASSUME FreshWalk PROVE WalkInv
  OBVIOUS
<1>1. /\ Directs \in Seq(ASNs)
      /\ \A i, j \in 1 .. Len(Directs) : Directs[i] = Directs[j] => i = j
  BY DirectsDrawn DEF FreshWalk, Directs
<1>2. PICK n : n = Len(Directs)
  OBVIOUS
<1>3. n \in Nat /\ DOMAIN Directs = 1 .. n /\ (n = 0 <=> Directs = <<>>)
  BY <1>1, <1>2
<1>4. upstreams = [i \in 1 .. n |-> [asn |-> Directs[i], direct |-> TRUE]]
  BY <1>3 DEF FreshWalk
<1>5. upstreams \in Seq(Upstream) /\ Len(upstreams) = n /\ DOMAIN upstreams = 1 .. n
  BY <1>1, <1>2, <1>3, <1>4 DEF Upstream
<1>6. Drawn
  BY <1>1, <1>2, <1>3, <1>4, <1>5 DEF Drawn, FreshWalk
<1>7. /\ DirectUpstreams = {Directs[i] : i \in 1 .. n} /\ Listed = DirectUpstreams
      /\ Cardinality(DirectUpstreams) = n
  BY <1>2, <1>4, <1>5, <1>6, DirectsAre DEF Listed, DirectUpstreams
<1>8. ASSUME Single PROVE SingleInv
  <2>1. n = 1 /\ stage = "walk" /\ current = Directs[1]
    BY <1>3, <1>7, <1>8 DEF Single, FreshWalk
  <2>2. Listed = {current}
    BY <1>7, <2>1
  <2> QED
    BY <1>7, <2>1, <2>2 DEF SingleInv
<1>9. ASSUME ~Single PROVE ManyInv
  <2>1. CASE n = 0
    BY <1>2, <1>3, <1>7, <2>1 DEF ManyInv, FreshWalk
  <2>2. CASE n # 0
    <3>1. stage = "walk" /\ nth = 1 /\ current = Directs[nth]
      BY <1>3, <2>2 DEF FreshWalk
    <3>2. \A i \in 1 .. n : ~(i < nth)
      BY <1>3, <3>1
    <3> QED
      BY <1>2, <1>7, <3>1, <3>2 DEF ManyInv
  <2> QED
    BY <2>1, <2>2
<1>10. stage \in {"walk", "ok"} /\ (stage = "walk" => nth \in 1 .. n)
  BY <1>3 DEF FreshWalk
<1> QED
  BY <1>2, <1>6, <1>8, <1>9, <1>10 DEF WalkInv

(* The next direct upstream's turn, after the current one's chain has been *)
(* dealt with.                                                             *)
LEMMA TurnsKeep ==
    ASSUME WalkInv, stage = "walk", ~Single, NextDirect, UNCHANGED graph,
           Drawn', DirectUpstreams' = DirectUpstreams,
           Listed \subseteq Listed', Listed' \subseteq DirectUpstreams \cup FirstEnds,
           Chain(current, Ends) \cap Ends \subseteq Listed'
    PROVE  WalkInv'
<1>1. PICK n : n = Len(Directs)
  OBVIOUS
<1>2. Drawn /\ ManyInv /\ nth \in 1 .. n /\ Cardinality(DirectUpstreams) = n /\ n \in Nat
  BY <1>1, DirectsAre DEF WalkInv
<1>3. /\ Directs' = Directs /\ Single' = Single /\ Ends' = Ends /\ FirstEnds' = FirstEnds
      /\ \A x, ends : Chain(x, ends)' = Chain(x, ends)
  BY SameParts
<1>4. ASSUME NEW i \in 1 .. n, i <= nth
      PROVE  Chain(Directs[i], Ends) \cap Ends \subseteq Listed'
  <2>1. CASE i < nth
    BY <1>1, <1>2, <2>1 DEF ManyInv
  <2>2. CASE i = nth
    BY <1>2, <2>2 DEF ManyInv
  <2> QED
    BY <1>2, <1>4, <2>1, <2>2
<1>5. CASE nth < n
  <2>1. stage' = "walk" /\ nth' = nth + 1 /\ current' = upstreams[nth + 1].asn
    BY <1>2, <1>5 DEF NextDirect
  <2>2. nth' \in 1 .. n
    BY <1>2, <1>5, <2>1
  <2>3. current' = Directs[nth']
    BY <1>1, <1>2, <2>1, <2>2 DEF Drawn
  <2>4. \A i \in 1 .. n : i < nth' => i <= nth
    BY <1>2, <2>1
  <2>5. ManyInv'
    BY <1>1, <1>3, <1>4, <2>1, <2>3, <2>4 DEF ManyInv
  <2> QED
    BY <1>1, <1>3, <2>1, <2>2, <2>5 DEF WalkInv
<1>6. CASE ~(nth < n)
  <2>1. stage' = "ok"
    BY <1>2, <1>6 DEF NextDirect
  <2>2. \A i \in 1 .. n : i <= nth
    BY <1>2, <1>6
  <2>3. ManyInv'
    BY <1>1, <1>3, <1>4, <2>1, <2>2 DEF ManyInv
  <2> QED
    BY <1>3, <2>1, <2>3 DEF WalkInv
<1> QED
  BY <1>5, <1>6

(* Everything listed is an end of a chain, or there is only one chain.     *)
LEMMA ListedEnds ==
    ASSUME Drawn, ManyInv
    PROVE  Listed \subseteq Ends
BY DirectsAre DEF ManyInv, FirstEnds, Ends

LEMMA WalkSingleKeeps ==
    ASSUME WalkInv, NEW a \in ASNs, WalkSingle(a)
    PROVE  WalkInv'
<1>1. /\ stage = "walk" /\ stage' = "walk" /\ Single /\ Drawn /\ SingleInv
      /\ nth \in 1 .. Len(Directs) /\ GoesOn(a) /\ List(a) /\ current' = a
      /\ UNCHANGED <<graph, nth>>
  BY DEF WalkSingle, WalkInv
<1>2. a \notin Listed /\ <<current, a>> \in Beyond
  BY <1>1, GoingOn DEF Drawn
<1>3. Drawn' /\ Listed' = Listed \cup {a} /\ DirectUpstreams' = DirectUpstreams
  BY <1>1, <1>2, ListsOnce
<1>4. /\ Beyond' = Beyond /\ Directs' = Directs /\ Single' = Single /\ ChainASes' = ChainASes
  BY <1>1, <1>3, SameParts
<1>5. a \in ChainASes
  <2>1. PICK e \in Beyond : e[1] = current /\ e[2] = a
    BY <1>2
  <2>2. CASE current \in DirectUpstreams
    <3>1. a \in Chain(current, {})
      BY <2>1, BeyondOnChain
    <3> QED
      BY <2>2, <3>1 DEF ChainASes
  <2>3. CASE current \in ChainASes
    <3>1. PICK x \in DirectUpstreams : current \in Chain(x, {})
      BY <2>3 DEF ChainASes
    <3>2. e[1] \in Chain(x, {}) \ {}
      BY <2>1, <3>1
    <3>3. a \in Chain(x, {})
      BY <2>1, <3>2, ChainGoesOn
    <3> QED
      BY <3>1, <3>3 DEF ChainASes
  <2> QED
    BY <1>1, <2>2, <2>3 DEF SingleInv
<1>6. ASSUME NEW e \in Beyond, e[1] \in Listed \cup {a}
      PROVE  e[2] \in Listed \cup {a} \/ e[1] = a
  <2>1. CASE e[1] = current
    <3>1. PICK f \in Beyond : f[1] = current /\ f[2] = a
      BY <1>2
    <3>2. e[2] = a
      BY <2>1, <3>1, BeyondIsUnique
    <3> QED
      BY <3>2
  <2> QED
    BY <1>1, <1>6, <2>1 DEF SingleInv
<1>7. SingleInv'
  BY <1>1, <1>3, <1>4, <1>5, <1>6 DEF SingleInv
<1> QED
  BY <1>1, <1>3, <1>4, <1>7 DEF WalkInv

LEMMA WalkToTier1Keeps ==
    ASSUME WalkInv, NEW a \in ASNs, WalkToTier1(a)
    PROVE  WalkInv'
<1>1. /\ stage = "walk" /\ ~Single /\ Drawn /\ ManyInv /\ nth \in 1 .. Len(Directs)
      /\ GoesOn(a) /\ a \in graph.tier1 /\ List(a) /\ NextDirect /\ UNCHANGED graph
  BY DEF WalkToTier1, WalkInv
<1>2. a \notin Listed
  BY <1>1 DEF GoesOn
<1>3. PICK e \in Beyond : e[1] = current /\ e[2] = a
  BY <1>1, GoingOn DEF Drawn
<1>4. Drawn' /\ Listed' = Listed \cup {a} /\ DirectUpstreams' = DirectUpstreams
  BY <1>1, <1>2, ListsOnce
<1>5. a \in Ends
  BY <1>1 DEF Ends
<1>6. Chain(current, Ends) = {a}
  BY <1>3, <1>5, ChainEnds
<1>7. a \in FirstEnds
  <2>1. Directs[nth] \in DirectUpstreams
    BY <1>1, DirectsAre
  <2>2. a \in Chain(Directs[nth], Ends) \cap Ends
    BY <1>1, <1>5, <1>6 DEF ManyInv
  <2> QED
    BY <2>1, <2>2 DEF FirstEnds
<1>8. Listed' \subseteq DirectUpstreams \cup FirstEnds
  BY <1>1, <1>4, <1>7 DEF ManyInv
<1>9. Chain(current, Ends) \cap Ends \subseteq Listed'
  BY <1>4, <1>6
<1> QED
  BY <1>1, <1>4, <1>8, <1>9, TurnsKeep

LEMMA WalkPastKeeps ==
    ASSUME WalkInv, NEW a \in ASNs, WalkPast(a)
    PROVE  WalkInv'
<1>1. /\ stage = "walk" /\ stage' = "walk" /\ ~Single /\ Drawn /\ ManyInv
      /\ nth \in 1 .. Len(Directs) /\ GoesOn(a) /\ a \notin graph.tier1 /\ current' = a
      /\ UNCHANGED <<graph, upstreams, nth>>
  BY DEF WalkPast, WalkInv
<1>2. PICK e \in Beyond : e[1] = current /\ e[2] = a
  BY <1>1, GoingOn DEF Drawn
<1>3. a \notin Ends
  BY <1>1, DirectsAre DEF GoesOn, Ends
<1>4. Chain(current, Ends) \cap Ends = Chain(a, Ends) \cap Ends
  BY <1>2, <1>3, ChainPast
<1>5. Listed' = Listed /\ DirectUpstreams' = DirectUpstreams
  BY <1>1 DEF Listed, DirectUpstreams
<1>6. /\ Directs' = Directs /\ Single' = Single /\ Ends' = Ends /\ FirstEnds' = FirstEnds
      /\ \A x, ends : Chain(x, ends)' = Chain(x, ends)
  BY <1>1, <1>5, SameParts
<1>7. Drawn'
  BY <1>1, <1>6 DEF Drawn
<1>8. ManyInv'
  BY <1>1, <1>4, <1>5, <1>6 DEF ManyInv
<1> QED
  BY <1>1, <1>6, <1>7, <1>8 DEF WalkInv

LEMMA WalkEndsKeeps ==
    ASSUME WalkInv, WalkEnds
    PROVE  WalkInv'
<1>1. /\ stage = "walk" /\ Drawn /\ nth \in 1 .. Len(Directs) /\ NextDirect
      /\ (\A a \in ASNs : ~GoesOn(a)) /\ UNCHANGED <<graph, upstreams>>
  BY DEF WalkEnds, WalkInv
<1>2. ASSUME NEW e \in Beyond, e[1] = current PROVE e[2] \in Listed
  <2>1. e = <<e[1], e[2]>> /\ e[2] \in ASNs
    BY <1>1, GraphsAssumption DEF Beyond, Drawn, Graph
  <2> QED
    BY <1>1, <1>2, <2>1, GoingOn DEF Drawn
<1>3. Listed' = Listed /\ DirectUpstreams' = DirectUpstreams
  BY <1>1 DEF Listed, DirectUpstreams
<1>4. /\ Beyond' = Beyond /\ Directs' = Directs /\ Single' = Single /\ ChainASes' = ChainASes
  BY <1>1, <1>3, SameParts
<1>5. Drawn'
  BY <1>1, <1>4 DEF Drawn
<1>6. CASE Single
  <2>1. Cardinality(DirectUpstreams) = 1 /\ nth \in 1 .. 1
    BY <1>1, <1>6, DirectsAre DEF Single
  <2>2. stage' = "ok"
    BY <1>1, <2>1 DEF NextDirect
  <2>3. SingleInv
    BY <1>1, <1>6 DEF WalkInv
  <2>4. SingleInv'
    BY <1>2, <1>3, <1>4, <2>2, <2>3 DEF SingleInv
  <2> QED
    BY <1>4, <1>5, <1>6, <2>2, <2>4 DEF WalkInv
<1>7. CASE ~Single
  <2>1. ManyInv /\ Listed \subseteq Ends
    BY <1>1, <1>7, ListedEnds DEF WalkInv
  <2>2. Chain(current, Ends) \subseteq Listed
    <3>1. CASE \A e \in Beyond : e[1] # current
      BY <3>1, ChainEmpty
    <3>2. ASSUME NEW e \in Beyond, e[1] = current
          PROVE  Chain(current, Ends) \subseteq Listed
      <4>1. e[2] \in Listed /\ e[2] \in Ends
        BY <1>2, <2>1, <3>2
      <4>2. Chain(current, Ends) = {e[2]}
        BY <3>2, <4>1, ChainEnds
      <4> QED
        BY <4>1, <4>2
    <3> QED
      BY <3>1, <3>2
  <2> QED
    BY <1>1, <1>3, <1>5, <1>7, <2>1, <2>2, TurnsKeep DEF ManyInv
<1> QED
  BY <1>6, <1>7

(* The download, and everything before it.                                 *)
LEMMA PictureKeeps ==
    ASSUME WalkInv, PictureArrives
    PROVE  WalkInv'
<1>1. upstreams = <<>> /\ graph' \in Graphs
  BY DEF PictureArrives, WalkInv
<1>2. CASE graph'.nodes = <<>>
  <2>1. stage' = "error" /\ upstreams' = upstreams
    BY <1>2 DEF PictureArrives
  <2> QED
    BY <1>1, <2>1 DEF WalkInv
<1>3. CASE graph'.nodes # <<>>
  <2>1. Directs' = DirectOf(graph')
    BY DEF Directs
  <2>2. FreshWalk'
    BY <1>1, <1>3, <2>1 DEF PictureArrives, FreshWalk
  <2>3. FreshWalk' => WalkInv'
    BY FreshWalkInv, PTL
  <2> QED
    BY <2>2, <2>3
<1> QED
  BY <1>2, <1>3

LEMMA SameWalk ==
    ASSUME WalkInv, UNCHANGED popVars
    PROVE  WalkInv'
<1>1. UNCHANGED <<stage, graph, upstreams, nth, current>>
  BY DEF popVars
<1>2. Listed' = Listed /\ DirectUpstreams' = DirectUpstreams
  BY <1>1 DEF Listed, DirectUpstreams
<1>3. /\ Beyond' = Beyond /\ Directs' = Directs /\ Single' = Single
      /\ ChainASes' = ChainASes /\ Ends' = Ends /\ FirstEnds' = FirstEnds
      /\ \A x, ends : Chain(x, ends)' = Chain(x, ends)
  BY <1>1, <1>2, SameParts
<1>4. Drawn' = Drawn
  BY <1>1, <1>3 DEF Drawn
<1>5. SingleInv' = SingleInv
  BY <1>1, <1>2, <1>3 DEF SingleInv
<1>6. ManyInv' = ManyInv
  BY <1>1, <1>2, <1>3 DEF ManyInv
<1> QED
  BY <1>1, <1>3, <1>4, <1>5, <1>6 DEF WalkInv

LEMMA WalkNextKeeps ==
    ASSUME WalkInv, [CliNext]_vars
    PROVE  WalkInv'
<1>1. CASE UNCHANGED popVars
  BY <1>1, SameWalk
<1>2. CASE RequestFails \/ ResponseUnusable
  <2>1. stage \in {"page", "picture"} /\ stage' \in {"page", "picture", "error"}
        /\ upstreams' = upstreams
    BY <1>2 DEF RequestFails, ResponseUnusable, UseUp
  <2> QED
    BY <2>1 DEF WalkInv
<1>3. CASE PageArrives
  BY <1>3 DEF PageArrives, WalkInv
<1>4. CASE PopNext
  BY <1>2, <1>3, <1>4, PictureKeeps, WalkSingleKeeps, WalkToTier1Keeps, WalkPastKeeps,
     WalkEndsKeeps
  DEF PopNext
<1>5. ASSUME NEW valid \in BOOLEAN, Call(valid) PROVE WalkInv'
  BY <1>5 DEF Call, WalkInv
<1>6. CASE StartPop \/ PopRetries
  <2>1. (target = "fine") \in BOOLEAN
    OBVIOUS
  <2> QED
    BY <1>5, <1>6, <2>1 DEF StartPop, PopRetries
<1>7. CASE Main /\ ~StartPop
  BY <1>1, <1>7 DEF Main, ParseOptions, CheckAccess, ConfigureResolver, ReportPrinted,
     ReportFails, FetchInfo, ChooseStack, StartTrace, PrintResults
<1>8. CASE PopStep \/ PopReturns
  BY <1>1, <1>4, <1>8 DEF PopStep, PopReturns
<1>9. CASE TraceEnds \/ UNCHANGED vars
  BY <1>1, <1>9 DEF TraceEnds, vars
<1> QED
  BY <1>6, <1>7, <1>8, <1>9 DEF CliNext, Ended, PopGoroutine

-----------------------------------------------------------------------------
(* When the walk is over, what it has listed is what it promises.          *)
LEMMA WalkDelivers == WalkInv => UpstreamsOfChains
<1> SUFFICES ASSUME WalkInv PROVE UpstreamsOfChains
  OBVIOUS
<1>1. Cardinality(Listed) = Len(upstreams)
  <2>1. CASE upstreams = <<>>
    <3>1. Listed = {} /\ Len(upstreams) = 0
      BY <2>1 DEF Listed
    <3> QED
      BY <3>1, FS_EmptySet
  <2>2. CASE Drawn
    <3>1. PICK m : m = Len(upstreams)
      OBVIOUS
    <3>2. m \in Nat /\ DOMAIN upstreams = 1 .. m
      BY <2>2, <3>1 DEF Drawn
    <3>3. IsFiniteSet(1 .. m) /\ Cardinality(1 .. m) = m
      BY <3>2, FS_Interval
    <3>4. PICK f : f = [i \in 1 .. m |-> upstreams[i].asn]
      OBVIOUS
    <3>5. \A i, j \in 1 .. m : upstreams[i].asn = upstreams[j].asn => i = j
      BY <2>2, <3>1 DEF Drawn
    <3>6. f \in Bijection(1 .. m, Listed)
      BY <3>2, <3>4, <3>5 DEF Bijection, Injection, IsInjective, Surjection, Listed
    <3>7. ExistsBijection(1 .. m, Listed)
      BY <3>6 DEF ExistsBijection
    <3> QED
      BY <3>1, <3>3, <3>7, FS_Bijection
  <2> QED
    BY <2>1, <2>2 DEF WalkInv
<1>2. ASSUME stage = "ok"
      PROVE  /\ DirectUpstreams = ExitsOf(graph, TargetOf(graph)) \cap NodesOf(graph)
             /\ Listed = DirectUpstreams \cup (IF Single THEN ChainASes ELSE FirstEnds)
  <2>1. Drawn /\ (Single => SingleInv) /\ (~Single => ManyInv)
    BY <1>2 DEF WalkInv
  <2>2. /\ DirectUpstreams = {Directs[i] : i \in 1 .. Len(Directs)}
        /\ DirectUpstreams = ExitsOf(graph, TargetOf(graph)) \cap NodesOf(graph)
        /\ DirectUpstreams \subseteq Listed
    BY <2>1, DirectsAre
  <2>3. CASE Single
    <3>1. Listed \in SUBSET NodesOf(graph)
      BY <2>1, <2>2, <2>3 DEF SingleInv, ChainASes, Chain
    <3>2. ASSUME NEW x \in DirectUpstreams PROVE Chain(x, {}) \subseteq Listed
      <4>1. \A e \in Beyond : e[1] = x \/ e[1] \in Listed \ {} => e[2] \in Listed
        BY <1>2, <2>1, <2>2, <2>3 DEF SingleInv
      <4> QED
        BY <3>1, <4>1, ChainLeast
    <3>3. ChainASes \subseteq Listed
      BY <3>2 DEF ChainASes
    <3> QED
      BY <2>1, <2>2, <2>3, <3>3 DEF SingleInv
  <2>4. CASE ~Single
    <3>1. FirstEnds \subseteq Listed
      BY <1>2, <2>1, <2>2, <2>4 DEF ManyInv, FirstEnds
    <3> QED
      BY <2>1, <2>2, <2>4, <3>1 DEF ManyInv
  <2> QED
    BY <2>2, <2>3, <2>4
<1> QED
  BY <1>1, <1>2 DEF UpstreamsOfChains

(* Whatever graph the site serves, the walk lists no AS twice, the direct  *)
(* upstreams first and behind them the chain of a single one, or the first *)
(* tier 1 AS of each of several - also where chains meet or go in a ring.  *)
THEOREM UpstreamsOfChainsHolds == CliSpec => []UpstreamsOfChains
<1>1. CliInit => WalkInv
  BY DEF CliInit, PopInit, WalkInv
<1>2. WalkInv /\ [CliNext]_vars => WalkInv'
  BY WalkNextKeeps
<1> QED
  BY <1>1, <1>2, WalkDelivers, PTL DEF CliSpec
=============================================================================
