# A TLA+ verification project for backtrace

backtrace traces the return route of a machine to Chinese carriers: it sends
ICMP probes with growing TTL to a matrix of targets, looks up the AS of every
hop, and classifies the route. A second half of the program collects registry
and BGP evidence about one IP address. Two scheduled jobs keep the embedded
data up to date. This directory models the parts of it that are hard to test:
goroutines that share sockets, locks and channels, contexts that end at any
moment, providers that fail, and files that are replaced while machines crash.

## 1. The system

| Component | Source | State it keeps | Operations | Modelled in |
|---|---|---|---|---|
| Tracer and sessions | `bk/trace_common.go` | sockets opened once, `seq`, sessions per destination under an RWMutex, unanswered probes and a channel of 64 replies per session | `Trace`, `NewSession`, `Ping`, `isDone`, `handle`, `Close`, two serve goroutines | `Tracer` |
| Packets | `bk/trace_ipv4.go`, `trace_ipv6.go`, `listen_*.go` | none | build and parse headers, open sockets | partly, in `Tracer` |
| Hop aggregation | `bk/trace_common.go` (`TraceContext`), `bk/utils.go` (`mergeHops`) | hops of one trace | group replies, collapse the tail, merge attempts | `RouteEvidence` |
| Route report runner | `bk/route_report.go` | channels `results` and `attempts`, the reports received | `RunRouteReport`, `runRouteTarget`, `executeRouteAttempt` | `RouteReport` |
| Alternative targets | `bk/route_report.go`, `bk/utils.go`, `model/model.go` | a list cached for an hour in globals, one mutex | `refreshAlternativeTargets`, `tryAlternativeIPs` | `AlternativeTargets` |
| Classification | `bk/route_classification.go` | none | classify each attempt and the merged path, combine | `RouteEvidence` |
| ASN lookup | `bk/ipv4_asn.go`, `ipv6_asn.go` | none | pure functions of an address and the active map | `ASNLookup` |
| Prefix registry | `bk/prefix_registry.go` | the active map, an atomic pointer | `StartASNPrefixRefresh`, `LoadASNPrefixRegistry`, `fetchASNPrefixSource` | `PrefixRegistry` |
| Prefix updater | `cmd/update-prefixes/main.go` | `bk/prefix/*.txt` and their manifests | `updatePrefixes`, `writePrefixFile`, `writePrefixManifest` | `PrefixUpdater` |
| ASN metadata updater | `cmd/update-asn-metadata/main.go` | a JSON snapshot and its manifest | the same, without fsync, and a workflow that commits | `ASNMetadata` |
| IP/BGP report | `bgptools/report.go`, `relationships.go` | the report being built, a context with a timer | `QueryIPBGPReport`, `QueryASNRelationships` | `IPBGPReport` |
| RDAP, origin, WHOIS bootstrap | `bgptools/rdap.go`, `origin.go`, `whois_bootstrap.go` | none | one request each | as requests of `IPBGPReport` |
| ASN metadata | `bgptools/asn_metadata.go` | an embedded snapshot | `LoadASNMetadata` from two sources | `ASNMetadata` |
| PoP graph | `bgptools/pop.go` | the graph and the upstreams of one call | `GetPoPInfo`: download with retries, `findUpstreams` | `PopWalk` |
| Command line | `cmd/main.go`, `output.go` | goroutines and a wait group, the encrypted resolver | `main` | `CliMain` |
| Rendering, helpers, workflows | `bk/route_render.go`, `bk/backtrace.go`, `back/`, `utils/`, `.github/` | none of interest | formatting, logging, scheduling | no |

How they interact. The command line starts a route report or an IP report.
`RunRouteReport` starts the background refresh of the prefix registry and the
refresh of the alternative targets, then one goroutine per target, each with
one goroutine per attempt. All attempts call `TraceContext`, which uses the one
`DefaultTracer` of the process: every concurrent trace shares its sockets, its
session table and its identifiers, and two traces of the same target get each
other's replies. The hops of an attempt are looked up in the map the prefix
registry has active at that moment. That map comes from files which the
prefix updater, run daily by a workflow, has committed to the repository.
Without a report option the command line runs two goroutines side by side, the
upstreams of an address (`GetPoPInfo`) and the return routes (`BackTrace`, which
is `RunRouteReport` and a rendering of it), and prints both when both have ended.

What makes each part correct:

- Tracer: a request is answered at most once, by the reply it caused, in the
  trace that sent it; `max` ends as the target's distance in whatever order
  replies come; exactly the traces in progress are registered; every trace
  returns, and the serve goroutines never block on a slow trace.
- Route report: every target gets one verdict, it agrees with what its attempts
  came to, it is never taken back, the report is returned even when no trace
  is, and no goroutine is left behind.
- Hops and classification: a path is sorted, without duplicates, and keeps every
  measurement; the path most attempts took is the one shown; a premium line is
  claimed only if no attempt disputes it and one saw it too, unless the prefix
  map was replaced while hops were looked up.
- Prefix registry: only lists the repository published are used, all from one
  source and replaced at once, and any failure leaves the embedded map.
- Prefix updater: a successful run leaves every list fresh and described by its
  manifest whatever earlier runs left, no crash leaves a torn file, a list
  never shrinks below 65 percent in one step, unchanged lists cause no commit.
- Alternative targets: one download serves all reports, a failed one loses
  nothing, a list is used for an hour, and no attempt waits for it longer than
  its context lives, although reports share the list, and read it without the mutex.
- ASN metadata: what the job commits is complete and acceptable to every program
  compiled at the commit before; a program returns its own table or one that matches its manifest.
- PoP graph and command line: the upstreams are the direct ones and the ends of
  their chains; main prints complete results, leaves no encrypted resolver
  behind but on a failed report, and ends.
- IP report: it returns in bounded time, loses no failure, prefers RDAP to
  WHOIS, and says "available" only when nothing is missing.

`PROJECT.json` lists the hazards of the code, each at its line, with the
properties that guard it or the reason why none does.

## 2. The modules

Beside the operators that model the code, a module holds *variants*: operators
nothing refers to, each placed before the definition it varies (`GoneTimedOutOnly` before `Gone`,
`CollectorOverwrites` before `Kept`). They say what a plausible
mistake in the code would look like; with a variant in place of its definition
the property named next to it in `PROJECT.json` fails, which shows that
the property depends on that piece of code.

### Tracer

One element of `Sessions` is one call of `Trace`; `DestOf` gives its target.
Its program counter `pc` follows the code: `new` (NewSession), `add`
(addSession), `ping` and `append` (the two halves of `Ping`, between which a
reply may arrive), `wait` (the select of trace_common.go:78), `check` and
`recheck` (isDone), `drain` (the select of :95), `close`, `remove`,
`returned`. One serve goroutine per address family takes an arriving packet
(`Serve`), walks the sessions of its destination with the read lock (`todo`),
scans the probes of each (`Scan`: drops what has timed out, takes what
matches), and puts the reply in the channel or drops it (`Deliver`). `handle`
is split there because the session lock is released before the channel is
written.

The write lock of `addSession` and `removeSession` waits for both readers and a
waiting writer holds off new readers (`WriterWaits`), as sync.RWMutex does.
The network is the set `sent` of requests it has seen: each may be answered
never, late, several times and in any order, with any answer of `Answers`.
Time is a tick that ages probes, which saturate once they are past the timeout;
a tick does not pass a deadline that is due. Each reply carries the request
that *caused* it, a history field the code does not have and no guard reads.

`MC_Tracer` gives it two sessions of one target, or a single one of either family
with more hops.

| Run | Instance | Shows |
|---|---|---|
| `Tracer_shared` | 2 traces of one IPv4 target, 2 hops, 2 requests between them (a constraint, `FewRequests`) | `TypeOK` (hop counts stay positive), `AnsweredOnce`, `AttributedToCause`, `SessionsInProgress` |
| `Tracer_single` | 1 IPv4 trace, 3 hops, all answer orders, a channel of 2 | `NeverOverflows`, `MaxIsNearestTarget`, `DoneMeansAnswered`, and `TraceReturns`, also with a full channel and with the locks of the tracer contended |
| `Tracer_v6_done` | 1 IPv6 trace | finding: see below |

Bounds: `MaxHops`, `Count`, `Timeout`, `ChanCap` and `IdSpace` are constants. Two
sessions are what sharing needs: a third one only repeats the walk. Their two
requests, of one session or one each, are followed to their end, answered or timed
out, and a third one until it is sent; without that bound TLC does not get through
in time. Three hops
let a near target answer before, between and after farther ones, and three requests fill a
channel of two; `HasRoom` says while it need not have dropped a reply. `Timeout` 1
already separates fresh from expired probes. `IdSpace` is 8, above the number of
requests of each instance: the wrap of the 16-bit identifiers is not reached,
and `AttributedToCause` is stated up to it.

### RouteReportSpec and RouteReport

`RouteReportSpec` says what a report promises, without goroutines: each attempt
comes to an end in some way, each target is judged once from all its attempts
or given the reason the context ended, and the report is returned when all
are judged. `RouteReport` models the goroutines. `apc` is where an attempt
is (`primary`, waiting for `alternatives`, `choose` the next one, tracing an
`alternative`, `send`), `tpc` where a target goroutine is, `rpc` where
`RunRouteReport` is. The buffered channels are sets with the capacity the code
gives them. Every select that has two ready branches takes either. The
refinement mapping takes a target's verdict from `reports` once it has
arrived; `ImplementsPromise` is the abstract specification under it.

| Run | Instances (`Configs`) | Shows |
|---|---|---|
| `RouteReport` | 2 targets, one with a malformed address, 1 attempt each; or 1 target, 2 attempts, 2 candidates, of which one may be skipped | `ReportJustified`, `StopsPromptly`, `ImplementsPromise`, `ReportReturned` although no trace and no refresh need return, and `GoroutinesEnd` if they do |

A channel is a set because nothing in a verdict depends on the order of
results. One target with two attempts and two targets with one separate the
inner and the outer loop; they share only `ctx` and the refresh. The variable `config` is the
configuration of the call, chosen at the start. `GoroutinesEnd` states its
assumption itself: *if* traces and the refresh return, then every goroutine ends.

### AlternativeTargets

What `RouteReport` leaves open: where the list of alternatives comes from. `Runs` are the
route reports of one process that may run at the same time, again and again. Each has a
refresh goroutine (`pc`: the mutex, the check of the cache, the probe of each
mirror and the pause after it, the download from the mirror or directly, the
three assignments) and an attempt (`reader`). The goroutine is not part of the report: it may
outlive it, and hold the mutex into the next one. Time is a tick that ages
the cache and uses up the timeout of each report.

The attempts read the list without the mutex. Until `StoreList` and `StoreTime`
are over, a read of the slice races with its assignment, and the model lets it see
the old list, the new one, or `Torn`, the pointer of one with the length of the other.
`ReadsFresh` says when that can happen: never to an attempt whose own refresh
fetched the list, only after one that failed or that found a list which expired before it was
read. The race is real, if narrow; go's race detector would report it.

The run has two reports, two mirrors (so that one can fail before another answers) and two lists, one of
which has nothing for the target. A list is fresh for two ticks and a report takes one, so
a list can be fresh at the check and stale at the read.

| Run | Shows |
|---|---|
| `AlternativeTargets` | `ReadsFresh`, `CacheKept`, `NotRefetched`, `NobodyWaitsForEver` |

### RouteEvidence

The other half of a verdict: what `RouteReport` calls available, `RouteEvidence`
computes. `TakeReply` is the callback TraceContext gives to Trace (`Hop.Add`
under the hop of that distance), `TraceEnds` sorts and collapses and appends
the path to `paths`, and `Judge` is the end of runRouteTarget: every path and the
merged one are classified and the codes combined. The attempts share
nothing before that, so they are taken in the order in which they end. `HopsAt`
is the set of hops mergeHops may choose for a position, more than one when the map order
decides a tie; `Merges` are the paths that result. The classification is a CASE
over the positions at which an AS was seen, its conditions the branches of the code.
Which AS an address belongs to plays no part in a trace, so the target's carrier and the AS of each
node are chosen when the attempts are judged (`Readings`). `routeEvidenceFromHops` looks
up node after node, of each attempt and then of the merged path, in the map in use at
that moment, and the background refresh may replace this map, once per process. So a
reading has two maps, and `swap` is the first lookup that sees the second one: any lookup of the
report, or none (`Swaps`, `LookUp`). `taken` counts replies per attempt and
`report` keeps how its verdict was come to; the code keeps neither and no guard reads them.

`PremiumUndisputed` says what is left of "an attempt saw it" when the map is replaced in between. No
attempt disputes the line in any case. But the attempts may have been judged by the first
map, as inconclusive, and the merged path by the second, as premium, and `combineRouteClassifications` takes
that path for one more attempt. Even so the line is not of nobody: some attempt met
a router that one of the two maps assigns to its AS.

Left out: hops without an address, which TraceContext never makes; an attempt
that ends at an alternative address, whose tail is collapsed for that address;
labels, ranks and confidence, which a code determines.

| Run | Instance | Shows |
|---|---|---|
| `RouteEvidence` | 3 attempts of up to 3 replies each, in any order, lost or repeated | `PathsOrdered`, `SamplesKept`, `MajorityPathStands`, `PremiumUndisputed` |
| `RouteEvidence_conflict` | the same with 2 replies each | finding: see below |

Three attempts are the default of the code and the least with a majority.
Three replies suffice for a target that answers at two distances behind a router, for two
routers at one distance, and, when the router's reply is lost, for a path that is shifted by one. The
five readings of `MC_RouteEvidence` with one map make each carrier meet a premium
line, its ordinary line before it, and one hop of either alone; in the two others, which are tried with every
place of the replacement, the second map makes a line premium, or the first one's line another one.

### PrefixRegistry and ASNLookup

One background refresh (it is guarded by a sync.Once). `TrySource` starts a
goroutine per ASN of a source, each fetches manifest, then list, and sends its
result; the collector abandons the source at the first error and goes on to
the next, then to the embedded lists. `Publish` is a commit to the repository
at any moment; a source serves any version ever published, for the manifest and
for the list independently (caches), or something damaged. `Timeout` ends the
context of all of them.

`ASNLookup` extends `PrefixRegistry` with the lookups that happen meanwhile. `ipv6Asn` takes
the active map once, so a lookup is one step; it walks the map in any order. Of
an address and a list only the number of bits matched is kept (`Match`).
`JudgedAlike` says that the answer is the most specific match of the map in use, whatever
the order, and that it changes only with the map. `ipv4Asn` is modelled with the
octets of the address, its cases in the code's order, its prefixes as prefixes of a *text*:
`CMIN2ToldApart` compares it with the CMIN2 ranges over all 256 third
octets of the blocks around them.

The run `ASNLookup` has two ASNs, both default sources and two versions: enough
for a manifest of one version with a list of another, for one ASN that
succeeds while the other fails in either source, and for an address that belongs to
one ASN in the embedded lists, to none in the first version and to the other in the second.
It shows `OnlyPublished`, `NeverMixed`, `EmbeddedUntilLoaded`, `RefreshEnds` and `JudgedAlike`.

### PrefixUpdater, ASNMetadata and Updaters

`PrefixFiles` and `MetadataFiles` hold the constants of the two jobs and the assumptions
about them; `PrefixUpdater` and `ASNMetadata` extend them, and `Updaters` extends both.

`PrefixUpdater`: a run fetches all ASNs, then compares, writes, syncs and renames one file
after the other. Any step may fail (`Fails`), the machine may stop at any
moment (`Crash`): files renamed without having been synced may be torn
afterwards. Runs follow each other without bound; `run` is the parity of a run,
which is what `generated_at` is compared by. A rename is taken to be durable when it
returns (the code does not sync the directory; if the rename is lost the
old pair is still there). The sizes 20, 13 and 12 put a list exactly at 65 percent
of another and one just below it.

`ASNMetadata`: the job that refreshes the AS names, the workflow around it and
the program that loads them. The job writes one snapshot and one manifest, *without* syncing them
(`volatile`), so a crash may lose either; it runs by hand on what earlier runs left, or
in a fresh checkout (`RunWorkflow`), from which `Commit` takes the pair. Two sources serve
the last two commits, manifest and snapshot independently of each other, and
the snapshot possibly altered. `CommitAcceptable` joins both ends: whatever the job
commits, a program compiled at the commit before accepts. The job compares
`new * 100 < old * 65`, the loader `new < old * 65 / 100`. `generated_at` is a parity
here too, or missing, as in a snapshot edited by hand.

`Updaters` is the sum of both jobs: they share no file, so a behaviour is one of
either, and the properties are stated of both. With three lists of names (20, 12 and 8, a
minimum of 9) one list is a forbidden drop and one is below the minimum anyway; two commits are
what a loader can confuse.

| Run | Shows |
|---|---|
| `Updaters` | `CompletedRun`, `NeverTorn`, `CommitAcceptable`, `LoadedWhole`, `ShrinkProtected`, `GeneratedAtKept` |

### PopWalk and CliMain

`PopWalk` is GetPoPInfo: two requests, each with two loops of retries around it (`tries`),
then findUpstreams on the graph of the picture, one step of the walk at a time. A
graph is its nodes in the order they are drawn, its edges and two colours. `UpstreamsOfChains`
says what the walk finds without saying how: an AS's *chain* takes the only exit of each
AS; a single direct upstream lists its whole chain (which may come back to the target, then
listed as its own upstream), several list the first tier 1 AS of each chain.

`CliMain` extends it with `main`: options and their checks, the resolver and its
deferred shutdown, then a structured report or the two goroutines and the wait group.
`return` runs what was deferred, `os.Exit` does not (`Return`, `Exit`). A panic in a goroutine is
recovered by safeGo and still counted down (`TraceEnds` with no result).
`MainReturns` excepts `InRing` (see section 4), and says nothing of a run that waits for
ipinfo.io for ever (`AwaitsSite`).

`MC_CliMain` draws some 4000 graphs of four ASes with zero, one or two exits each, and a fifth AS that
closes a ring behind two direct upstreams; the graphs are walked under the default
options, all other option combinations with an address that fails at once.

| Run | Shows |
|---|---|
| `CliMain` | `UpstreamsOfChains`, `PrintedIsFinal`, `ResolverStopped`, `MainReturns` |

### IPBGPReport

`QueryIPBGPReport` as a sequence of requests, `pc` naming the one under way.
Each answers (with any part of the evidence `prefixes`, `date`, `rir`), or
fails on its own account, or because the context has ended (`FailsWith`).
`TimerFires` is cfg.Timeout; `CallerCancels` may happen at any moment. WHOIS
notices a cancellation while it dials but not afterwards, only its deadline.
`MC_IPBGPReport` leaves out configurations that differ in options which do not
meet: a WHOIS server without the fallback, and geofeeds on and off apart from the fallback (the
command line sets both by the same flag). One geofeed URL is known to the
providers: fetches follow each other and only add statuses.

| Run | Shows |
|---|---|
| `IPBGPReport` | `SuccessIsComplete`, `EvidencePrecedence`, `EverySourceAccounted`, `ReportReturns` |
| `IPBGPReport_timeout` | finding: see below |

## 3. Fairness

- `Tracer`: weak fairness of each Trace call, of each serve goroutine that has a
  reply to work on, and of time. None of the network: it may stay silent for ever.
  The runtime schedules goroutines that can run, and RWMutex does not starve
  a writer.
- `RouteReport`: the collector, the targets and the ends of the attempts are
  fair, and so is the context, whose timer always exists
  (route_report.go:108). Nothing is assumed of traces and the refresh; that they return
  is the premise of `GoroutinesEnd` alone.
- `AlternativeTargets`: the attempts run and time passes, which is strong fairness of
  `Tick` because a tick waits for attempts that are due and time does not. Nothing is assumed of
  the refreshes. That their requests end (each has 6 seconds and the context) and that a
  waiter of a sync.Mutex is not passed over for ever is the premise of the second
  half of `NobodyWaitsForEver`.
- `CliMain`: main and its goroutines go on, since their requests have timeouts; that
  BackTrace returns is `ReportReturned`. One request has none: main asks ipinfo.io with
  `http.Get` and reads the body with the default client (main.go:193 and :198). This step is not
  fair, and `MainReturns` has it as a premise that it does not last for ever. The connectivity check (given 3
  seconds) and the configuration of the resolver are calls of libraries, taken to return.
- `PrefixRegistry` and `ASNLookup`: the collector and the fetchers are fair, since the HTTP client has a
  timeout of 6 seconds of its own.
- `IPBGPReport`: the timer fires, and once the context has ended the requests
  return. Nothing else is fair: a request may hang until then.
- `Updaters` and `RouteEvidence`: none; nothing about them is a liveness property.

Deadlock is checked in every run. Where a system has a natural end the modules
have a step that keeps the final state. The type invariant of `Tracer` is checked
because a computed hop count could break it; those of the other modules
state the shape of the variables and are there to be proved from.

## 4. Findings

- `Tracer_v6_done`. `handle` lets an IPv6 reply match *every* unanswered probe
  of the session (trace_common.go:425), so one reply empties the list.
  `DoneMeansAnswered`, which is what the comment at :387 says of `isDone`, holds
  for IPv4 (`Tracer_single`) and fails for IPv6: the trace ends as done with
  requests that nothing has answered, and the distance of the hop is computed
  from the last probe, not from the one that was answered.
- `IPBGPReport_timeout`. The comment above `QueryIPBGPReport` says that
  provider failures produce a partial report and that only invalid input and
  the caller's cancellation are errors. When a provider hangs until
  cfg.Timeout, a timer the function sets itself, the function returns an error,
  and the command line prints no report.
- `RouteEvidence_conflict`. `mergeHops` aligns attempts by position, but a hop nobody
  answered is missing from a path. Two traces over X and the target T, one of
  which lost the reply of X, merge to T, T. This path is classified as if it
  were one more attempt, so a report says that "successful trace attempts
  observed conflicting backbone classes" (route_classification.go:194) when no two of
  them did. The shift needs no second map: the run asks for one
  map in all lookups. `PremiumUndisputed` holds all the same: a shifted path never makes
  a premium line by itself, it takes a line its name or makes an inconclusive one ordinary.

Known from reading and not runs of their own: `mergeHops` breaks ties by the
order of a map (utils.go:282), while the comment on `RunRouteReport` calls its
results deterministic (`Merges` has all outcomes, and the properties of `RouteEvidence` hold for each);
`findUpstreams` walks a ring of ASes for ever when there are several
direct upstreams (pop.go:297), which is why `MainReturns` excepts it: no comment
promises the contrary; a map replaced while a report is judged can turn a single class into a dynamic one,
or, as `PremiumUndisputed` allows, an inconclusive one into a premium one (ipv6_asn.go:58), and no comment promises
one map per report; the reader of the alternative list races with its writer
(utils.go:169), as `ReadsFresh` describes; three prefixes of ipv4_asn.go have no dot
at their end, so "61.14", "111.24" and "203.22" also match 61.140 to 61.149,
111.240 to 111.249 and 203.220 to 203.229 (`Begins`).

## 5. Proofs

A module `X_proofs` extends `X` and proves its safety properties for every value
of the constants: any number of traces, targets, attempts, reports, files or
sources, any lists and any answers. A theorem `PHolds` says `Spec => []P`, or `Spec => P`
where `P` is an action property. The assumptions are those the modules name
for their constants (`ASSUME ...Assumption`), and TLC evaluates each of them in a run; a
proof uses no others. Four deserve a word: `ReplyAssumption` says that the hops of a trace are
finitely many, `MarksAssumption` that the words for a lost or missing file are not
names of lists, `TimeAssumption` that a report's timeout is at most the hour a list is fresh, and
`GraphsAssumption` that a picture draws no AS twice: `findUpstreams` (pop.go:237) does not check
this and would list a card drawn twice two times, so "lists no AS twice" in `UpstreamsOfChains` rests on it.

Each proof has the same shape: an invariant `IInv` that is inductive, one lemma
per step (or group of steps) that keeps it, and the property as a
consequence. `IInv` says what the property rests on and does not mention:

- `Tracer_proofs`. `TypeOK` is inductive part by part. `AnsweredOnce` is not: nothing in it
  says that a number about to be registered was not matched before. `RequestInv`
  (what is unanswered was sent by its session, under a number already drawn, and
  no number is both being sent and registered), `MatchedInv` (what was matched was
  sent, and is unanswered no longer) and `ServeInv` (a reply is walked over sessions of its
  family) close the gap; `AttributedToCause` follows because below `IdSpace` a number
  and its identifier determine each other.
  `NeverOverflowsHolds`: the replies of a trace, reported, queued or on their way to
  the channel, map one-to-one to its requests, so they are no more than
  these. `BudgetInv` counts the requests: never more than the place the trace has
  reached in its two loops. Hence `NothingDropped`, the form the code relies on: with
  `MaxHops * Count <= ChanCap` (15 and 64) no reply is ever dropped.
  `DoneMeansAnsweredHolds`: every request sent is awaited, or answered, or given up
  (`AccountedInv`), where no reply is dropped and identifiers are distinct; `isDone` finds
  none awaited up to `max`. It assumes `V6Dests = {}`, since it fails for IPv6 (section 4), and
  `seq < IdSpace`. `SessionsInProgress` and `MaxIsNearestTarget` are inductive with the types.
- `RouteReport_proofs`. `ReportJustified` speaks of reports received, which rest on what
  waits in channels: `EndedInv` (an attempt has an outcome once it has nothing left to do but send),
  `ChannelInv` (only ended attempts are in a channel), `TargetInv` (a report in a
  channel is justified), `CollectorInv` (and is taken once). `LateInv` bounds the traces after the end of the context.
  `RefinesPromise` is the refinement: initial states map to initial states, and each
  step of a goroutine to a step of `RouteReportSpec` or to none. `TypeCorrect` is a theorem only,
  its run would show nothing else.
- `RouteEvidence_proofs`. `HopsInv` (no address twice under a distance) and `PathsInv`
  (a path is sorted by distance, without duplicates, and ends at the target) give `PathsOrdered`; `ReportInv` ties the
  codes of a report to the paths judged. `MajorityPathStands` is a pigeonhole argument: a hop
  that more than half of the paths have at a position outnumbers any other there, so
  mergeHops chooses it in whatever order its map is walked. `PremiumUndisputed` goes
  through the branches of the classification: a class is premium only when its AS was seen, and then no path
  on which this AS was seen is inconclusive (`ClassifiedByLines`); every node of the merged path is one of
  an attempt, at the same place (`MergedHops`), and without a replacement in between both are read
  in the same map (`OneMap`). `SamplesKept` needs `TakenInv`, which relates the replies a
  running trace was given to the sum over all its distances (`AtDistance`): a reply adds one to it
  (`ReplyIsCounted`), sorting drops nothing but noughts from it (`SortedCounts`), and the one hop
  the tail becomes has the sum of the tail (`CollapseCounts`).
- `AlternativeTargets_proofs`. `LockInv` (one refresh between Lock and Unlock), `StoreInv` (what
  it has assigned of the list), `StaleInv` (the list stays stale while it is fetched) and `AgeInv`
  (how far a list can age while a report that found it fresh is still running).
- `PrefixRegistry_proofs`. What lies in a result channel was fetched from its source
  in a published version (`DeliveredInv`), so the map being filled holds lists
  of the current source only (`LoadedInv`), and a map is stored last (`StoredLast`).
  `JudgedAlikeHolds` is about the lookups: after each ASN of the order the loop has kept one that is
  preferred to all it has seen (`KeptAfter`), or nothing if none matched. The induction over the order is a
  least counterexample (`LeastNumber`), which also shows that the recursive function `BestOf` exists.
  An answer given from the embedded map is the one answer that map has (`AnswerInv`, `AnswerIsUnique`).
- `Updaters_proofs`. Two invariants, one per job. `PrefixInv`: the ASNs before the
  current one are done (`DoneInv`), a file is renamed only after its sync (`TempInv`), nothing
  renamed can be lost (`DurableInv`). `MetadataInv`: what the job's checkout holds, also after a
  crash that lost one of the two files, is the last commit or a pair the program compiled at it accepts.
- `IPBGPReport_proofs`. Which sources the report lists by the time of each request (`SourceInv`), where each
  piece of evidence is from (`EvidenceInv`), and what "available" means of a source (`MeaningInv`).
- `CliMain_proofs`. The wait group counts the goroutines that have not ended (`CountsPending`), a result is there when its
  goroutine ended with one (`ResultInv`), the resolver runs as long as its shutdown is deferred (`ResolverInv`).
  `UpstreamsOfChainsHolds` needs a second invariant, `WalkInv`: behind a single direct upstream what is listed is
  closed under going beyond an AS, except at the current one (`SingleInv`); behind several the walk
  from the current AS still leads to the same end as from where it started (`ManyInv`). A chain is a least
  closed set, so that no induction along it is needed.

Left to TLC:

- liveness under fairness, which the prover does not reach, nor `ENABLED`: `TraceReturns`, `ReportReturned`,
  `GoroutinesEnd`, `RefreshEnds`, `ReportReturns`, `NobodyWaitsForEver`, `MainReturns`;
- the findings of section 4.

## 6. Plan

The modules are written, and every safety property of the passing runs, invariant or
action property, is proved.

## 7. Not modelled

- Headers, checksums and socket options (`trace_ipv4.go`, `trace_ipv6.go`,
  `listen_*.go`): bytes without state; `Tracer` keeps what a packet brings back.
  The functions `trace` and `traceIPv6` of these files are called by nothing.
- The parsing of responses in `rdap.go`, `origin.go`, `whois_bootstrap.go`, of the lists and of
  the picture of the PoP graph: a model of it would spell out text. What they may deliver is a set.
- Latencies, labels, ranks and layout: figures and words that no other step depends on.
- `route_render.go`, `output.go`, `back/`, `utils/`: formatting, a generator run by
  hand, a logger.
- Larger instances: three lists of names in `ASNMetadata` with a third commit, or three
  reports in `AlternativeTargets`, give millions of states and no new case.

## 8. Running it

    tlc -config Tracer_shared.cfg MC_Tracer
    for m in *_proofs.tla; do tlapm $m; done

Every `.cfg` names its module by its prefix: `Tracer_*` belongs to `MC_Tracer`,
`RouteEvidence_*` to `MC_RouteEvidence`, and so on. The largest proof, `Tracer_proofs`, takes
a few minutes.
