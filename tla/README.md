# Verification of yabx (V2bX)

yabx is a node server for proxy panels: it asks a panel which nodes to serve and
to which users, configures one of three proxy cores accordingly, limits and meters
the users, and reports what they used. This directory holds TLA+ specifications
of its own logic, the TLC configurations that check them on small instances, and
proofs checked by TLAPS. Paths below are relative to `src/`.

Conventions: an operator keeps the name of the Go function it models where TLA+
allows it. **Operators that no action uses are mistakes the code could have made**
(a dropped guard, a missing reset); `PROJECT.json` lists, for every property, one of
them that TLC must catch. `PROJECT.json` also maps each definition to its lines.

## 1. Inventory

| Component | State | Operations | Hard behaviour | What makes it correct |
|---|---|---|---|---|
| Periodic task, `common/task/task.go` | `running`, `timer`, two mutexes | `Start`, `Close`, `checkedExecute`, `fire` | a body closes and starts its own task; a timer that has expired cannot be stopped; restart while a body runs | bodies never overlap; a running task always has somebody to run it; a closed one dies out |
| Traffic accounting, `node/user.go`, `api/panel/user.go`, `core/*/user.go`, `common/counter` | counters per user and direction, what a round holds, the usage behind the dynamic limit | the report round, push with endpoints in turn, restore, user diff | counters are zeroed when read; pushes fail or their answers are lost; traffic and user changes meanwhile | no usage lost, none due twice, all billed in the end |
| Node controller, `node/controller.go`, `node/task.go` | configuration, users, tag, limiter, tasks | `Start`, `nodeInfoMonitor`, `retryNodeReload`, `Close` | a reload is eight calls, each of which may fail; two caches of "not modified"; `Close` from another goroutine | what was pulled is adopted, a half applied reload is retried, nothing leaks, it settles on the panel |
| Panel client, `api/panel` | ETags, body hashes, the endpoint that worked | `GetNodeInfo`, `GetUserList`, `ReportUserTraffic`, ... | a cache is updated before the content is applied; many spellings of the same field | see controller; security and transport as asked |
| Connection limiter, `limiter/conn.go` | connections and addresses per user | `AddConnCount`, `DelConnCount`, `ClearOnlineIP` | load and store of `sync.Map` in two steps; rejections after a slot was taken | slots are exact, limits hold |
| Node limiter and online registry, `limiter/limiter.go`, `online_registry.go` | user limits, device window, old devices, references | `CheckLimit`, `UpdateUser`, `UpdateDynamicSpeedLimit`, `GetOnlineDevice`, registry `Add`/`Del`/`Sweep` | all of them concurrently, per connection | references exact, nobody pinned online, no user forgotten, rejected devices not remembered |
| Connection dispatch, `core/xray/app/dispatcher/default.go`, `core/sing/hook.go`, `limiter/rule.go` | what a connection carries from its acceptance to its end; the rules of a limiter | `getLink`, `wrapLink`, `Dispatch`, `routedDispatch`, `RoutedConnection`, `UpdateRule` | a reload takes limiter, rules, inbound and outbound away one by one and puts new ones up under the same tag | slots go back where they came from; new connections are metered, see whole rules and leave by their own outbound |
| Selector, `core/selector.go` | cores by configuration, node table | `Start`, `AddNode`, `DelNode`, `Close` | cores are created lazily, on first use | a second core is started only when needed |
| Cores, `core/xray`, `core/sing`, `core/hy2` | inbounds, users, counters | `AddNode`, `DelNode`, `AddUsers`, `DelUsers`, `GetUserTrafficSlice` | the same node is built by three pieces of code; steps that fail half way; panics | same inbound on each, never weaker than asked, no panic on a good node |
| Server process, `cmd/server.go`, `conf/watch.go`, `node/node.go` | configuration, Selector, nodes | `runServer`, `Watch`, reload, `Node.Start`, `Node.Close` | reloads in goroutines of their own that may overlap; events that are dropped; partial failure | all nodes or none, one set of cores, the file is served in the end |
| Certificates, `node/cert.go`, `node/lego.go` | files | `requestCert`, renewal | network, files | a TLS node has its files or does not start |
| Online report, `node/user.go`, `node/task.go`, `api/panel/user.go` | `lastOnlineUIDs`, the registry's window, the push interval | `reportUserTrafficTask`, `trackOnlineTransition`, `applyOnlineTTL`, `ReportNodeOnlineUsers` | a failed report has already advanced its state; tag, users, limiter and interval are replaced under it | no device forgotten between two reports; the panel shows who is there in the end |
| Split command, `cmd/split.go` | files it writes | `buildSplitConfigs`, `runSplit` | failures half way and second runs; a second copy of the Selector's rules; names made unique | no two nodes share a file; every node keeps its core |
| Configuration, `conf`, `common/json5` | the `Conf` | parse, in place | a file that is decoded half way | what a reload gets of it: see the process; JSON5 itself is not modelled |
| Host tools, `cmd`, `common/exec`, ... | none | command line, service, clock | I/O | not modelled |

Interactions: the process owns the Selector and one controller per node; a
controller owns its periodic tasks, its panel client and its limiter, and changes
the core through the Selector; the dispatcher of a core calls the limiter for every
connection and adds to the counters that the report task reads. Goroutines that meet:
bodies of the tasks, timers, reloads of the configuration, connections.

## 2. Modules

| Module | Models | State and actions |
|---|---|---|
| `PeriodicTask` | the task, one step per critical section of `access`, `execMu` explicit | `running`, `timer`, `execMu`, `pc` per goroutine (callers, and timers that become goroutines when they expire); calls may come from outside and from the body |
| `TrafficReport` | counters of the three cores, report round, push, restore, user diff, reload, the Selector's table, speed checker | per tag, user and direction: `counter`, `hand` (the round); `phase` per user; `table` says which tags can be read and restored to; ground truth: `used`, `acked`, `billed` (what the panel adds up, lost answers included); history: `removed`, `dropped` (restores that found no node), `restored` |
| `BillingLedger` | the abstract promise: a byte is due once; a report settles and bills part of what is due; one without an answer may be billed and stays due; what is due may be lost | refined by `TrafficReport` with `due` (counters and hand), `settled <- acked`, `billed` and, as `doubts`, the failed pushes |
| `NodeController` | controller, caches of the panel client, Selector table, limiter registry | one action per call of `Start`, of the reload and of the user diff that another goroutine can see; failure of each is an alternative |
| `ConnLimiter` | `limiter/conn.go` for one user | every `Load`, `Store`, `Range` and `Delete` is a step of a call or of the sweep; the address map is a value that is created and dropped, and a call goes on with the one it found; a connection may be rejected later by `checkLimit`; `raced` remembers that a step wrote over something its own call had not seen |
| `Dispatch` (extends `ConnLimiter`) | connections through the dispatcher of xray or the hook of sing, beside a reload | per connection a stage, the inbound that took it in, the limiter and the rules it saw, its exit; `ReloadOrder` is the order of the reload's steps; `ConnLimiter` is the limiter that outlives the reload |
| `OnlineReport` | registry (as the age of every device), online report, the jittered wait for the next, the reload as the report sees it | time in ticks of a minute; tag, user list and limiter are known by the reload they came with; `pace` says how a report and the wait after it fit the window |
| `Limiter` | `limiter.go` and the registry | `CheckLimit` in its steps, the hooks of the cores, user changes, throttling and its expiry, window rotation, alive list and its failure, sweep |
| `NodeInbound` | from the panel's answer to an inbound: decoding, certificate, `AddNode` and `DelNode` of the three cores, retries, late start of naive | of every string only whether it is there and decodes; results are security, transport, ECH, VLESS decryption, or error, or panic; `left` is the inbound or socket that a failed `AddNode` left open, `Collect` the garbage collector that closes some of these |
| `Conf` | what decoding a configuration file leaves, and the spellings of a core's type | constants only, for `Server` and `SplitConfig` |
| `Server` | process: startup, watch, reload, Selector with lazy cores, `Node.Start` and `Close`, signal | `pc` per goroutine (1 is `runServer`, the others are reloads); Selectors by the goroutine that made them; a file may be half decoded; it is written in place or by rename, which ends the watch; making a core, adding a node, deleting one from a closed core and closing a nil core may panic (`cause`) |
| `SplitConfig` | the split command | names and core choice as functions, `runSplit` one file operation at a time; one that fails may leave its file half written |
| `SplitServer` (extends `Server`, `SplitConfig`) | a process on the configuration, or on one of the files that a split, whole or failed, has written | `Split`, `Boot`, then `Server` |
| `PeriodicTaskProofs`, `TrafficReportProofs`, `NodeControllerProofs`, `LimiterProofs`, `OnlineReportProofs`, `NodeInboundProofs` | the theorems about the module of that name | section 4 |
| `DispatchProofs` | the theorems about `ConnLimiter` and `Dispatch` | |
| `SplitServerProofs` | the theorems about the split command, and about `Server` for a process on a configuration or on a split one (`SplitServer`) | |
| `MC*` | instances: functions, sets of cases, symmetry | |

A controller appears twice: in `NodeController` with its steps, in `Server` as what
it registers and takes away. A failing `Controller.Start` has in `Server` the
outcomes that `NodeController` has (nothing; limiter; limiter and core; limiter and
node) and the panic that `NodeInbound` has. `OnlineReport` and `Dispatch` have a reload of their own, with the steps that reports
and connections can tell apart. The body of a task is serialized in `NodeController` because `PeriodicTask`
shows that it is (proved, see `BodiesNeverOverlap`).

## 3. Runs

All bounds are constants named in the modules.

| Run | Shows | Bounds |
|---|---|---|
| `task` | every interleaving of two callers and four timers: bodies serialized, handle never dangling, loop carried on; loop keeps running, dies out when closed, calls return | 5 calls: close, start, close, start around a firing timer and one more; four timers suffice for two that were lost sight of |
| `traffic` | the counters of the three cores through a failed push, missing endpoints, a user change and a reload that may change the tag and fail half way: nothing due twice, ledger implemented, throttling earned; with xray's counters nothing lost and all billed, but what a restore dropped | 1 user, 2 bytes, 2 endpoints, 1 failed push, 1 change, 1 failing step of the monitor; users are independent of each other in the code |
| `node` | start, reload, diff, close, named and unnamed: caches never hide what was not applied, limiters follow users and tags, nothing leaks, it settles on the panel | 1 user with 2 attributes, 2 configurations with a tag each, 2 changes, 2 failures anywhere |
| `node_user_list_error` (violation) | a configuration pulled together with a failing user list is never applied | 1 failure |
| `conn` | slots given back to the limiter they were taken from, whole rules and metering for the new inbound, exit by the own outbound | 2 TCP connections from one address, both modes and cores, named and unnamed, one reload that may stop anywhere, limits 1, one late rejection, one sweep; explored until a call has raced (`UntilRaced`), what follows is nothing the properties are about |
| `slots` | the limiter alone: slots exact and both limits kept while calls and the sweep overlap at every step, as long as none writes over what it has not seen | 2 connections, TCP and packet, from 2 addresses, both modes, connection limits 1 and 2, address limit 1, one late rejection, 2 sweeps, 3 address maps (one more than can be in use); `UntilRaced` as above |
| `limiter` | references, window and memory of devices, access of users with a plan limit | 2 connections, 2 addresses, device limit 1, a user change |
| `limiter_expiry` (violation) | the expiry of a dynamic limit locks a user without plan limit out | 1 connection |
| `inbound` | no panel, spelling, option or core weakens a node; xray and sing agree, ECH and decryption included, unless a node asks for what only xray knows; no panic on a well-formed node | all combinations of transports, of protections and of certificates (`MCCase`); retries and one correction |
| `server` | after a split no file is shared and every node keeps its core; all nodes or none, one set of cores, lazy start, no node closed in a closed core, the file is served in the end | 3 configurations to split (shared names, an Include, a core that does not exist, a type in mixed case), 2 runs of the command with 1 failure; a process on any of them or of their files, 2 writes (a good file, one half decoded, one that cannot be read, one over whose node a core panics), 2 reloads, 1 failure |
| `online` | nothing dropped between reports, whoever is shown is remembered, the panel settles | 2 users behind one address, both panels, intervals of 1 and 2 ticks (0 is the default), 2 requests per report (1 for ppanel), 1 reload, 1 failure; with a timeout of 1 tick the window is what `applyOnlineTTL` makes it; a jitter of 50 percent does to 2 ticks what the code's 10 percent do to 10 |
| `online_mixed` (violation) | a report takes the old tag and the new users | 1 reload |

`CHECK_DEADLOCK FALSE` is set where the system may come to rest: a bound is used up,
or the node or process is closed.

### Fairness

* `PeriodicTask`: weak fairness of every goroutine's step, of timers expiring
  and firing (Go runtime), strong fairness of locking `execMu` (`sync.Mutex` hands
  over to a starving waiter). Nobody has to call `Start` or `Close`; bodies return
  because HTTP requests have timeouts.
* `TrafficReport`: the report task goes on, which is `LoopKeepsRunning`, and so does the
  monitor with a reload, which it repeats when one was left half done (`retryNodeReload`).
* `NodeController`: monitor, start and close go on, for the same reason.
* `Server`: goroutines go on and the ten seconds pass.
* `OnlineReport`: time passes, reports and the sweep are run (`LoopKeepsRunning`), a reload
  that has come to the window sets it, and the panel drops what it has not heard of for
  its own window (`user_devices`, 300 s, per the comment in `node/user.go:70-72`).

Failures are bounded, so that "in the end" means: once failures stop.

### What the properties leave out

Some properties are restricted by a guard. Every guard stands for something the
code does that the property would otherwise contradict; the model includes it.

| Guard | In | What happens without it |
|---|---|---|
| `core = "xray"` | `NoUsageLost`, `UsageIsBilled` | sing and hysteria2 load a counter and store 0 (`core/sing/user.go:127`); traffic in between is lost |
| `removed` | the same | a removed or changed user's counter goes with the usage not yet reported |
| `dropped` | the same | what is put back while the Selector does not know the tag vanishes (`core/selector.go:208`) |
| `TagOf(k) # tag` | `UsageIsBilled` | usage counted under a former tag stays in its counter until the tag comes back |
| `restored` | `ThrottleIsEarned` | usage put back after a failed push counts again towards the dynamic limit |
| `~named` | `LimiterFollowsUsers` | a reload of a named node adopts users without telling its limiter (`node/task.go:255`) |
| `fails = 0` | node parts of `TagsAreCurrent`, `EndsClean` | a core that refuses to delete a node keeps it |
| `~overlapped` | `EndsClean` | `Close` that meets a running monitor leaves what it sets up again |
| `hurt` | `HalfAppliedIsRetried`, `CachedIsAdopted`, `SettlesOnPanel` | a failed user list or diff is not repeated (`node/task.go:218`, `345`); a partly added xray node blocks its tag |
| `~raced` | `SlotsAreExact`, `LimitsHold` | a call that stores over what another one has stored since its load loses an update of the counter, or lets one address too many in; one that goes on with an address map that was deleted stores where nobody looks (`limiter/conn.go:171`, `203`) |
| `undone`, `later = 0` | `SlotsAreExact`, `LimitsHold` | a rejected packet connection gives back a slot it never had (`limiter/conn.go:143`); a late rejection keeps the entry of its address (the slot of the connection limit that it keeps is counted by the property) |
| `Stable` | `RefsAreExact` | a changed user's device is offline under its open connection |
| `PlanSpeed` | `PlanUserKnown` | run `limiter_expiry` |
| `crossed` | `OnlyAdmittedRemembered` | rotating the window during a rejection remembers the device (`limiter/limiter.go:394`) |
| `born = "new"` | `RulesAreWhole`, `ExitIsOwn` | a connection of the old inbound that is dispatched during the reload may be unmetered (sing), find nil among the rules, or leave by the default outbound |
| `missed` | `ShownIsRemembered` | users whose clearing was in a failed report are forgotten (`node/user.go:78`, `96`) |
| `bare`, `pace` | `SeenIsReported` | a limiter from a failed reload has the configured window; a slow report, or the jitter, puts the next one beyond the window |
| `PlainNames` | `SplitIsolates` | nodes "a-2", "a" and "a" become two files with the same name (`cmd/split.go:329`); a node "a" on a core named "b" and a node "a_b" share a DNS file (`cmd/split.go:270`) |
| `PlainCores` | `SplitIsolates` | two cores without a `Name` that both have a `DnsConfigPath` share the DNS file of their node |
| `run.force \/ run.fails = 0` | `SplitIsolates` | a run without `-f` keeps the half written copy of one that failed (`cmd/split.go:430`) |
| `WellFormed` | `SupportedNeverPanics` | vmess/vless without network settings (xray), an HTTP header without path and naive with REALITY (sing) panic |
| `OnlyXrayKnows` | `CoresAgree` | sing ignores the HTTP header of trojan, ECH and the decryption of VLESS |
| `certMode = "none"` | `SecurityAsAsked` | the operator has turned TLS off, for example behind a proxy |
| `~overlapped` | `Server` | reloads that take more than ten seconds share `conf`, `vc` and `nodes` without a lock |
| `stuck` | `AllOrNothing` | a core refused to delete a node |
| `missed` | `SettlesOnFile` | a write after the load and within ten seconds of the event, during startup, or after the file was replaced by a rename, is never loaded |

Where no property speaks: a reload ends the process when the one before it could make no
Selector (`cmd/server.go:141`, `Close` on nil), when xray is made for a type in mixed case
(`core/xray/xray.go:73`) or over files it cannot use (`:105`), or when a core panics over a
node. `Server` has each of these as a crash with its `cause`; `ClosingIsSafe` is about the
one that the repository speaks of, and `SettlesOnFile` about processes that are up.
A ppanel node of type tuic or hysteria2 is decoded without TLS and refused by sing.
When no endpoint of the alive list answers, the list is emptied without an
error (`api/panel/user.go:111`), which suspends the device limits until it answers again.

### Where the code and its comments disagree

Three of the runs are expected to find a violation; they are the findings of
`PROJECT.json`. Ten more configurations are kept beside the runs, each a
counterexample of a few steps to a sentence of the repository
(`tlc -config <file> <module>`):

| Configuration, module | Property | What the code does | What the repository says |
|---|---|---|---|
| `PeriodicTaskDouble.cfg`, `PeriodicTask` | `SingleTimerArmed` | `fire` sets `t.timer` to nil whatever timer it holds (`common/task/task.go:118`); after a restart between the expiry and `fire` two timers are armed | `task.go:85-86` "A timer is already armed in that case, arming another one would make the task run N times per interval." |
| `TrafficReportReload.cfg`, `TrafficReport` | `PutBackIsKept` | a push that fails while a reload has the tag out of the Selector's table is put back by a call that returns without a word (`core/selector.go:208`) | `node/user.go:110-112` "dropping the report loses the usage silently [...] Put it back and let the next round report it again." |
| `ConnLimiterRejected.cfg`, `ConnLimiter` | `NoSlotLeaked` | `checkLimit` rejects a connection after `AddConnCount` without giving its slot back (`limiter/limiter.go:282`) | `limiter/conn.go:140-141` "Leaking it made the counter grow on every rejected connection until the user was locked out for good" |
| `ConnLimiterOverlap.cfg`, `ConnLimiter` | `NoSlotLeaked` | a connection is counted between the load and the store of one that closes, and stores what it had loaded plus one (`limiter/conn.go:27`): the slot stays taken after both are gone | `limiter/conn.go:151-153` "The connection counter is released in every mode: skipping it for non-realtime nodes turned the limit into a lifetime counter" |
| `NodeInboundLeft.cfg`, `MCNodeInbound` | `FailedAddIsClean` | xray leaves the inbound of a node whose outbound fails (`core/xray/node.go:32`); hysteria2 and sing leave sockets | `node/node.go:22-24` "so a broken configuration cannot leak goroutines, timers or limiter entries" |
| `ServerOverlap.cfg`, `MCSplitServer` | `ClosingNeverCrashes` | one of two overlapping reloads closes the core, the other deletes its nodes there: nil dereference (`core/xray/xray.go:213`) | `node/node.go:56` "Closing must never take the whole process down" |
| `SplitNumbered.cfg`, `MCSplitServer` | `NodesHaveFiles` | nodes "n-2", "n" and "n" write two files (`cmd/split.go:331`) | `cmd/split.go:327-328` "so an empty or duplicated Name cannot make two nodes write the same file." |
| `SplitUnnamed.cfg`, `MCSplitServer` | `CoresHaveOwnDns` | two cores without a `Name` have one DNS file (`cmd/split.go:271`) | `cmd/split.go:265-267` "so several cores of one node cannot end up with one file" |
| `SplitHalf.cfg`, `MCSplitServer` | `CopiesAreWhole` | a copy that failed half way is kept by the next run, which reports success (`cmd/split.go:430`, `444`) | `cmd/split.go:425` "copySplitFile copies the DNS config next to the generated configs." |
| `OnlineJitter.cfg`, `MCOnlineReport` | `SeenIsAlwaysReported` | with an interval above ten minutes (ppanel; for the others it is at most 100 s) the jitter alone makes the wait longer than the window (`common/task/task.go:108`) | `node/task.go:76-78` "keeps the online-device window strictly longer than the panel push interval, otherwise a device could be dropped between two reports" |

## 4. Proofs

A run shows a property on one small instance, a theorem for any sets of goroutines,
users, connections, addresses, nodes and configurations and any values of the bounds.
Every theorem is `Spec => []P` (or a refinement, or an action property) and goes by an
inductive invariant. TLC checked each invariant on the instances of the runs before it
was proved. A step lemma per part of the invariant has one case per action.

### What is proved

| Module | Theorems | Property of a run |
|---|---|---|
| `PeriodicTaskProofs` | `BodiesNeverOverlap`, `HandleNeverDangles`, `LoopNeverAbandoned`; also `TypeCorrect`, `OneTimerUnlessForgotten` | `BodiesSerialized`, `HandleIsPending`, `LoopIsCarried` |
| `TrafficReportProofs` | `UsageNeverLost`, `UsageNeverDueTwice`, `ThrottlingIsEarned`, `AccountingImplementsLedger`; also `TypeCorrect`, `RoundAlwaysConsistent` | `NoUsageLost`, `NothingDueTwice`, `ThrottleIsEarned`, `ImplementsLedger` |
| `NodeControllerProofs` | `ReloadAlwaysRetried`, `CacheNeverHides`, `LimiterAlwaysFollows`, `TagsAlwaysCurrent`, `AlwaysEndsClean`; also `TypeCorrect` | `HalfAppliedIsRetried`, `CachedIsAdopted`, `LimiterFollowsUsers`, `TagsAreCurrent`, `EndsClean` |
| `DispatchProofs` | `SlotsAlwaysExact`, `LimitsAlwaysHold`, `RulesAlwaysWhole`, `ExitAlwaysOwn`; also `CountNeverNegative`, `DispatchTypeCorrect`, `DispatchImplementsCaller` | `SlotsAreExact`, `LimitsHold`, `RulesAreWhole`, `ExitIsOwn` |
| `LimiterProofs` | `RefsAlwaysExact`, `RejectedNeverRemembered`, `PlanUserNeverLockedOut`; also `TypeCorrect` | `RefsAreExact`, `OnlyAdmittedRemembered`, `PlanUserKnown` |
| `NodeInboundProofs` | `SecurityAlwaysAsAsked`, `CoresAlwaysAgree`, `SupportedAlwaysSafe` | `SecurityAsAsked`, `CoresAgree`, `SupportedNeverPanics` |
| `SplitServerProofs` | `OldCoresAlwaysClosed`, `ClosingAlwaysSafe`, `AlwaysAllOrNothing`, `CoresAlwaysLazy`, `SplitAlwaysKeepsCore`, `SplitAlwaysIsolates` | `OneSelectorRuns`, `ClosingIsSafe`, `AllOrNothing`, `LazyCores`, `SplitKeepsCore`, `SplitIsolates` |
| `OnlineReportProofs` | `ShownAlwaysRemembered`, `SweptWasReported`; also `TagNeverAhead`, `TypeCorrect` | `ShownIsRemembered`, `SeenIsReported` |

### Assumptions

The constants' assumptions are named in the modules that declare them and evaluated by
TLC on every run. Most say that a bound is a natural number or that nil is not a value.
The others:

* `ReportAssumption`: there is an endpoint to push to, and the threshold of the dynamic
  limit is not 0.
* `ConnAssumption`, `LimiterAssumption`: the connections are finitely many; counting them
  is what the proofs are about.
* `OnlineAssumption`: the code's durations are positive and the jitter is a percentage.
* `ServerAssumption`, `SourceAssumption`: the nodes of a file are a list, and no two of
  them have the same tag, that is the same panel, type and id or the same `Name`. Only
  `CoresAlwaysLazy` needs that: of two nodes with one tag the Selector's table knows the
  second.
* `SplitAssumption`: names are lists of strings, the suffixes "-1", "-2" and so on are distinct and
  there is one for each node, and a core has a key, a type and, if any, a DNS file.
* `CaseAssumption`: cases are pairs of a panel's answer and the operator's options. The
  run has the cases of `MCCase`, the theorems are about all of them.

No theorem assumes that calls do not overlap. `SlotsAlwaysExact` and `LimitsAlwaysHold` are about every
interleaving, up to the first step that writes over what its call has not seen (`raced`, section 3).

### How far the findings reach

A theorem says how much of a refuted sentence is left, so that nothing but what the
counterexample shows breaks it:

| Refuted | Theorem | What holds |
|---|---|---|
| `PulledIsAdopted` (run `node_user_list_error`) | `CacheNeverHides` | the caches stand for what was adopted as long as no pull of the user list and no user diff has failed |
| `ListedUserKnown` (run `limiter_expiry`) | `PlanUserNeverLockedOut` | users whose plan has a speed limit are known, through throttling, expiry and changes of the user list |
| `OneSnapshot` (run `online_mixed`) | `TagNeverAhead` | only one mix is possible: the tag of a report may be older than its users, never newer |
| `SingleTimerArmed` (`PeriodicTaskDouble.cfg`) | `OneTimerUnlessForgotten` | one timer in every behaviour without a `fire` that takes another timer than its own out of `t.timer` (`OwnFireSpec`) |
| `PutBackIsKept` (`TrafficReportReload.cfg`) | `UsageNeverLost` | with xray's counters all usage of a user that was never removed is due or acknowledged, but for what such a restore dropped |
| `NoSlotLeaked` (`ConnLimiterRejected.cfg`, `ConnLimiterOverlap.cfg`) | `SlotsAlwaysExact` | the count is that of the open connections plus one slot per connection rejected after `AddConnCount`, until a call has raced or a packet connection has given back a slot it never had |
| `ClosingNeverCrashes` (`ServerOverlap.cfg`) | `ClosingAlwaysSafe` | no node is closed in a closed core unless two reloads overlap |
| `NodesHaveFiles`, `CoresHaveOwnDns`, `CopiesAreWhole` (`Split*.cfg`) | `SplitAlwaysIsolates` | every node has its files, whole and its own, with plain names and cores and, after a failed run, with `-f` |
| `SeenIsAlwaysReported` (`OnlineJitter.cfg`) | `SweptWasReported` | no device is swept unreported as long as a report and the jittered wait after it fit the margin (`pace`) |

Nothing is proved of `FailedAddIsClean` (`NodeInboundLeft.cfg`): what a failed `AddNode` leaves open is what the
model says, step by step, and no more general statement was found.

### The inductive invariants

**`PeriodicTaskProofs`**: `TypeOK /\ MutexHeld /\ HandleIsPending /\ LoopIsCarried`.
`BodiesSerialized` alone is not inductive: that nobody else is in the body when one
enters it follows from who owns `execMu` (`MutexHeld`). `LoopIsCarried` needs
`HandleIsPending`: a run does not arm a timer when the handle is not nil, so the handle
must be a timer that will fire. The effects of the two helpers that touch many
places, `StopTimer` and `ArmNext`, are lemmas. `OneTimerUnlessForgotten` adds `ArmedIsHandle`.

**`TrafficReportProofs`**: the accounting equation holds only together with
`CounterExists` (through reloads and changes of the tag, the usage of a user that was
never removed is in, or on its way back to, a counter that exists; else a restore would vanish
there too, and not only in the Selector),
`RoundIsConsistent` (a value that was loaded is still covered by the counter) and
`NeverHalfRead` (xray swaps, so it has no loaded phase). The refinement of the ledger (`LedgerStep`) needs the
last two: a push settles what is in hand, and what is in hand is due exactly once. `ThrottleIsEarned` needs what the
speed checker has seen and what is still unread in one inequality (`EarnedOrUnread`):
bytes move from one to the other when the counters are read.

**`NodeControllerProofs`**: the properties speak of the moments between two runs of the
monitor; the invariant says how far the node is at each step of one. `InHand` is what the
run carries, `TagFollowsInfo` that the tag is behind the configuration only between the
steps that replace both, `Registered` which limiter and node exist at each step,
`LimiterBehind` when the limiter may be behind the users, `CoreFollows` what the core
serves or else that the cache is empty, `CacheFollows` what the caches stand for, and
`ClosesCleanly` the same for the steps of `Close`.

**`DispatchProofs`**: the limiter is proved for callers that assign connections and reject
them in their own way (`CallerNext`). That the limiter in `Dispatch` sees nothing else is
`DispatchImplementsCaller`, a refinement, so both slot theorems hold across a reload. Until
a call has raced, what a call stores is computed from what is stored, which makes the
count the cardinality of the connections that hold a slot, those in the middle of a
call included, plus the slots of late rejections (`CountFollows`); of an address the entry is at least twice
that, and at most one more (a packet connection's mark) without a late rejection (`IPsFollow`). The address
map may be deleted and made anew while a call has it in hand: `OrphansEmpty` says that a map that is not the
user's is empty, so that nothing was stored where nobody looks, and `IPsFit` that the addresses fit the limit.
`CallState` keeps what a call has found on its way to where it is. For the reload, `ReloadInOrder` says what
exists after each of its steps, `NewComesLast` that a connection of the new inbound came
after all of them, and `PlaceFollowsStage` where a connection is in the limiter.

**`LimiterProofs`**: `RefsAreExact` is inductive once the users it speaks of are known to have
an entry (`StableKnown`): `Touch` and `Add` look the uid up in it. For the memory of
devices the window may hold a device that was not admitted, but only while a connection
that has stored it is on its way to take it out (`RememberedIsAdmitted`). `PlanEntry`: a listed user
with a plan limit has an entry, or `UpdateUser`, between its two halves, is about to store one.

**`NodeInboundProofs`**: what the core is given is a function of the answer (`InfoFollows`), what
became of `AddNode` is a function of that (`InboundFollows`), whatever was retried or
corrected in between; the theorems are then about those functions. `BuildV2ray` with its VLESS decryption,
`BuildTrojan` and `GetInboundOptions` are taken apart once, in lemmas.

**`SplitServerProofs`**: `SystemInv`, with one part per question. `Sole`: without an overlap one
goroutine at a time changes the shared state. `RunningInUse`: only the Selector in use
has cores running, and none has when another is made. `ControllersInUse`: the
controllers in `nodes`, or still to be closed, are on the Selector in use, which was not closed
(so `DelNode` finds a core). `RegisteredByStage`: limiters and nodes are those of the
list being closed, then none, then those of the nodes that are up. `LazyByStage`: during a start
the cores that run are those with inbounds of their own and those of the nodes that are up,
which turns what `pickLocked` saw then into what `LazyCores` says at the end; that it
takes a core of those that run needs the least element of a set of numbers, from the
well-foundedness of `<`. `SplitUsable`: what a split has written can be run on.

The split command has an invariant of its own, `SplitInv`. `SplitShape`: the directory holds only
files that a split of this configuration writes, whole or, of a configuration, half written (`HalfFiles`). With it `SplitKeepsCore` is a statement about
`splitNodeCores`: the entries that it picks are those that the Selector would consider
(`SplitKeepsFirst`), and the first of them stays the first. `SplitProgress`: the files of all nodes
that the run is past are there, and so are the DNS files copied so far. It is inductive because a
path belongs to one file (`PathsApart`), so that an overwritten file is the same file, and one that
is kept from an earlier run is the one that would be written. That rests on three lemmas: the
numbers of the nodes of one name differ (`NamesNumbered`), so names do (`NamesDiffer`), so the
paths of the DNS copies do (`CopiesDiffer`). The attempt to prove the property without
`PlainCores` and for any names of cores failed, for the reasons in section 3.

**`OnlineReportProofs`**: `TagBehindUsers` orders the writes of a reload and the reads of a report.
`ShownIsTracked` follows a user through a report under way. `WindowCoversGap` measures
the time since the last snapshot (`gap`) and the wait for the next one, jitter included, against the
window; that a report which has kept its `pace` leaves such a wait is `NextIsPaced`. Between the
change of the interval and that of the window only the report that the change triggers
keeps the property true.

### Only model-checked

* Liveness, which needs fairness and `ENABLED`: `LoopKeepsRunning`, `ClosedTaskQuiesces`, `CallsReturn`,
  `UsageIsBilled`, `SettlesOnPanel`, `SettlesOnFile`, `SettlesOnline`.

## 5. Not modelled

Rate buckets (a library's token bucket), `OverLimit` and `AddDynamicSpeedLimit` (which
nothing calls), what the sniffer finds, the contents of the DNS files, the user map that all
hysteria2 nodes of a process share (`core/hy2/user.go:34`: a user deleted from one node is
deleted from all), ACME, status probes, JSON5 and log handling, command line and
installation, the start lock (a file lock of the operating system), the decoding of routes
into rules, vendored code under `third_party` but for how sing-box starts an inbound
(`adapter/inbound/manager.go`, in `NodeInbound`).

## 6. Plan

1. The composition of `NodeController` with `Server`: a monitor in a reload while the process
   closes its Selector, and several hysteria2 nodes on one user map.
2. The DNS file in `Server`: a reload that is triggered by the nodes it adds.
3. Proofs: an abstract specification of a node (up with these users, or down) that
   `NodeController` implements while nothing is hurt.
