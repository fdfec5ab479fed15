# RouteBox: TLA+ specification of the control plane

RouteBox is a web panel (Go, `src/backend`) that edits the configuration of one
`amnezia-box` (sing-box) process, publishes it, and keeps a number of things in
step with it: a registry of users with subscription tokens, blocks of the
configuration that RouteBox owns, an AmneziaWG server, a Telegram proxy, nodes
fetched from subscriptions; it also starts, stops, retargets and updates the
process itself. The hard part is not the editing. It is that an operator's draft,
an apply that checks a file and publishes memory, tickers, restarts of the panel,
processes nobody asked for and a filesystem that may turn read-only touch the same
state under several locks, and that most operations are several writes, each of
which can fail and has its own undoing. This directory models these parts, checks
them with TLC and proves their safety with TLAPS.

Paths below are relative to `src/backend/internal` unless they say otherwise.

## 1. Inventory

| Component | State | Operations | Who it talks to | What is hard | What makes it right |
|---|---|---|---|---|---|
| Configuration store, `config/manager.go`, `util/writeguard.go` | `activeConfig`, `draftConfig`/`hasDraft`, `draftGen`, standing read-only verdict, `config.json`, `config.json.bak` | section edits, `SetDraft`, `DiscardDraft`, `ApplyDraft`, `CheckDraft`, `SaveToDiskIfGen`, `CleanupDraft` | called by every handler and writer | check of a file without a lock; writes refused before or failing after; crash | memory is disk; only checked drafts are published by an apply; no draft is lost |
| Section editors, `config/dns*.go`, `domain_resolver.go`, `rules.go`, `outbounds.go`, `endpoints.go` | sections of the draft that name one another | create, update, delete, reorder, settings | the store | a reference is checked by one editor and not by the next; a generated tail is recognised by its shape | no dangling reference, resolver pinned, fallback stays and can be read back |
| Inbound editor and user staging, `config/inbounds.go`, `validator.go`, `api/users_handlers.go` | inbounds and their users in the draft | `Create/Update/DeleteInbound`, `SaveConfig`, `CreateUser`, `AddBinding`, `DeleteUser` | the store, the registry | check under one lock, stage under another; removals in several steps | one socket per inbound, one name per inbound, a mieru inbound keeps a user |
| Managed blocks, `config/reject_rule.go`, `v2rayapi.go`, `awg_endpoint.go`, `mtproto_socks.go` | a block each of `activeConfig` | `Sync*Active` | the store; called by applies, PATCHes, tickers, AWG, Telegram settings | run beside a draft | defer to a draft, change-gated |
| Apply pipeline, `api/config_handlers.go`, `api/user_lifecycle.go`, `users/ticker.go` | none of its own: locals of handlers | `ApplyConfig`, `SaveConfigDraft`, `syncRejectRule`, ticker, startup one-shot | store, registry, process | five separately locked steps; stale locals; reload missed | the process runs what is published; disabled users end up rejected |
| User registry, `users/*.go` | `byID`, `users.toml` | `Load`, `Reconcile`, `Put`, `RotateToken`, `RevokeToken` | fed by the active configuration; read by enforcement and `/sub/{token}` | identity across renames; roll back; read-modify-write over two locks | mirror of active; tokens and revocations survive |
| Process manager, `process/manager.go` | PID, `opMu`, binary path, config path, unit path | `Start`, `Stop`, `Restart`, `Reload`, `GetStatus` | systemd, `amnezia-box` | detection by PID and by `/proc`, respawns, SIGKILL escalation, polls | one process; a restart replaces; an operation ends |
| Drop-in and config adoption, `process/dropin.go`, `config.Manager.SetPath`, `api/*` | the drop-in file, systemd's loaded unit, remembered paths | `WriteConfigDropIn`, `RemoveConfigDropIn`, `AdoptUnitConfigPath` | systemd, settings, the store | write, daemon-reload and read back, each failing; somebody else's daemon-reload | the gate in front of a start tells the truth |
| Updater, `updates/*.go`, `api/updates_handlers.go` | binary, `.new`, `.old`, `.failed`, release cache, phase | `Check`, `ApplyUpdate`, the panel's own update | process manager, GitHub | crash between renames, rollback of a rollback, binary renamed under a live process | a runnable binary is left; a failed update is undone; a successful one runs |
| AmneziaWG, `awg/*.go`, `api/awg_handlers.go` | secret store `peers.toml`, server key, manager (`enabled`, parameters), settings, and the `.conf` and interface (kernel) or the managed endpoint and the process (singbox) | `Enable`, `Disable`, `AddPeer`, `RemovePeer`, `RenewPeer`, `SweepExpired`, `PrepareBackendSwitch`, `Rehydrate*` | configuration store, process, kernel, systemd | several writes per operation, each with a compensation that may fail; a lock that Disable and half of Enable do not take; a change gate in front of the reload | what serves is what store and manager say; addresses stay distinct; expired peers go out |
| Telegram proxy, `mtproto/*.go`, `api/mtproto_handlers.go` | roster `mtproto.toml`, running proxy and its snapshot, traffic counters, settings, a SOCKS pair in the configuration | roster requests, `Start`, `Stop`, `Rebuild`, `SweepExpired`, `FlushTotals`, settings | settings, store, traffic table | list-then-put races, failed rebuild, settings saved in four steps | the roster is what is served; routing follows the settings; traffic is billed once |
| Subscriptions, `subscriptions/*.go`, `config/subscriptions_config.go` | `subscriptions.toml`, outbounds of the draft | create, update, refresh, delete, hourly loop | the draft | refresh of a copy while the original changes; two files | no node of a deleted subscription; fresh means its nodes are there |
| Authentication, `auth/*.go` | sessions, attempts | `Create`, `Validate`, `Allowed`, `Fail`, `Reset`, `Cleanup` | every request | separate check and record | lockout holds |
| Settings, traffic, GeoIP, certificate, share links, single-field validators, inspector, frontend | own files | reads and single-lock writes | | little | not modelled, see section 7 |

`PROJECT.json` lists the same components with their status, and under `hazards`
each place in the code that is hard to test, with the property that covers it or
why none does.

## 2. Modules

```
PublishedConfig            abstract: live and pending configuration
   ^ implemented by
ConfigStore                config.Manager, WriteGuard, one ApplyConfig up to its save
   ^ extended by
ApplyPipeline              the rest of ApplyConfig, PATCH, ticker, boot, amnezia-box
UserRegistry               users.Manager and UpdateUser, on its own

DnsDraft                   DNS, routes, rule sets, outbounds, endpoints in the draft
InboundDraft               inbounds and their users in the draft, staging requests
Subscriptions              the subscription store, its loop, its outbounds

ProcessManager             the amnezia-box process, systemd, the config path repairs
   ^ extended by
Updates                    release cache, download, swap, restart, rollback

TelegramProxy              roster, running proxy, sweep, traffic, SOCKS pair

AwgServer                  the state of the AmneziaWG server, its secret store, its render
   ^ extended by
AwgSingbox, AwgKernel      the two backends, operation by operation
   ^ composed by
AwgBackends                settings, switch, drafts, clock, restarts; the properties

StoreProofs (ConfigStore, ApplyPipeline), UserRegistryProofs, DnsProofs,
InboundProofs, SubscriptionsProofs, ProcessProofs (ProcessManager, Updates),
TelegramProofs, AwgProofs                                               theorems
MCConfigStore, MCApplyPipeline, MCUserRegistry, MCAwg, MCDnsDraft, MCInboundDraft,
MCSubscriptions, MCProcessManager, MCUpdates, MCTelegram                TLC instances
```

An operator whose comment begins with "Mutant:" is not part of a specification. It
is the definition after it with a plausible mistake; put in its place it makes one
of the module's properties fail, which shows that the property depends on it
(`PROJECT.json`, `mutants`).

**ConfigStore.** A document is a body (what an operator edits) and one value per
managed block. `active`, `draft`, `gen` and `readOnly` are the fields of
`Manager` and of its guard; `disk` and `draftFile` are `config.json` and
`config.json.bak`. Each action is one critical section of `Manager.mu`: `Edit`
is every section editor (all have the shape *lazy copy of active, change, write
the draft file*), `EditNothing` an editor that fails after the lazy copy,
`SetDraft`, `DiscardDraft`, `ApplyDraft` (the handler SaveConfigDraft), `SyncBlock`
the managed writers, `Restart` a crash or restart of the panel, which is also a
crash in the middle of a publication (the rename either happened or not).
ApplyConfig is the sequence `BeginApply`, `LookForDraft`, `CaptureDraft` (or
`RefusePaths`), `RunCheck`, `SaveApply`; `RunCheck` reads the draft *file* with
no lock held. `Stage` is `saveDraftToDisk` with its four outcomes: refused
before the write, written, refused by the write itself, failed for another
reason.

The filesystem is one variable: `rw`; `ro` (read-only mount); `locked`
(`config.json` immutable, its directory writable, so the draft can be written and
the configuration cannot); `full` (nothing can be written and nothing is
"unwritable", so the guard stays silent).

**PublishedConfig.** What an operator may rely on: a live configuration and at
most one pending one; publishing replaces the live one by the pending one and
leaves none; the writer of a block that defers waits while one is pending; the
writer of another block does not, and leaves none pending (`SyncV2RayAPI`).

**ApplyPipeline** extends the store. The body is the set of user names the
inbounds hold, the blocks are the reject rule and the v2ray user list.
`phase` and `snap` hold where each request is after its save and the value it
read and has not used yet: `ReadActive`/`Reconcile`, `ReadUserNames`/`SyncV2RayAPI`
and `ReadRejectNames`/`SyncReject` are pairs because the code reads under one lock
and writes under another. `loaded` is the document `amnezia-box` runs on;
`Reload` is the reload with its fallback to a restart, which may fail as well.
A restart of the panel leaves the process alone (it has a process group of its
own, or systemd's) and runs startup: load, reconcile, one `syncRejectRule`.
UpdateUser is `GetUser` and `PutUser` (or `PatchFails`), because the request's body is
decoded between them: it stores its copy whether or not the user is still there.
Three variables are history. `missed` says that a reload is known not to come (a failed
one, SaveConfigDraft, a crash). `unmirrored` holds why no reconcile follows the last
publication: it was SaveConfigDraft's, or an apply saved while another had read the
configuration and not yet reconciled. `revived` are the users that a PATCH put back
after they were deleted.

**UserRegistry.** An entry `<<c, n>>` of a configuration gives credential `c` the
name `n`. `Reconciled` is `Reconcile` step by step: groups by identity with the
global deduplication (`Owner`), candidates by name or binding, smallest id
survives, fragments go, A1, mint. Its loop over the groups, in the order of their
keys, is the recursive function `Converged`, one `Turn` per group. Fresh ids are random
in the code; the model lets them sort before or after all others and never repeat;
`MaxId` leaves room for as many as are ever in use. A token is the number of the
operation that minted it. `UpdateUser` is two actions, `UpdateGet`
and `UpdatePut`, because the body is decoded between them. `StartConfigs` is the
configuration a start finds, or nothing when `config.json` does not load.

**DnsDraft.** A document has the sections that name one another: DNS servers in
order (the first is the default when `final` is absent), DNS rules, the resolver
pin, rule sets, route rules with the default exit, outbounds with their members,
endpoints, and the cache flags (`disable_cache`, `disable_expire`) with `dns.optimistic`. Each editor is one action,
as each holds the manager's lock throughout: it takes the working document, checks
what the code checks and nothing else (`RuleOK`, `Deletable`, `Unused`, `RouteOK`,
`MembersOK`), and stages the result, which includes the refresh of the pin
(`Pinned`) and the place of a new rule before the tail (`Place`). `TailAt` is the
shape by which `findFallbackBlock` recognises the generated fallback, `Block` what
`buildFallbackBlock` writes, `Writable` what `applyDnsFallback` refuses. A default
resolver is set by its tag (`SetResolver`) or as an object (`SetResolverObject`), whose
server nobody looks for. `asked`, `renamed`, `lost`, `blind` and `unchecked` are history
in the document: the fallback last asked for; tags that a rename or an unchecked deletion
took away, because `UpdateDnsServer`, `UpdateOutbound`, `UpdateEndpoint` and
`DeleteOutbound` rewrite no references; the server an object named as resolver, and the
servers that DNS rules other than routes named (`Named`), while they were not there. A
server that comes is struck from both (`Arrived`).
A behaviour uses the editors of one `scope`, so that long sequences of related
edits stay within reach. `Starts` are the configurations it may begin with: documents
of the form described (`InputAssumption`), good or bad.

**InboundDraft.** An inbound is its tag, type, listen address *as it is spelled*,
port, transport and users; `Conflict` is `listenPortConflict` with its
normalisation of addresses and its networks per type, `SectionOK` what `SaveConfig`
validates of a whole section. The staging handlers are not critical sections:
`CreateUser` and `AddBinding` look (`NameTaken`, `BoundTo`) and remember, `StageUser`
writes later; `DeleteUser` computes the bindings and `RemoveUser` removes one of
them per step, refusing the last user of a mieru inbound. `raced` records that the
section changed between a request's look and its write; `dup` that two inbounds have
one tag (`Twins`), by a rename, which `UpdateInbound` does not look for, or from a text.
The users of an inbound are a set of entries, a name with a credential. `StartApart`,
`StartServes` and `GivenOnce` say what the sections, forms and texts that come from
outside may hold, where a property depends on it.

**Subscriptions.** `mem` and `disk` are the store and its file, by slug; `active` and
`draft` hold for each group tag the URL its nodes came from. A restart removes the draft
unread (`CleanupDraft`).
`Tick` takes the loop's copy of the due subscriptions, `LoopStep` fetches, merges
and records one of them; a handler is a `job` with the same steps. A deletion
removes the nodes first and forgets the entry second (`RemoveNodes`, `Forget`).
Two names with different slugs may share a sanitized group tag. `excused` records
the groups that a race or a loss has touched: a refresh in flight during a
deletion, a draft that was discarded, refused by the disk or removed by a restart (for the
groups it changed), a deletion cut short, a save of the store that failed, and a
result or a deletion for an id that has meanwhile been given to another name (`Usurped`).
The next clean write of the group, one that is staged and overlapped nothing, ends that.

**ProcessManager.** `proc` is what runs on the machine: for each process who
started it, on which config path, from which build, and the name its executable
has *now* (`exe`), since an update renames a running binary. `findPID` and `Found`
are the detection. An operation holds `opMu` (variable `op`) and is a sequence of
steps: `ReloadStep`, `RestartStandalone`, `RestartUnit`, `StopStep` with its poll,
SIGKILL and second poll, `StartStep`, `VerifyStep`, `Finish`. Between them a process
may exit (`Exits`), systemd may bring one back (`Respawns`), an operator may start
one by hand (`HandStart`). `loaded` is the config path systemd has loaded, `dropIn`
and `UnitFileCfg` what it would load next. The repairs `Fix`, `Remove` and `Adopt`
take no lock and end at any of their steps: `WriteDropIn`, `ReloadWritten`,
`VerifyRetargeted`; `ReloadRemoved`, `Reread`, `RecordRemoved`; `SetPath`,
`RecordAdopted`. `Reboot` is a restart of the panel, which keeps the process. `unsure`
is history: a removal answered with a warning that the unit could not be read back
(the remembered path then is a guess, `dropin.go:536-541`), or somebody else
reloaded systemd.

**Updates** extends ProcessManager with the file slots `at`, `new`, `old`, `failed`
of the install path. `AskUpdate` and `TakeRelease` are the handler up to the lock:
it reads the cache twice, and a check that failed in between leaves nothing to
dereference, which ends the request (`updates_handlers.go:171-173`). `CompareVersion`
is the handler's comparison with the version at hand, `Admit` the `TryLock` of `applyMu`
after it: another update may have come and gone between the two. `DownloadBegins`, `DownloadEnds`, `Verify`, `BackUp`, `Install`,
`Restarts`, `Restarted`, `PutAside`, `PutBack` are the phases of `apply` with the
rollback, each rename failing on its own. `Restarts` waits for `opMu`, `Restarted` for
its outcome. `SelfUpdate` and `ReExec` are the panel's own update; `Crash` is its
death at any point, between the two renames of a swap included.

**TelegramProxy.** `mem`/`disk` are the roster and its file, `proxy` the clients with
the secrets the running proxy took a copy of, `cfg` the exit of its last start, `set`/`setDisk` the
settings, `active` and `draft` what the managed SOCKS pair needs of the configuration.
A request is a sequence of steps: a roster request reads the client, puts back its
changed copy (`PutBack`) and rebuilds (`Rebuild`); a change of the settings is
`Settings`, `SyncSettings`, `SaveSettings`, `Rebuild`; `Enable` syncs, starts, persists. The sweep is `SweepList`, one `SweepPut` per expired client, which
writes back the *copy* it listed, and `SweepRebuild`. Traffic is counted per stream
(`pending`), drained (`held`) and upserted (`stored`); `carried` is history, what was
really sent. `stale` is history: a sync that could not be written or was deferred to
a draft, for which the code waits for the next apply or start.

**AwgServer, AwgSingbox, AwgKernel, AwgBackends.** `store` is `peers.toml` and its
map (they agree: `Put` and `Delete` roll back), `key`/`savedKey` the server key in
memory and in the file (they need not agree: `SetServerKey` does not). A listen
port stands for all render parameters, so `mem` is the manager's snapshot
`renderState`. What serves clients is a port, a key and peers with addresses:
`endpoint` in the configuration and `loaded` in amnezia-box, `conf` in the file
and `iface` in the kernel. `op` is the operation that holds `addMu`, with what it
has read and where it is:

- *singbox*: first write (`AddPeerSingbox`, `RemovePeerSingbox`,
  `RenewPeerSingbox`, `EnableSingbox`; a sweep has none), `Render`, `Sync`
  (refused, deferred, nothing to change, written), `ReloadEndpoint`, and
  `RollBack` when one of them fails. `DisableSingbox` runs beside it without the
  lock (`disable`).
- *kernel*: `admit` is `SetLive`, `Strip`, `Append` with `Unadmit` as its undoing;
  AddPeer ends with `PutPeer`, or `Suspended`; RemovePeer is `RemovePeerKernel`,
  `Unconf`, `Delete`; a sweep is one step, as it holds the lock throughout (only
  an interface restart or a Disable could run inside it, and what that leaves on
  the interface is the outcome of a removal that failed, which the step allows).
  `EnableKernel` writes the file under the lock; the restart of the interface and
  the last sweep (`up`) come after it, and `DisableKernel` takes no lock at all.

A failing write, command or reload spends one of `MaxFaults`; a failing undoing
spends one more. `loaded` is unchanged by a failed reload: the case in which the
restart behind it is refused and the process goes on.

`adrift` is a history variable. It records that something happened that the code
itself does not compensate: the undoing failed too; a draft got in between the
handler's check and the write; a sweep lost its reload (the next one finds nothing
to change); a kernel renewal failed after it had taken the peer off the interface;
an Enable's restart or a Disable overlapped a peer operation; RouteBox went down
in the middle of one, or with settings saved and not enabled. `Served` asks
nothing of such states, `EventuallyHealed` does: it says what the sweeps restore
in all of them. A sweep that writes and loads resets it.

**How the parts meet.** The composition that matters most is modelled: store,
registry, enforcement and process in ApplyPipeline; the process under an update in
Updates; both AmneziaWG backends and the switch between them in AwgBackends; requests
of the Telegram page over roster, proxy and configuration in TelegramProxy. Across
these, a component sees its neighbour through a small interface: ApplyPipeline's
`Reload` is one step that succeeds or fails, where ProcessManager has its steps; the
draft editors work on a draft that `ConfigStore` says how to keep; the Telegram and
AmneziaWG writers of the configuration fail, defer or succeed, for which
`ConfigStore!SyncBlock` has the reasons.

## 3. Runs

| Run | Bounds | Shows |
|---|---|---|
| `store_apply` | 2 applies, bodies good/bad, 2 blocks with 2 values, the writer of one deferring to drafts and that of the other not, `rw`/`ro`/`locked`, 5 operations | memory is disk; a draft in memory is on disk; a matching generation at the save means this very draft was checked; an apply publishes only that; the store implements PublishedConfig |
| `pipeline` | 1 apply, 1 PATCH, 1 name, `rw`/`full`, failing reloads, 4 operations | the process runs the published configuration; the registry mirrors it, but for users a PATCH put back; disabled users end up rejected on disk |
| `registry` | 2 credentials, 2 names, 12 configurations, 1 UpdateUser, 4 operations, `users.toml` may turn read-only | each reconcile leaves a mirror and keeps undisputed users; token states; memory is the file |
| `dns` | 3 server tags, 3 starts, 5 rules of 5 kinds, 2 routes, 4 exits, 1 rule set, 4 edits in one of 4 scopes | no deletion, reorder or checked edit makes a reference dangle; the resolver is pinned, unless an object named a server that is not there; the fallback stays, is last and can be written back; optimistic answers and a switched-off cache never meet; a moved rule lands where it was dropped |
| `inbounds` | 3 tags, 5 forms, 3 starts, 3 whole sections, 2 staging requests, 4 operations in one of 3 scopes | no two inbounds on one socket; no user bound twice; a mieru inbound keeps a user, even when two deletions race |
| `subscriptions` | 2 names with 2 slugs and 1 group, 1 URL, 2 requests beside the loop, 3 operations, 1 failure, restart or lost draft | until a draft is lost or a deletion overlapped, and again from the group's next clean write on, no orphaned nodes, and fresh means its nodes are there; a due subscription is refreshed in the end |
| `process` | 2 PIDs, 2 paths, 1 repair, 3 operations, 2 outside events of 9 kinds | the gate is truthful; a successful restart left nothing of what ran before; every operation gives up `opMu` |
| `updates` | 2 PIDs, 2 builds of which 1 fails its preflight, 2 update requests and stops beside them, 2 operations, 2 outside events of 6 kinds | one process; a runnable binary survives; a failed update is undone; a successful one is what runs; every update ends |
| `telegram` | 2 clients, 1 exit, 1 port, 2 requests of 7 kinds, 3 operations, 2 mints, 1 failure or restart, 1 unit of traffic | the proxy serves the roster; nothing is billed twice; routing follows the settings; an expired client leaves |
| `awg` | 2 peers, 2 addresses, 2 ports, both backends at the start, 5 operations, 2 failures | addresses stay distinct; between operations what serves is what store and manager say, or a failure nobody compensates is on record; the sweeps settle configuration or interface for good |
| `registry_start` | 1 user, a `config.json` that may not load | violation, see 6.1 |
| `telegram_exit` | 1 client, 1 request at a time, nothing fails | violation, see 6.2 |

*Why the bounds are enough.* `MaxOps` bounds operations that begin something
(edits, applies, requests, managed writes), not the steps they take:
with 5 in the store two applies run to their ends around three edits or a
restart. Each interference the store can suffer needs one apply, one other
writer and one change of the filesystem. Two bodies tell a checked document from
an unchecked one. One name is enough for enforcement because the rule is a set
and its writer replaces it whole. In the registry two credentials and two names give
every relation of a user to a group: same name, same binding, both, a split, a swap,
nameless, and one credential under two names; four operations give apply, read,
apply, write back. For AmneziaWG two addresses and two peers are what
it takes to give a suspended peer's address away; five operations are an enable,
two peers, a renewal or removal and a switch, restart or disable; two failures are
one that is compensated and one of its compensation.

In `dns` four edits build a fallback, disturb it and rewrite it, or create, name,
rename and delete one thing; the starts save the edits that would set the scene,
one of them being a file written by hand with rules the panel would not write. In
`inbounds` the forms are the pairs of types, addresses and networks that the port
check tells apart (wildcards in three spellings, a specific address, TCP against
UDP, both). Two overlapping requests are enough for every check-then-stage race, as
a third would see the section one of the two has left. In `subscriptions` two
names that share a group are the smallest case in which one deletion touches the
other's nodes. Two PIDs are needed for a process that goes and one that comes; a
third would need three outside starts. In `process` the events are an exit, a respawn,
a start by hand, a failed `systemctl`, `daemon-reload`, read or write, a
daemon-reload by others and a restart of the panel; two of them are one that makes
an operation fail and one that disturbs what follows. In `updates`, likewise, one
makes the update fail and the other its rollback. In `telegram` one failure breaks one of
the steps of a request while the other request runs. `Faults`, `Kinds` and `Scopes`
name what a run lets happen. The theorems of section 5 hold for every bound.

Besides the properties of the runs, the type invariant of every module
(`PipeTypeOK`, `RegTypeOK`, `AwgTypeOK`, `ProcTypeOK`, `TeleTypeOK`, `DnsTypeOK`,
`InTypeOK`, `SubTypeOK`) holds on these instances, added as an INVARIANT; section 5
proves each. Two names with one *slug* are in no run: the theorems on Subscriptions
cover them.

*Deadlock* is not checked: once the bounded operations are used up the system
rests, as it does when nobody sends a request. *Symmetry* is used in
`store_apply` and `inbounds` only, over the requests, which nothing tells apart but
their names; their properties are safety properties.

## 4. Fairness

Every fairness condition is of one of two kinds: a loop that the panel runs from its
start to its end (`time.NewTicker`), or a goroutine past the point where it decided to
go on, which waits for nothing but a mutex held for a bounded time. Nothing is assumed
of operators (no edit, apply, discard or request is fair), of the filesystem, of
processes, of systemd, or of restarts.

- `ApplyPipeline!Fairness`: the 30-second ticker, each step of a `syncRejectRule`
  under way, each step of an ApplyConfig under way. `EnforcedOnDisk` is conditional on
  a filesystem that ends up writable and on no draft staying pending, because the
  code defers to a draft by design.
- `AwgBackends!Fairness`: the steps of an operation under way, of a Disable's, of an
  Enable's past its commit, and of the sweep, which `RunSweepLoop` calls every 30
  seconds. `EventuallyHealed` is conditional on no draft staying open, and nothing
  else: bounded failures stand for failures that cease.
- `ProcessManager!Fairness`: the steps of an operation and of a repair. Each poll in
  `Stop`, `Start` and `Restart` has its own end, five seconds or a fixed number of
  rounds, so an operation can always take a step. `OperationEnds` is that argument
  checked through all the branches.
- `Updates!UpdFairness`: the same, and the steps of `apply`; strong fairness of
  `Restarts`, because the restart waits for `opMu`, which others take again and again:
  a Go mutex hands over to a waiter after 1 ms (its starvation mode), so the restart
  is not overtaken for ever.
- `TelegramProxy!TeleFairness`: the 30-second sweep, and the steps of requests.
  `ExpiredLeaves` is a property of the sweep even when writes or starts fail.
- `Subscriptions!SubSpec`: the steps of the hourly loop only; no handler is fair.
  `SubSafety` is the same without fairness, for the theorems.

## 5. Proofs

Every safety property of the runs of section 3, invariants and action properties,
is a theorem for all values of the constants, and so is the type invariant of every
module. Most need an invariant much stronger than themselves; this section
says which, and under which hypotheses the theorem stands.

`StoreProofs`, the store (`ConfigStore`):
- `TypeCorrect`: `Spec => []TypeOK`.
- `CheckIsOfTheDraft`: `[](DraftIsOnDisk /\ CheckedIsDraft)`, and `DraftKept`, its
  first half, provided no filesystem state is `full`. Neither half is inductive alone.
  `ApplyInv` says three things: no request holds a generation from the future; a draft
  in memory is the one in its file; and a request past its check whose captured
  generation still is the current one has checked the file that is there. It is
  preserved because every action that changes the draft or its file raises `gen`,
  which makes every captured generation stale, and because `Restart`, which lowers it,
  kills the requests.
- `ApplyIsChecked`: the action property `ApplyPublishesChecked`, from that invariant.
  The hypothesis on `full` is needed, see 6.3.
- `MemoryIsDisk`: `[]ActiveIsDisk`.
- `StoreRefines`: `Spec => ImplementsPublished`, that is `Published!Spec`, for any
  set of deferring blocks and any filesystem, step by step with `live <- disk`,
  `pending <- draft`. What the v2ray writer, which does not defer, does to a pending
  draft is part of what is shown; that it should keep it is 6.4.

`StoreProofs`, the pipeline (`ApplyPipeline`):
- `PipelineTyped`: `PipeSpec => []PipeTypeOK`.
- `PublishedRuns`: `PipeSpec => []RunsPublished`, for any number of applies, PATCHes
  and names. The strengthening says that a request of the store that is not idle is not
  in the later phases, so no save can happen in a state the property calls quiet.
- `RegistryMirrors`: `PipeSpec => []RegistryMirrorsActive`, for any number of applies
  and PATCHes. `MirrorInv` adds that an apply about to reconcile holds the body that
  still is the active one, unless `unmirrored` says that something else came in
  between. Without the excuses it is `ApplyMirrorsActive`, which is false with two
  applies and with one and a PATCH, see 6.6 and 6.14.

`UserRegistryProofs`, for configurations of any size, well formed or not, and any number of
UpdateUser requests:
- `RegistryTyped` and `RevokedHasNoToken` (`TokenOrRevoked`): `RegInv` says it of the
  file and of the copies requests hold as well, since Load and Put bring those back.
- `ApplyLeavesMirror` (`ApplyMirrors`) and `UndisputedIsKept`
  (`UndisputedUserKept`): what the loop of `Reconcile` does. The loop is a
  recursive function of the groups' keys. That it has the value its turns give
  (`LoopTurns`), that after a turn the users taken so far are in bijection with
  the groups met so far (`TurnsKeep`), and that no turn takes a user which another group
  alone claims (`TurnsSpare`), are shown at the least key where it would fail. A mint needs
  an id that is free: `Room` bounds what stale copies can put back, which is why
  `RegistryAssumption` asks for `MaxId >= 3 * MaxCred + 2 * Cardinality(Patchers)`. The
  code's random ids never run out.
- `RegistryIsFile`: `[]MemoryIsFile`.

`AwgProofs`, for any peers, subnet, ports, requests, restarts and failures, on both backends
and through switches between them:
- `AddressesAreDistinct`: `[]AddressesDistinct`. It is not inductive: a renewal,
  removal or add that fails writes back a record it read earlier, and a kernel
  AddPeer stores an address several steps after it chose it. `AddrInv` adds what an
  operation under way knows (`OpOK`): the old record it would restore and the new
  one it would store have an address no *other* stored peer has. Each operation
  keeps that because it holds `addMu`; the clock only changes expiries.
- `WhatServesIsListed`: `[]Served`. `Served` speaks of states between operations, so
  its invariant `ServeInv` says of *every* state what serves. On singbox the running
  configuration is, until the reload, that of before the operation (`FormerMem`,
  `FormerStore`), while what was rendered for the sync, and after it the endpoint,
  is that of after it (`SingboxServes`). On the kernel backend the interface and its
  file change one after the other, and `IfaceHas` and `ConfHas` say what each holds by
  the place of the operation (`KernelServes`). Each end of an operation, its success
  or a roll back at any step, must then make the two agree, and `adrift` has to
  admit whenever it does not. `Roles` keeps the backends apart: a
  switch under an operation in flight is on record.
- `AwgTyped`: `[]AwgTypeOK`. The bound on keys needs `Counts`: only a request generates a key,
  and one at most; every other step copies the keys there are.

`ProcessProofs`, the process manager (`ProcessManager`):
- `ProcessTyped`: `Spec => []ProcTypeOK`, through a stronger `TypeInv` that also
  types the binaries and the places of operations and repairs.
- `GateHolds`: `Spec => []GateIsTruthful`, assuming that at most one repair runs
  at a time (`OneRepair`), for any number of operations, paths, processes and outside
  events. `GateInv` says of each place of a repair what the code relies on there
  (`Relies`): up to its first daemon-reload the remembered paths are settled; while it
  confirms, the store's path is RouteBox's own; once it has read the unit back, what
  it read is what systemd has loaded, or `unsure` says otherwise. Each is kept by the
  steps of others because only repairs, outside reloads and restarts of the panel
  touch these variables. The hypothesis is needed, see 6.8.
- `StartsOnlyOne` (`OneProcess`) and `RestartIsReal` (`RestartReplaces`), without
  updates: every process then runs under the name of an install path, so detection
  misses none, and nothing that ran before a restart is left when it may launch
  (`RestartInv`).

`ProcessProofs`, the updates (`Updates`):
- `BinaryIsKept` and `FailureIsUndone`, `UpdSpec => []BinarySurvives`
  and `[]FailureRollsBack`, for any builds, processes, requests and failures. Neither is
  inductive. `UpdInv` says for each phase which slot holds the build that ran before
  the update and which holds a verified one (`SlotsOK`), and that only `.new` is ever
  torn (`WholeFiles`). A restart of the panel forgets the phase, and the files that are
  then there still satisfy `BinarySurvives`, which is why it names two slots.
- `UpdateStartsOnlyOne`: `UpdSpec => []OneProcess` when only stops and reloads are asked
  for beside it (`NoOtherStart`). The rollback renames the new binary to `.failed`, a
  name that `exeMatches` does not know; the argument is that by then nothing the panel
  started runs from it (`OwnSafe`), which somebody else's start can break: see 6.9.
- `UpdateRunsTheRelease`: `UpdSpec => []UpdatedIsRunning`, likewise, with a binary path
  that is pinned (`Pinned`): without that the manager may probe another install
  path than the one the update swapped. `RelInv` says that detection sees every process
  once the restart has looked, so a restart cannot succeed beside an old build.

`TelegramProofs`, for any clients and overlapping requests:
- `TelegramTyped`: `TeleSpec => []TeleTypeOK`.
- `RosterIsServed`: `[]ServesRoster`. The strengthening: either somebody is on the way to
  a rebuild (`Behind`: a request between its write and its rebuild, a sweep that has
  written), or the proxy's snapshot matches the roster (`Matches`). A rebuild re-reads
  the whole roster and a proxy that cannot be started again is stopped, which makes the
  last one of any number of overlapping rebuilds enough.
- `TrafficBilledOnce`: `[]BilledOnce`, with `CountInv`.
- `RoutingFollows`: `[]RoutingMatchesSettings`. Settings change before the configuration
  does, and `InStep` says that then one of the requests that changed them is still to
  sync, and remembers the exit and port which the configuration has.

`DnsProofs`, for documents of any length, any tags, codes and inputs. `DnsForm` is the
type invariant. `ResolverStaysPinned`, `NothingDangles` and `CacheStaysSafe` start from
configurations that have the property (`PinnedIn`; `Holds`, `Serves`, `Leads`; `CacheIn`):
the panel may adopt a file that has not, and repairs none. `NothingDangles` is about the
servers of all DNS rules, and excepts the references the code does not look at (`renamed`,
`lost`, `unchecked`; 6.16); `ResolverStaysPinned` excepts a server named by an object
(`blind`; 6.15). `CacheStaysSafe` has all three fields of the payload. `FallbackKept` (`FallbackStays`) and
`ReportedIsAccepted` (`FallbackWritable`) need no such hypothesis, only that nobody has asked for
a fallback yet; the latter says nothing where a rule of the operator's own matches
responses, see 6.12. The lemmas about sequences (an element taken out, put in, moved) give
`MovesLand` (`ReorderLands`) and say where the generated tail is after each edit. The
invariants speak of the active document beside the draft, since a discard brings it back.

`InboundProofs`, for any forms, texts and overlapping requests. `InboundForm` is the
type invariant. `SocketsApart` (`NoContention`) starts from sections without contention
(`StartApart`), `MieruServes` (`MieruKeepsOne`) from mieru inbounds that have users
(`StartServes`), `UsersBoundOnce` (`BoundOnce`) from sections, forms and texts that list a name
once and give each credential to one name (`GivenOnce`): the code checks what the handlers
add, not what a raw text brings along. The invariant of the last one follows
credentials: every one in use was given or minted, and a request's is its own
until it is staged.

`SubscriptionsProofs`, for any names and groups, and *any* map of names to slugs and of names
to groups, so with shared slugs too, which the run has not: `SubsTyped`, `OrphansNever`
(`NoOrphans`), `FreshnessIsReal` (`FreshHasNodes`), of `SubSafety`, which is `SubSpec`
without its fairness. `SubsInv` adds the order of the two writes: a deletion that has still to
forget has removed the nodes (`RemovedFirst`), a success that has still to be recorded has
merged them (`MergedFirst`). Both theorems except the groups in `excused`: a lost draft
takes merges and removals along, and nothing in the code looks for them (6.17).

The proofs use the named assumptions `StoreAssumption`, `PipelineAssumption`,
`RegistryAssumption`, `AwgAssumption`, `ProcessAssumption`, `UpdatesAssumption`,
`TelegramAssumption`, `DnsAssumption`, `InputAssumption`, `InboundAssumption` and
`SubsAssumption` of the modules, which the runs evaluate, the hypotheses named above, and
nothing else. TLC evaluates the hypotheses on starts, forms and texts as well (`StartsHold`
of MCDnsDraft, `InputsHold` of MCInboundDraft).

*Only model-checked.* The liveness properties (`EnforcedOnDisk`, `EventuallyHealed`,
`OperationEnds`, `UpdateEnds`, `ExpiredLeaves`, `EventuallyRefreshed`): liveness under
fairness is out of the prover's reach.

## 6. Where the code and its own words part

The first two are runs. For the others the property is kept in its module, and the
change of constants (or of the property of an existing configuration) that makes TLC
show the behaviour is given.

1. `registry_start`: a start that cannot load `config.json` empties `users.toml`,
   against the comment beside the call (`cmd/routebox/main.go:361`).
2. `telegram_exit`: a change of the exit while the proxy runs is saved and answered,
   and the proxy goes on with the exit of its last start: `Rebuild` starts it with
   `m.cfg` (`mtproto/manager.go:268`), against `mtproto_handlers.go:498-499`, "A running
   proxy has to pick up the new listen address, masking domain or outbound".
3. `ApplyPublishesChecked` with `FsStates = {"rw", "full"}` and one client in
   `StoreApply.cfg`: the disk fills up while a draft is pending. `saveDraftToDisk`
   fails with an error that is not about writability, so memory keeps the new
   draft while the file keeps the old one; the check passes on the old file and
   the new draft is published.
4. `PublishKeepsDraft` in `Pipeline.cfg` with `FsStates = {"rw"}`, `ReloadMayFail = FALSE`:
   nothing fails, and `SyncV2RayAPI` does not look for a
   draft. An edit staged between an apply's save and that sync is deleted, memory and
   file.
5. `EnforcedInProcess`, same: the panel dies between writing the reject rule and the
   reload. Startup and every later tick see the rule in place and never reload; the
   surviving process serves the disabled user.
6. `ApplyMirrorsActive` with `Clients = {c1, c2}`, `Patchers = {}`, same: two applies
   reconcile in the other order than they saved, because the configuration is copied
   before the registry is locked. `reconcile.go:5-7` says "Reconcile makes the registry
   mirror the active config". `RegistryMirrorsActive`, which excuses this, also holds with
   these two clients (1.5 million states).
7. `RevokeIsSticky` in `RegistryStart.cfg` with `ConfigMayBreak = FALSE`: a PATCH of a
   user that read it before a revoke stores the old token back.
8. `GateIsTruthful` with `Repairs = {h1, h2}` in `Process.cfg`: an adoption reads the path
   of the unit, a fix writes the drop-in and reloads systemd, and the adoption then moves
   the store to the path the unit no longer has. RouteBox sees no mismatch and edits one
   file while systemd would start amnezia-box on the other.
9. `OneProcess` with `Controls = {"start"}` in `Updates.cfg`: the restart of an update
   fails, and somebody's start succeeds on the new binary before the rollback renames it
   to `.failed`. `exeMatches` strips `.old` and ` (deleted)` and not `.failed`
   (`updater.go:185`, `process/manager.go:1115`), so the rollback's restart finds nothing
   to stop and starts a second process.
10. `RemovedIsNotServed` (a PROPERTY) in `Awg.cfg`, 4 operations, 1 failure: the reload of a RemovePeer
    is lost; its secret is restored and the error reported. The retry finds the
    configuration already without the peer, skips the reload and reports success;
    amnezia-box still serves the peer, and the panel no longer knows it.
11. `ServedKeyIsSaved` in `Awg.cfg`, 2 operations, 2 failures: `SetServerKey` keeps a key
    it could not save. The next Enable serves it without saving it, and a restart loses
    it together with every client's configuration.
12. `FallbackRoundTrip` in `Dns.cfg`: after the fallback is set, a rule of one's own that
    matches responses is accepted before it (`CreateRule`). The fallback is then reported
    and cannot be sent back, which every save of the DNS page does;
    `dns_fallback.go:52-57` says "Reading must accept no more than writing can reproduce".
13. `VisionIsRaw` in `Inbounds.cfg`: CreateUser stages the flow `xtls-rprx-vision` on any
    vless inbound (`users_handlers.go:299`), a stream transport included, and an apply
    publishes it. `validator.go:803-807` calls its guard "the ONLY config-time guard for
    the conflict"; it is in `Validate`, which the JSON editor calls and neither this path
    nor ApplyConfig does: an apply runs the binary's own check, which lets the pair pass.
14. `ApplyMirrorsActive` in `Pipeline.cfg` as it is: UpdateUser reads a user, an apply's
    reconcile deletes it, and UpdateUser stores its copy, which `Put` inserts
    (`users_handlers.go:477-493`): the user is back in the registry, with its token, and
    in no configuration, until the next apply or start.
15. `ResolverThere` in `Dns.cfg`: `UpdateRouteSettings` asserts that the resolver is a
    string, so `{"server": ...}` passes for a clearing (`rules.go:489-491`), is allowed
    while there are fewer than two servers, and is then stored whole (509-516) whatever it
    names. `pinDomainResolver` leaves it alone (`domain_resolver.go:71`), also when the
    second server makes the resolver necessary.
16. `EveryServerThere` in `Dns.cfg`: `validateDnsRule` looks for the server of a route and
    not for that of an evaluate rule (`validator.go:1305-1314`).
17. `NoOrphans` and `FreshHasNodes` except drafts that were lost. In the code a start of
    the panel removes the draft of before (`cmd/routebox/main.go:209-210`): a refresh that
    was merged, recorded and not applied leaves a subscription that is fresh for its whole
    interval and has no nodes; a deletion that was staged and not applied leaves the nodes
    of a subscription nobody has. A discard and a refused write do the same.

History variables excuse what the code does not promise, and each is a fact worth
knowing. `lost`, `renamed` (DnsDraft): updates of servers, outbounds and endpoints
rename without rewriting references or looking for a duplicate, and deletions of
outbounds and endpoints look for no reference. `blind` and `unchecked` are 6.15 and 6.16,
`revived` and `unmirrored` (ApplyPipeline) 6.14 and 6.6. `dup` (InboundDraft): an inbound can be
renamed onto another's tag, after which the port check skips both. `raced`: two
requests that look before either stages. `excused` (Subscriptions): a refresh in flight
during a deletion brings the nodes back; a lost draft is 6.17; a failed save of the store leaves memory ahead
of the file (`store.go:214`). `unsure` (ProcessManager) and `stale` (TelegramProxy) are
described in section 2, `adrift` and `missed` too. Two more facts the models
contain: the sweep of the Telegram proxy puts back the copies it listed, so an edit in
between is overwritten (`ticker.go:90-99`), and traffic drained but not written is lost,
never billed twice (`ticker.go:53`).

## 7. Not modelled

*Configuration.* Edits of `config.json` from outside and timestamped backups; the JSON
editor inside the pipeline (its `SetDraft` is in the store, its whole-section saves in
InboundDraft). `GoodBodies` stands for the checks and for the case that no binary is
installed (all are good). The editors of the log and experimental sections assign
fields that nothing refers to. The bodies of domain sets are read under one lock and
written under another (`domains_handlers.go:204`): two additions can lose one; there is
no more to it than that. Certificates, Reality keys, transports beyond *stream or not*,
and mieru's `listen_ports` ranges, which neither port check compares.
`RemoveIPv6FromTunInbounds` has no caller outside tests.

*Users.* ApplyPipeline has one registry entry per name (UserRegistry has the identities). `expires_at` is folded into "off" (the pipeline's `Expire` is the clock).
Failures of the random source are left out: Go ends the program on them.

*AmneziaWG.* The IPv6 broker with its egress probe (a second parameter the sweep
may change), the header key and the ULA prefix (saved like the server key), NAT
chains, the kernel module installer, client exports, and a settings file that
cannot be written, for which `persistAwgSetting` says itself what follows. The
configuration is reduced to its managed endpoint and to whether a draft is
pending; a write of it fails or succeeds (`ConfigStore` has the reasons).

*Process and updates.* Version strings, the parsing and quoting of unit files, progress
reporting, archives and checksums (a download is whole or torn, verified or not).

*Telegram.* The protocol itself is a library's; of its streams only the bytes count.

*The rest.* Authentication: two small single-lock maps; the one race across two calls is
listed as a hazard. Settings: a single-lock store with one generic save; the fields
other components depend on are variables of AwgServer, TelegramProxy and ProcessManager.
Traffic samplers of one goroutine each; GeoIP; the panel certificate; the v2ray stats
client; the inspector, which reads; log buffers. Share links, subscription rendering
and the parsing of links into outbounds are formatting without state that interleaves.
The frontend is the source of the requests the models allow.

## 8. Plan

1. The refinement of the pipeline's registry by UserRegistry's `Reconciled`.
2. **AWG**, deeper: an abstract specification (a map of served clients) that both
   backends implement while nothing is adrift; the IPv6 flag and the header key as
   further parameters.
3. Composition of ProcessManager's operations with ApplyPipeline's `Reload`.
4. **AuthLimits**: backoff and the window between Allowed and Fail.
