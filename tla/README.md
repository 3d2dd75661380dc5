# A TLA+ model of FluxFang

FluxFang is a self-hosted radio survey platform: capture drivers produce
emissions, an ingest pipeline stores them in PostgreSQL, matches them to
emitters and entities, and fires alerts. A node runs as *Standalone* or as
*Sensor*; a Sensor keeps what it captures in a local cache and forwards it to a
Standalone over sealed HTTP batches, after an operator approved it there.

This directory holds TLA+ modules translated from that code, the TLC
configurations that check them, and proofs for TLAPS. Paths below are relative
to the repository; `api`, `db`, `core`, `capture`, `proto` stand for
`backend/crates/fluxfang-*/src`.

    tlc -config SensorForwarding_safety.cfg SensorForwarding
    tlc -config MCRecords.cfg MCRecords
    tlapm SensorForwardingProofs.tla

## 1. Inventory

| Component | State | Operations and interactions | What is hard; what makes it correct |
|---|---|---|---|
| Sensor forwarder (`api/forwarder.rs`) | approval flag, last contact, health report | one loop: enroll, send the oldest undelivered batch, mark what was acknowledged, heartbeat, sleep; a pruner beside it | timeouts against late answers, ACKs that cannot be recorded, a target that changes. Nothing acknowledged is lost; the backlog drains; a live sensor looks live |
| Forward cache (`db/repo/cached_emission.rs`) | one row per capture, `delivered` | insert, oldest undelivered, mark delivered, TTL prune | pruned while in flight |
| Sensor ingest endpoint (`api/sensor_listener.rs`, `api/ingest/mod.rs`) | `emission` rows with remote ids, `sensor.last_seen_at` | lookup, replay check, open, stamp, then insert and finalize row by row within a budget, partial ACK | two handlers on one batch, cancellation between insert and finalize, permanent against transient errors. Each row stored once and announced at most once |
| Keyring and enrollment (`api/sensor_listener.rs`, `api/sensors.rs`, `db/repo/sensor.rs`) | `sensor` rows; in-memory window | enroll; approve, reject, revoke, rotate; open, close, expire | every request is several statements that interleave. A sensor is approved for the key that was verified; a dismissed one stays out; a shut window lets nobody in |
| Sensor listener lifecycle (`api/sensor_listener.rs`) | table of running listeners, `data_source.status` | start, stop, resume, delete, edit | stop against start. No listener is out of a stop's reach |
| Sensor protocol (`proto`) | none | seal, open, replay window, fingerprint | boundary of the replay window |
| Ingest pipeline (`api/ingest/mod.rs`, `pump.rs`) | emission, emitter, entity rows | insert, match, auto-create, attach, alerts, zones, broadcast | two ingests of one new identity; a finalize that stops half way |
| Emitter match index (`api/ingest/matcher.rs`) | versioned snapshot in memory | first_match, note_created, reload | version read before lock and list. An answer is right for some moment of the call |
| Zone transitions (`api/ingest/zones.rs`) | `zone_membership` | read, compare, upsert, fire | concurrent ingests, late backlog. One firing per transition |
| Alerts (`api/ingest/alerts.rs`, `api/notify`) | notifications, cooldown | evaluate, dispatch, record | sent but not recorded |
| Alert rules, methods, zones (`api/alert_rules.rs`, `alert_methods.rs`, `zones.rs`) | rules, methods with sealed configs, links, zones | create, PATCH, delete, replace the links | read, merge, write back; transactions that do not see each other |
| Secrets (`core/secrets.rs`) | the key of the process | seal, open | the key changes under sealed rows |
| Capture supervisor (`api/capture.rs`, `ingest/session.rs`, `ingest/location.rs`) | running handles, `data_source` rows, survey session | start, stop, reconcile, failure message, resume | a stale list, a late failure message, a session closed under a source |
| Wi-Fi monitor and Bluetooth capturers (`capture/wifi`, `capture/bluetooth`) | threads, shared flags, the interface, a scan of BlueZ | start, stop, read, hop, cache, throttle | reports, timeouts and stops that cross; threads that outlive their owner |
| Wi-Fi parsing (`capture/wifi/security.rs`, `parse.rs`, `scan.rs`) | none | suites, normalization, label | two readers of one element |
| Data source routes (`api/data_sources.rs`) | configuration, `desired_state`, `status` | create, patch, delete, start, stop, window | three judges of one configuration; desired against actual state |
| First-run setup, login (`api/auth_routes.rs`, `api/state.rs`) | password hash, node config, failure window | setup once, login, limiter | concurrent setups; attempts in flight |
| Configuration, role poller (`api/config_routes.rs`, `api/main.rs`) | node config row | read-modify-write patch, poll | lost update |
| Emitter and entity records (`api/emitters.rs`, `db/repo/emitter.rs`), age-out (`api/ageout.rs`) | emitter, entity, emission rows | create, rule with backfill, PATCH, bulk delete, enrich; one SQL sweep | statements by different snapshots. A window covers its emissions; a sweep takes what it has seen to be old |
| Correlation, links (`api/correlate.rs`, `core/correlate.rs`, `db/repo/emitter_association.rs`) | two rows per link, evidence | the pass adds links; operator and agent add and remove them | transactions that race; evidence after the commit. A link has two rows and a reason; the operator's word stands |
| Rule language (`core/rule.rs`, `rule_sql.rs`), list routes (`db/sort.rs`, repositories) | none | evaluate, compile to SQL, number the parameters, page | matcher and query must agree; pages are separate statements |
| Retention, classification (`core`) | none | pure functions | boundaries of retention; which frames are one device |
| MCP server, AI audit (`api/mcp`) | audit rows | one tool call, one audit row | check and write are separate statements; a call may stop half way |
| Attribution evidence (`db/repo/attribution_evidence.rs`) | evidence rows | record, list | - |
| Localization, co-travel, RF diff; WebSocket; GPS and RTL-SDR readers; web console | derived rows, or none | offline passes; I/O | floating-point statistics; no state of their own |

`PROJECT.json` lists the same components with what is modelled of each, and
the hazards at their lines.

## 2. Modules

**SensorForwarding** is the forward path, both ends and the wire. One variable
per piece of state of the code:

| Variable | Code |
|---|---|
| `captured`, `cached`, `delivered` | `cached_emission` rows, in the order of `created_at`; a row is its number |
| `pc`, `approved`, `conn`, `due` | position in `spawn_forwarder`'s loop, its approval flag, the request it awaits, `HEARTBEAT_INTERVAL` passed |
| `last_error` | `ForwarderHealth.last_error` is set |
| `call` | one record per HTTP exchange: not sent, sent, past the keyring lookup, between rows, between insert and finalize, answered |
| `status`, `seen` | the sensor's row: status, and `last_seen_at` within `ONLINE_THRESHOLD_SECS` |
| `approving` | approve requests that have found the sensor pending and have still to set its status |
| `stored` | remote rows in `emission` |
| `kept`, `refused`, `announced`, `erased` | history: inserted once, acknowledged after a database error, finalized how often, deleted by the operator |
| `cut` | history: inserted, but a fault came before the end of the finalize |

The loop has an action per arm (`CycleEnroll`, `CycleForward`, `CycleIdle`,
`Heartbeat`, `Sleep`) and per way an exchange ends (`ReceiveEnroll`,
`ReceiveAck`, `ReceiveRefusal`, `MarkFails`, `Broken`, `Timeout`). The handler
has one per statement that other actors can come between (`Lookup`, `Touch`,
`InsertRow`, `SkipDuplicate`, `RefuseRow`, `RetryRow`, `FinalizeRow`,
`FinalizeFails`, `Finish`). A client that times out leaves its exchange where
it is: the handler may go on, and the next cycle opens another. `Drop` cancels
an exchange at any stage, as axum does with a handler whose client went away.
The operator's approval is the check of the row (`StartApproval`) and, any number
of steps later, the unguarded `set_status` (`SetApproved`), or nothing
(`AbandonApproval`); a revocation may come between.

**ReliableDelivery** is what the forward path promises: a captured row is owed
until it expires or is acknowledged, and acknowledged only once settled, that
is stored or found impossible to store. `SensorForwarding` implements it
(`ImplementsDelivery`), with owed = cached and not delivered.

**SensorEnrollment** is the keyring of one listener. Enroll handlers
(`ReadRow`, `Gate`, `InsertPending`, `UpdatePendingFingerprint`) and approve
handlers (`StartApproval`, `SetKey`, `SetApproved`, `ListOthers`,
`CloseWindow`) advance one database statement at a time; either can be cut off
between two (`CancelEnroll`, `AbandonApproval`). `Dismiss` is reject and
revoke, `Rotate` writes a key generated here, `OpenWindow`, `WindowExpires` and
`Restart` work the window. A fingerprint is a hash of (sensor id, key), so for
one id the key stands for it. `claimed` and `opened` are history.
**MCSensorEnrollment** gives the constants their values.

**CaptureSupervisor** is `api/capture.rs` with the routes that call it. Every
start and stop runs under one lock, which it keeps across its awaits; HTTP
requests, the resume at startup, the reconciler and the drain of the failure
channel are the processes that ask for it.

| Variable | Code |
|---|---|
| `rows` | `data_source`: there or not, `desired_state`, `status` |
| `handle`, `lock` | the `running` map and its mutex |
| `life` | what each incarnation of a source (capturer and reader, or pump) is doing; it may outlive its handle |
| `session`, `attached`, `db_open` | the session manager, the incarnations that hold it, the active `survey_session` row |
| `failures` | the failure channel |
| `op`, `want`, `resumed` | where each call is, what a sweep has still to start |
| `plugged` | the device is there |

A start is `BeginStart`, `Build`, `EnsureSession`, `Spawn`, `WriteRunning`, with
`Reject`, `WriteError` and `CloseIfIdle` on its error paths; a stop is
`BeginStop`, `ReaderDone`, `WriteStopped`, `CloseIfIdle`; a failure is
`TakeFailure`, `DropHandle`, `WriteFailed`, `CloseIfIdle`. `Cancel` drops a
handler where it waits: a stop goes on in its own task, a start does not.
Sources exist from the start and are never created; push sources behave as
hardware that is never unplugged, so they are a case of it.

**EmitterMatching** is one emission's way to its emitter. An ingest stores it,
reads the change token (`ReadVersion`), looks at the shared snapshot (`Look`),
waits for the write lock and looks again (`Lock`), reloads (`Reload`), and then
attaches (`Attach`), or creates an emitter (`Create`, `Select`) and teaches the
snapshot about it (`NoteVersion`, `Note`). Operator requests change the table
and the token in one transaction, and backfill in the next (`Backfill`); the
age-out sweep (`AgeOut`) comes at any time. `index` and `writer` are the
snapshot and its lock; `seen` is history: what was attachable at some moment of
each ingest. The table is a set of emitters; their ids are the order they were
created in, which is the order the matcher lists and tries them.

**ZoneAlerts** is what follows: `Detect` fires the rules for a detection,
`List`, `Get`, `Upsert` compare a subject with its membership, `Fire`,
`Dispatch`, `Store` send each alert and record it. Emissions run concurrently;
fixes of the host come one after the other from the pump, which `Cut` ends when
its source stops. `written`, `sent` and `seen` are history.

**NodeSetup** has setup (`Setup`, `CheckUnset`, `CompleteSetup`), login
(`Login`, `ReadHash`, `Verdict`), the permits and the blocking threads both use
(`AcquirePermit`, `HashDone`), PATCH (`PatchConfig`, `MergeConfig`,
`StoreConfig`) and the role poller. `hashing` is apart from `permits` because a
handler that is dropped returns its permit while its thread goes on.

**RuleLanguage** is not about time. `Eval` is what the matcher computes,
`ConditionClause` and `Build` are the translation, and `Outcomes` is what
Postgres makes of it (three values and errors). The two actions are the two
ways a rule meets an emission: `AttachEmissionsMatching` for those stored
before, `Match` for those that come after.

**Associations** is the links between emitters. `StartPass`, `Load`, `PairUp`,
`LookAt`, `Record` are the correlation pass, with its engine as the operators
`Cooccurrences` (the walk over two histories, one `Advance` a turn) and
`ShouldAssociate`; `Insert`, `DeleteRow`, `Commit` are the
statements of the transactions, in which a row written is locked and a row left
alone is not; `Victim` is Postgres ending a deadlock. Its variables are checked
by the properties that read them; it has no separate type invariant.

**EmitterRecords** is the emitter and entity tables under everything that writes
them, one statement a step at READ COMMITTED: operators' creations (alone, or
with an entity in one transaction), rules with their backfill (`UpdateRule`,
`Attach`, `ReadWindow`, `CommitAttach`), PATCH field by field, deletions; the
ingest of each emission (`Store`, `FirstMatch`, `GetOrCreate`, `SetEmitter`,
`Touch`, `Enrich`); the sweep as the snapshot it starts from and the deletion
it ends with. Which rule matches is any enabled one that does (`EmitterMatching`
has which). The agent's tools attach and detach emissions and delete them
(`AgentAttach`, `AgentDetach`, `DeleteEmissions`); unlike the others these leave the
window as it is. `missed` is history: the emissions that the code leaves out of
their emitter's window. Names, types, notes, and the creation and editing of
entities are left out.

**DeviceIdentity** asks which frames are one device: address classes, the
retention gate, identity and match rule of every kind of emitter, and the
age-out by class. An ingest is one step; an hour may pass at any moment.

**AgentTools** is the writing tools of the MCP server: a call is a series of
statements (`Asks` chooses it), others' statements come between, and `Audit`
ends it with a row that names ids. Emissions a rule claims and those a filter
deletes are counted, not named; the insert of the audit row is best effort; a
call whose client goes away leaves none. `changed` is what a call has written,
statement by statement; `named` is what its audit row says. Link tools are in
`Associations`; the reading and analysing tools, the protocol and the guard are
left out.

**AlertRegistry** is rules, methods and zones under the operator's requests. A
creation inserts the rule and then replaces its links, so that a failure in
between leaves a rule without methods; a PATCH reads, merges, validates and
writes the whole row. `Wipe`, `Link`, `CommitLinks` and `DisableRules`,
`CommitZone` are the statements of the two transactions. **AlertMethods** is
the channels: what is sealed, merged and written back, what a dispatch needs of it,
and `Restart` under another key. `given` is the config a client has stored last,
`passed` the PATCHes under way that read the row before that, and `undone` the
channels on which such a PATCH has written the older bytes back.

**QueryBinds** asks whether a list statement's positions and the values bound to
it agree, and are few enough; rules posted as JSON put no cap on `in`, which is
why `WithinLimit` speaks of the routes that do. **Paging** is a client that
turns pages until one is not full, and the map with its mark, against inserts,
deletions, attributions and changes of a row's sort key (`Touch`: what an ingest
does to the `last_seen_at` that emitters are listed by). The promise is for the
rows that keep their key. Others that come in or rise push them down, and they
are shown twice; only one that leaves the rows above them, by deletion or by a key
that sinks, lets the next page pass over them. A row that moves promises nothing.

**SensorListener** is start, stop, delete, edit and the window of listener
sources, with the table's lock, which a start holds across its awaits and a stop
does not. An address that does not parse, and a row that cannot be read in
`start`, are left out. `disturbed` is history: sources a start of which met a stop
or a deletion, or a call on which failed, was cancelled or was cut off; for these the code
promises little (section 3, findings). **SourceConfig** is the three judges of a
configuration: `validate_data_source` (`ModeValid`), the CHECK constraints
(`Checked`), and `build`; each is written down from its own text, and numbers keep
the widths of their types.

**MonitorRadio** is one interface and the capturers started on it: three
commands, two threads, a full channel, a start that goes on without the request
that asked for it. **BluetoothStart** is the start of a scan: thread, report,
timeouts in ticks, join. **BluetoothScan** is its loop: objects, two streams,
snapshot cache, throttle. **WifiCapture** is what both Wi-Fi paths make of a
beacon's suites and what ingest keeps of it; the names `iw` prints are external,
and truncation, signal and channel are left out.

**The suites.** `IngestSuite` (which extends `EmitterMatching`), `DevicesSuite`
(which extends `SensorListener`), `RecordsSuite`, `MCCaptureSupervisor` (which
extends `CaptureSupervisor` and has `ZoneAlerts` beside it) and `MCReturns` put several
components into one run; `MCIngest`, `MCDevices` and `MCRecords` are instances of
the first three. The components share no variable and no action: `part` says which
one moves, the others stay at one of their initial states. The state graph is the
disjoint union of the components', and a property of one holds in the suite
exactly if it holds of that component by itself; a suite's properties are
conjunctions of such, and their comments name the parts. Theorems about a suite
are theorems about each of its components for the same reason. In `MCReturns`
fairness is stated of each part's own actions. What a component assumes of its
constants is asserted there of the instance (`RulesAreSound`, `RadioIsSound`,
`LinksAreSound`, `AlertsAreSound` and the like).

**SensorForwardingProofs**, **SensorEnrollmentProofs**, **NodeSetupProofs**,
**CaptureSupervisorProofs** and **ZoneAlertsProofs** hold the theorems about their
modules; **IngestProofs**, **DevicesProofs** and **RecordsProofs** those about the
suites: section 4.

How the modules meet: what `FinalizeRow` of `SensorForwarding` counts is one
ingest of `EmitterMatching`, whose end is an `Emit` of `ZoneAlerts`. The role
that `NodeSetup` polls decides which of the two paths the captures of
`CaptureSupervisor` take. The rule that `EmitterMatching` matches with is one of
`RuleLanguage`: its devices are the payloads for which `Eval` holds. In
`SensorForwarding` the enrollment window is a nondeterministic choice of
`ServeEnroll`, whose answers the node tells apart are approved, pending and
refused (403, 409 and 429 are one to it); an approval is its check and its
`set_status`. What lies between, the key and the window, is in `SensorEnrollment`.

The definitions marked *Mutant* are plausible mistakes; each property of a
passing run is violated when one of them takes the place of the definition that
follows it.

## 3. Runs

| Run | Instance | Shows |
|---|---|---|
| `forwarding_safety` | 2 rows, one of them poison; batches of 2; 2 exchanges; 1 approve request; 2 faults | no row lost silently, none announced twice, none passed over, revocation respected, and the refinement (1 million states) |
| `forwarding_liveness` | the same with 1 fault | the backlog drains and the sensor stays online |
| `enrollment_safety` | 3 nodes, two of them with one id; 2 ids, 2 keys; 1 change of a key; 1 approve handler | keys claimed for their id, approved fingerprints fixed, dismissal holds, nobody in before the window opens (1 million states) |
| `capture_safety` | capture: 2 location sources and a radio, 2 incarnations each; 2 requests, at once or in turn, beside the sweeps and the drain; 1 fault, 1 device death; alerts: 2 ingests and the pump, 1 method, rules for host and emitter, 3 calls, 1 upset | one open session around everything that runs, one location source, reports that are true; crossings are told as they were written (1.3 million states) |
| `capture_liveness` | the radio alone, 3 requests in turn | a wanted source runs in the end |
| `node_setup` | 2 clients, 2 passwords, 1 permit, 2 attempts, 4 requests, 1 fault | one setup wins, the configuration stays valid, the limits hold, capture follows the role |
| `ingest` | matching: 2 ingests, 2 devices, 2 emissions, 4 emitters, 2 edits; language: 2 fields, every condition over a few values alone, pairs of well-formed ones; statements of up to 66 conditions and 4000 elements; pages of 2 over 3 rows with 2 changes | the snapshot is exact when it claims to be; answers were right for a moment of the call, emitters are created for need, no emission falls between a rule and its backfill; a query means its rule; a listing shows every row that keeps its place (2.1 million states) |
| `devices` | radio: 2 capturers, 2 faults, 1 death; Bluetooth: 3 starts, timeouts of 5 and 2 ticks, 1 object and 3 signals; Wi-Fi: 1 observation on each path; configurations: every kind of source and one that is none, 5 numbers around the limits of 2 and 4 bits; identity: 3 emissions of every kind of frame; listeners: 1 source, 2 addresses, 2 requests at once of 3, 1 fault, 1 restart | stops and failed starts leave nothing behind, what is shown of a device was heard of it, frames of one payload are one emitter, validation, constraints and build agree, no listener is out of reach (0.4 million states) |
| `records` | records: 2 emitters, 2 emissions, 1 call beside 1 sweep, 1 statement of the agent and 1 fault; links: 2 emitters, 3 calls, 1 fault; agent: 1 call of every tool, 1 foreign statement, 1 fault; rules: 2 requests at once on 2 rules, 2 methods, 1 zone, 1 fault; channels: 2 PATCHes, 1 change of key | windows survive interleaved writes; links and evidence add up; the agent's log names what was written; deletions take what was asked for; stored rules are valid, a channel keeps its last config (1.5 million states) |
| `returns` | 1 node, 2 enrollments at once, 1 change of its key; the radio with a channel of 2; 3 Bluetooth starts on a bus that answers | a pending row follows the node's key; starts and stops return |
| `links_pairs` | as the links of `records` | violated: see findings |
| `sound_rows_lost` | 1 row, no poison, 1 exchange, 1 fault | violated: see findings |

**Bounds.** `MaxRow`: two rows give batches that are cut in the middle, of which
one row is new and one a duplicate, and one good and one poison. `Conns`: two
exchanges are one late handler and one current; a third would repeat what the
first does. `MaxFaults` bounds only what needs a fault (timeouts, restarts,
failed statements, cancelled requests); a lost exchange that nobody waits for is
free. `Erase` deletes a row at most once, and `announced` is bounded by it.
`MaxRekeys` bounds changes of a node's key, and the CONSTRAINT `RekeyedAlone` of
`enrollment_safety` lets one happen only while the third node has not been heard
of: a change of key meets the node's own handlers and its namesake's, and the
third node has another id; `Rotate` takes a key nobody has
used. In `CaptureSupervisor`, `MaxDeaths` is less than the number of slots, so
that a source that failed always has a slot to start in; the reconciler, the
resume and the drain supply the starts and stops beyond the two requests. In
`EmitterMatching`, `MaxAppended = 1` makes the second append meet the full
snapshot, and four emitters are as many as two emissions and two edits can make.
In `ZoneAlerts`, three calls are two concurrent emissions and one after, or a
crossing in and out with one beside it. In `NodeSetup`, one permit for two
clients makes them wait, and two attempts with two clients let the limit be
passed. In the suites, one call against one sweep, or two against each other,
are the interleavings each property speaks of; two capturers are one that died
and the next; three Bluetooth starts are one that timed out, one whose thread
still runs and one after; three signals are an announcement, a change and one
that chatters; two emitters on one link with three calls are two that race and
one that finds what they left. The proofs remove the bounds for the properties
they cover: the `records` run has one request on emitters at a time, and one
object per Bluetooth device is all the `devices` run has; any number of concurrent
requests (approvals too, of which the forwarding runs have one), and of adapters that know one device, are in the theorems. `MCDevices`
and `MCRecords` disable the deadlock check: their components are requests and events
with bounds, and each may really stop when these are used up. No other run does;
there, a state in which the bounds are used up and
nothing is under way is a stutter of its own (`Finished`, `Done`).

**Symmetry.** `enrollment_safety` permutes keys and the two nodes of one id,
`capture_safety` the location sources, the clients and the ingests, `ingest` the
ingests and the devices, `records` the agent's entities and the clients
that edit rules and channels; the runs with liveness use none. In `MCReturns` the node's first
key is fixed: the other initial state is this one with the keys renamed.

**Fairness.** The forward loop never ends and each of its awaits has a timeout
(`WF ForwarderStep`); a handler whose statements succeed is driven by the
runtime to its answer (`WF HandlerStep`); a connection its client has left is
closed in the end; time passes (`WF HeartbeatDue`). In `SensorEnrollment` a node
keeps sending (the loop again), and each step of an enrollment is taken again
and again by *some* request of the node (strong fairness over the slots): a
network that cuts every attempt at the same point would defeat any retry. In
`CaptureSupervisor` the runtime drives each task (`WF Proceed`); the lock is a
tokio mutex, which is handed out in the order it was asked for (`SF Acquire`);
capturers that are told to stop do, and readers get to the end of a closed
channel (`WF`). In `NodeSetup` the poller ticks for ever (`WF PollRole`). In
`MonitorRadio` and `BluetoothStart` each thread runs, and the bus answers
(`BusAnswers`). Nothing else is fair: not the operator, not captures, not
faults.

**Liveness.** `BacklogDrains` and `StaysOnline` have the premise that the sensor
is approved for good. `PendingFollowsNode` has the premises that the window
stays open, the sensor pending, and no approval writes to its row: an approval
that verified the old fingerprint writes it back, and a node without retries
would never repair that. `Recovers` has the premises that the source stays
wanted, its device there, no request of its own is under way, and no failure is
reported any more: a failure of an earlier incarnation takes the handle of the
next, and a capturer that ends when its handle is dropped reports a failure for
that in turn, so that the two can chase each other for ever.
`ModeFollowsRole` holds for a role that stays.

### Findings

`LinksComeInPairs` - the table promises that every link is there in both
directions (`db/repo/emitter_association.rs:1-4`). An addition by the pass or the
agent inserts with `DO NOTHING`, which takes no lock on a row that is already
there; a removal that commits between its two INSERTs takes both rows, and the
second INSERT puts one back. `HalfLinksAreRaced`, in `TablesAreConsistent`, is
the part that does hold, and is proved. The proof needed the other order too: a
removal looks at the rows before an addition writes them, finds one half, and
takes that.

`SoundRowsAreStored` - every error of the database server is taken for permanent
(`api/sensor_listener.rs:143`), and the row is acknowledged without being stored. The
comment above (137-142) says why that is right: such an error "can never succeed on
retry". A full disk, a deadlock or a shutdown of the server is such an error and
would pass; in the run a row that no constraint refuses is delivered, and was never
in the table. `AckedIsSettled` is what does hold: acknowledged rows were stored, or
met such an error.

Other disagreements and sequences met while modelling, which the modules allow
and no property forbids (a property that would, has them as its stated exception):

- A heartbeat that succeeds does not clear the forwarder's last error
  (`api/forwarder.rs:520`, against lines 98-99, "forwarding is broken *right
  now*").
- A stored row whose finalize did not happen is skipped as a duplicate for ever,
  unmatched and unannounced (`api/ingest/mod.rs:423`, "already ingested"). These rows
  are in `cut`; `StoredIsAnnounced` says that there are no others.
- A row is still pending between `set_key` and `set_status` of an approval, so a
  re-enrollment there replaces the verified fingerprint (`api/sensors.rs:114`,
  against `db/repo/sensor.rs:68-77`). The stored key stays the verified one; the
  node is then answered 409 by its own fingerprint.
- `set_status` has no guard, so an approval that passed its check revives a
  sensor revoked since (`api/sensors.rs:120`, against 94-97), and a batch sent while
  it was revoked is then admitted. `DeadStaysDead` and `RevokedNeverAdmitted` are
  the part that holds: nothing else revives it, and as long as nothing does, no
  request sent after the revocation is let in.
- A sibling that registers after the list was read, or any sibling when the list
  fails, has the window shut on it (`api/sensors.rs:136`, against 132-135).
- The reconciler starts a source that was stopped after it took its list
  (`api/capture.rs:1173`; `db/repo/data_source.rs:90-92` calls `desired_state`
  the intent). The source then runs, unwanted, and its row says so.
- A failure message of an earlier incarnation removes the handle of the next
  one (`api/capture.rs:1322`). Of a location source the pump is detached by
  that and goes on: after the next start there are two.
- `handle_source_failed` drops a handle without calling stop, and the monitor
  capturer has no Drop: the hopper of a dead capturer goes on retuning the
  interface (`api/capture.rs:1322`, against `capture/wifi/monitor.rs:248`).
- A deletion reads a status that is not `running` yet and removes the row of a
  source that is being started, which then runs without one
  (`api/data_sources.rs:188`); for a listener the task goes on serving
  (`api/data_sources.rs:187`, against 189-195).
- `disturbed` has the sources to which this or the next happened. A listener's stop
  writes "stopped" after it has left the table; a start in between is overwritten (`api/sensor_listener.rs:517`, against
  `api/data_sources.rs:45-47`). Its enrollment window stays open
  (`sensor_listener.rs:512`, against 538-540), and an address that was taken is
  not tried again (`sensor_listener.rs:477`, against migration 0009).
- A baud rate is cut to 32 bits before it is looked up: 4294976896 passes as
  9600 (`api/capture.rs:504`, against 440-443).
- A PATCH of a stopped source writes although it was started meanwhile, and the
  capturer serves the old row (`api/data_sources.rs:152`, against 147-152).
- Bluetooth: failures of the bus before the report are named "timed out"
  (`capture/bluetooth/scan.rs:299`, against 173-176); start joins a thread that
  may sit in a bus call without a timeout (217, against 41-43); a device
  announced between reading the objects and subscribing is not seen (330,
  against 314-315); an announcement taken after a later change overwrites it
  (370, against 322-323); two adapters' objects of one device defeat the throttle
  (548, against 11-13).
- Wi-Fi: an RSN block with empty lists is none on the scan path and WPA2 on the
  monitor path (`capture/wifi/scan.rs:200`, against `security.rs:1-3`); a
  reconfiguration that keeps the label keeps the old lists
  (`db/repo/emitter.rs:487`, against 471-474).
- Two ingests of one emitter that both read the old membership announce one
  crossing twice (`api/ingest/zones.rs:209`). For the host, which one pump
  compares, visits alternate (`CrossingsAreTold`).
- A snapshot can hold rules of several moments, later than its version; it is
  not the current one then, and the next ingest reloads it.
- `set_methods` replaces links without a lock on the rule: two that overlap leave
  the union (`db/repo/alert_rule.rs:172`, against 160-162). A rule inserted or
  written back while its zone is deleted stays enabled
  (`db/repo/zone.rs:216`, against 179-181), and a "detected" rule with a zone_id
  that is no uuid makes every deletion of a zone fail (`zone.rs:219`, against
  193-194).
- A PATCH of a method's name writes back `enabled` as it had read it, and a
  channel switched off meanwhile is on again (`api/alert_methods.rs:255`, against
  `api/ingest/alerts.rs:226-230`); one that is deleted meanwhile is answered 500
  (270, against 65-68).
- A PATCH without a config writes every column back, the sealed config it had read
  too, over one that another PATCH has stored meanwhile
  (`api/alert_methods.rs:266`, against 260-265). Such channels are in `undone`.
- The sweep between `set_emitter` and `touch_seen` deletes an emitter that was
  just heard (`db/repo/emitter.rs:888`, against 892-893).
- An unknown `entity_id` is answered 500 (`api/emitters.rs:811`, against 84-85).
- A named device that was first heard without its name gets a second emitter
  (`core/classify.rs:463`, against 411-412); a client first seen probing keeps
  its ephemeral class after it has associated (`db/repo/emitter.rs:914`, against
  `api/ageout.rs:4-8`); a sub-GHz decode with the id of a tire goes to the tire
  (`api/ingest/matcher.rs:147`, against `classify.rs:562-565`).
- The map's total and its points are two statements, and a row between them is
  left out unmarked (`db/repo/emission.rs:575`, against 388-391).
- The agent's attachments do not touch the emitter's window
  (`mcp/tools/writes.rs:88`, `writes.rs:142`), so that an emission from before or
  after it is outside until a backfill reads it. Such emissions are in `missed`.
- The agent's tools: an error half way names nothing of what persists
  (`api/mcp/tools/mod.rs:362`, against `mcp/audit.rs:35-37`; `ErrorsNameTheirRows`
  states the documented behaviour, and `LogIsTrue` leaves such calls out); a filter field of
  another JSON type is ignored in a deletion
  (`mcp/tools/subtractions.rs:54`, against `tools/mod.rs:281`); attributes are
  merged into what was read and written back whole (`writes.rs:171`, against
  `tools/mod.rs:129`); `delete_emitter` takes verified links with it
  (`subtractions.rs:148`, against
  `docs/attribution-evidence-discipline.md:63-65`).
- A link of the pass that the operator removes is made again by the next pass.
- The agent's check of a link reads one direction and its removal takes both, so
  the verified half of a link that is half verified falls to the agent
  (`mcp/tools/subtractions.rs:120`, against 123-124, "the AI must not destroy an
  operator-confirmed link"). `OperatorsWordStands` excepts such halves; they come
  of the races above.
- Two backfills of one emitter at once: each refreshes the window from the
  emissions it sees, and the later write lacks what the other attached
  (`db/repo/emitter.rs:1029`, against 1026-1028, "still produces a correct
  min/max"). Such emissions are in `missed`.
- A rule and its query differ where a payload is not typed as the catalog says:
  arrays under a text field (`capture/wifi/security.rs:134`,
  `capture/bluetooth/props.rs:60` against `core/catalog.rs:58`) compare as their
  text in SQL and as nothing in the matcher; a JSON null is unequal to every
  value in the matcher and NULL in SQL; text under a number field fails the
  cast, and with it the whole backfill; numbers spelled with an exponent come
  back spelled out; an invalid pattern is no match in one and an error in the
  other. `Regular` states the premise under which the two agree.

## 4. Proofs

Each theorem holds for every value of the constants that satisfies its module's
named assumption: any number of rows, nodes, sources, clients, faults, restarts.
The assumptions say that bounds are natural numbers and that the value for "none"
is not a member of the set it stands beside; what else they say is noted below.
TLC checks each of them on the instances of section 3. Where a component's
assumption is a definition, the suite it is in states it as an `ASSUME` of the
instance, and the theorems about the suite rest on that; `ListenerAssumption` and
`AlertsAssumption` are hypotheses of their theorems. Every invariant and action
property of every passing run is the conclusion of a theorem.

*SensorForwardingProofs* (`ForwardingAssumption`)

- `ForwardingTypeOK`, `DeliveredWasSettled` (`AckedIsSettled`),
  `ForwardingImplementsDelivery` (every step is a step of `ReliableDelivery` or a
  stutter).
  `AckedIsSettled` is not inductive. A row joins an ACK when its finalize ends, so
  the handler in stage `finalizing` must be known to have inserted the oldest row
  of its batch (`FinalizingIsKept`); and a batch must hold only captured rows
  (`BatchIsCaptured`), so that settling one is a step of the abstract
  specification. `DeliveryInv` is the conjunction. One lemma per kind of change
  to an exchange (`SoundExchange`, `ExchangeStep`, `DoneStep`) carries most
  actions.
- `NoLateAdmission` (`RevokedNeverAdmitted`) and `RevokedIsDark`
  (`RevokedStaysDark`), with any number of approvals under way. While there is an
  exchange that was sent after the revocation, the sensor is revoked
  (`LateIsRevoked`, `RevocationInv`): only an approval that had passed its check
  undoes that (`RevokedForGood`), and then no exchange is late any more.
- `NothingAnnouncedTwice` (`AnnouncedOnce`). The announcements of
  a row and the handlers between inserting and finalizing it are together no more
  than its insertions, of which there is a second one only after an erasure
  (`AnnouncementInv`, `CountIsBounded`): two handlers on one batch share these.
- `NothingIsPassedOver` (`StoredIsAnnounced`), which is inductive. No step takes a
  handler out of a finalize it has begun unless the row is announced or goes to
  `cut` (`NoneIsLost`), whatever another handler makes of the same batch.

*SensorEnrollmentProofs* (`EnrollmentAssumption`)

- `EnrollmentTypeOK`, `KeysAreClaimed` (`StoredKeyWasClaimed`),
  `ApprovedFingerprintFixed` (`ApprovedPairFixed`), `ShutAfterStart`
  (`ShutSinceStart`), `DismissalHolds` (`DeadStaysDead`).
- What an approve handler carries must be sound while others write: its row
  exists, its key was claimed for that id, and before it sets the status a key is
  on file (`ApprovalOK`); a handler about to write was let in since the last
  start (`EnrollOK`). `KeyringInv` adds that fingerprints, too, were claimed. The
  lemma `ApprovalStands` says what others may do to the tables under an
  approval's feet; every action is shown to do no more.

*NodeSetupProofs* (`NodeAssumption`)

- `SetupTypeOK`, `ConfigStaysValid` (`ConfigIsValid`), `PasswordSetOnce`
  (`SetOnce`). What a request carries past its check may be stored whatever
  others did meanwhile (`RequestsAreSound`); `SetupInv` is that with the types
  and `ConfigIsValid`.
- `LimitsAreKept` (`LimitsHold`). The limiter reads before the attempt and counts
  after it, so the window can pass its limit; `LimitInv` says by how much: the
  failures counted and the logins under way are together fewer than the limit
  and the clients. It also has that the permits given out are no more than there
  are, and that without dropped handlers exactly the permit holders hash. The
  sums are of cardinalities, from `FiniteSetTheorems`.

*IngestProofs* (`MatchingAssumption`; `RuleAssumption`: payloads have the fields of
a catalog, and rules a sequence of conditions, well-formed or not;
`BindsAssumption`: the caps of the routes, with 60 more for filters and page, are
within what Postgres takes; `PagingAssumption`)

- `MatchingTypeOK`, `SnapshotsAreExact` (`CurrentSnapshotIsExact`). Whoever has
  created an emitter and not told the index yet makes the index differ from the
  table although versions may agree later: the pending creations account for the
  steps of the version between the index and the table (`ExactButPending`), they
  are in order (`PendingInOrder`), newer than what was appended
  (`AppendedIsOlder`) and still in the table as they were created if nothing but
  creations came after them (`PendingIsListed`). `LagInv` is the conjunction, over `BaseInv` (types, creation
  order, reads are of the past). That a first match exists is the least-element
  principle of the well-founded order on naturals (`LeastExists`).
- `AnswersWereLive` (`AnswersAreLive`), all three parts. `AnswerInv`: what an
  ingest carries was live at a moment of that ingest, through the snapshot too
  (`SnapshotWasRight`, `PendingWasSeen`), and whoever is about to create saw that
  nobody claimed the device (`CreationWasCalledFor`). `GapInv`: as
  long as nothing is disabled or deleted, an emission that a rule claims is
  attached, or its own ingest will attach it, or a backfill that will is due
  (`SeenTo`, on `NothingIsLost`, `LeftAlone`, `StagesAreHonest`,
  `EmittersAreDistinct`).
- `PagesStayComplete` (`PagesAreComplete`): any table, order, size of a page and
  number of changes. What was shown is no fact about pages already turned, since
  rows move under them. `ListingOK` says it by rank: of the rows that stayed, those
  whose rank the listing has passed were shown, unless a row has left. A row that
  is inserted or rises only raises the rank of one that stays, and a page is the rows
  of a range of ranks, so turning it passes just those; a rank passed and never shown
  would need a rank to fall, which only a removal or a row that sinks does.
- `QueriesMeanWhatTheySay` (`QueriesMeanTheirRules`): any fields, any conditions in
  any number. `QueryMeansRule`: where rule and emission are `Regular`, the value of
  each clause agrees with its condition (`ClauseAgrees`, by operator and type), and
  none is an error, so connecting them gives what `Eval` gives. That a built
  statement numbers its parameters in the order they are bound is an invariant of a
  loop (`BuiltOK`, `Numbered`; `Agree`, `After` for the list routes); the loop is a
  function of how many of its turns are done, and the first turn that would break
  the invariant is refuted (`StepsExist`, `RunsExist`: the least counterexample, by
  `WFMin`). The caps bound how far `WithinLimit` can count.

*CaptureSupervisorProofs* (`SupervisorAssumption`)

- All rest on the lock: `CallsInv` says that exactly the call that is past it
  holds it, at every stage and through cancellations, and that a call in progress
  has a source. `SupervisorTypeOK` is `SupInv`, with the types of the rest.
- `SessionIsOpen` (`SessionCoversRunning`), from `SessionInv`: between opening the
  session and spawning into it the starting call keeps it open; a session is
  closed only under the same lock, while nothing runs.
- `OneLocation` (`OneLocationSource`), from `LocationInv`: a start past its check
  is the only one, and no location source has a handle until it spawns.
- `ReportsHold` (`ReportsAreTrue`), from `FailureInv` (nothing is reported, and no
  channel closes by itself, before a device has died) and `TruthInv` (a row that
  does not tell the truth is about to be written by the call in the lock).

*ZoneAlertsProofs* (`AlertsAssumption`: also, rules and methods are different
things, and the ingests are finitely many)

- `CrossingsHold` (`CrossingsAreTold`; `CrossingsAreToldHere` in
  *CaptureSupervisorProofs* is the same of the run it is checked in), all parts. `CallsInv`: at each stage
  of a call, what it may have listed, has still to fire, to send and to store, all of
  it of the one trigger its comparison found. `SeenInv`: all of that was enabled at
  some moment of the call. `CountInv`: alerts sent and the calls that have still to
  send one are together no more than the changes written, and likewise alerts
  stored against sent. `ExactInv`: if nothing failed or was switched, these
  are equalities. `HostInv`: the one pump compares the host, so that entries and exits
  written alternate, and it fires for the side it wrote.

*DevicesProofs* (`ListenerAssumption`, `RadioAssumption`, `TimeoutsAssumption`,
`ThrottleAssumption`, `WifiAssumption`, `WidthsAssumption`; `IdentityAssumption`:
no device is named after another's address, which would give it that one's
`identity_key`)

- `ListenersHold` (`ListenersAreKnown`), all parts. `TableOK`: the table says
  exactly which task serves. `CallOK`: a call that starts a listener has the lock
  and saw no task. For rows that tell the truth, `RowsInv`: of a source that is not
  `disturbed` no start meets a stop, its row is wrong only while somebody is about
  to write it (`Served`, `TakenOut`), and when it goes there is nothing left to
  serve (`RowOK`).
- `JudgesOfConfigAgree` (`ConfigJudgesAgree`): any widths and numbers. A PATCH, an
  edit by hand and a start each judge a row that another has written, so
  `ConfigInv` keeps what they rely on: keys that are numbers hold numbers, a row is
  in a mode of its kind, and a capturer was built from a row that was valid.
- `RadioStaysTidy` (`RadioIsLeftTidy`): any number of capturers and deaths.
  `ThreadsInv`, for `StoppedIsQuiet`: a stop joins both threads before it restores,
  and a thread that has ended stays so. `TidyInv`, for `TidyWithoutFaults`: while
  nothing has failed, whoever holds the lock has the interface, and the stage of
  its call says in which state that is (`IfaceAt`); the capturer that has the
  handle runs, so that nobody but a stop takes it down.
- `ApsStayDescribed` (`ApsAreDescribed`): any elements of any length. `AirInv`: what
  is on its way on either path is the reading of some beacon that was broadcast; two
  readings of one element are compared suite by suite (`SuitesTranslate`,
  `ReadsAlike`).
- `BluetoothStaysHonest` (`BluetoothIsHonest`): any objects, signals, timeouts.
  `StartInv`: a report of success was sent after the scan began, and a channel that
  closed before any was closed by a failure of the bus, whatever the caller sees
  first. `ScanInv`: the last emission of a device is the snapshot of one of its
  objects (`Told`), and was of one heard in full (`Heeded`). `CreditInv`: of a
  device that one adapter knows, the news not yet spent on an emission is at least
  what is still in the two streams; the streams are counted by a function of the
  position (`Holds`), which taking the head shifts by one. Two adapters' objects of
  one device share the throttle, and the bound fails for them; the property
  excepts them.
- `DevicesStayTellable` (`DevicesAreTellable`): any number of frames. `IdentityInv`:
  an emission stands with the first emitter whose rule matches it (`FirstMatch`),
  through creations behind it and deletions before it, since an emission of a
  deleted emitter goes with it. Two emissions alike then have one first match.
  `RetentionInv`: what was kept or dropped was judged by the level in force.

*RecordsProofs* (`RecordsAssumption`; `AssociationsAssumption`: histories are
finite; `ToolsAssumption`, `RegistryAssumption`, `MethodsAssumption`)

- `SecretsAreKept` (`SecretsSurviveEdits`): any channels, configurations, keys and
  requests at once. A PATCH writes what it made of a row that others have written
  since, so `ChannelsInv` says of it what it says of a stored row: its
  configuration parses, whatever the key (`ConfigsParse`), and is the one its client
  sends, or the one given last, unless a newer one has passed it
  (`PatchesAreSound`).
- `TablesStayConsistent` (`TablesAreConsistent`). `RegistryInv`: the row a request
  carries is valid, a deletion of a zone has hit the rules that watch it except
  those written since (`RuleRequestOK`), and one request at a time replaces the
  links of a rule and has seen all of them, but for the mixed ones
  (`ReplacedAlone`). `LinksInv`: a call that adds a link holds the rows it wrote,
  and one it passed over is gone only by a race (`AddingOK`); a half that a removal
  did not find came only by a race (`RemovingOK`). Two calls never hold one row, and
  nothing is left held by a call that has ended.
- `LinksStayExplained` (`LinksAreExplained`): any emitters, histories, windows and
  thresholds. `EvidenceInv`: the pass adds, and then records, its verdict on what it
  had loaded (`JudgedAsRead`), so a link between the commit and the evidence is of
  the grade that will be recorded (`Explained`). That the verdict is right for what
  was read (`VerdictIsSound`) is an argument about the algorithm: the walk over two
  histories pairs as many events as any pairing could (`MostAreFound`). Using up the
  earliest two that are within the window costs any pairing at most one
  (`OneEventLess`, by exchange), and those that are not, cost none; each turn of the
  walk keeps that (`WalkOK`, `WalkAdvances`), by the least turn that would not.
- `AgentStaysAudited` (`AgentIsAudited`), for every tool that names ids. `CreationOK`:
  at each stage of a creation what it has changed it has noted as affected, and that
  is the row and what it has done of its list; `named` is what the audit row makes
  of that. `OthersOK`: the other tools have written only the row they are about and
  what is in their list, and that list is done when a call comes to its end well.
- `NothingIsDestroyed` (`NothingGoesUnasked`, an action property), from `LinksInv`
  and `AgentInv`. The agent's removal sees a verified row only if it was confirmed
  after its check, or is half a link (`UnlinkingOK`); a deletion by filter has a
  filter or asks for all, and an entity to be deleted was not verified
  (`AgentCallOK`).
- `RecordsStayTrue` (`RecordsFollowTheirSource`): any number of requests at once
  beside ingests, sweeps and the agent's statements, of which the run has one.
  `RequestOK`: a request has
  the emitter it will insert to itself; its row cannot be deleted once it has
  attached to it; and what it has read of the window covers all that is the
  emitter's and not overtaken. An emission whose ingest has yet to widen the window
  may have gone to another emitter meanwhile, and is in that one's (`Covered`).

Only model-checked are the six liveness properties (`BacklogDrains`,
`StaysOnline`, `PendingFollowsNode`, `CallsReturn`, `Recovers`,
`ModeFollowsRole`): they need fairness and with it ENABLED, which is outside the
prover's reach. `LinksComeInPairs` and `SoundRowsAreStored` are false. Induction over data is not available
as a theorem to cite; where a loop had to be reasoned about, it is a recursive
function of the number of turns and its invariant is shown by least
counterexample.

## 5. What is left out, and why

- Contents of emissions, encryption, encodings: no property tells them apart.
  A batch opens or is rejected. The replay window compares clocks.
- Clocks: the 30 s and 60 s timers, the login window and the retention period
  are the events that they have run out.
- Collisions of fingerprints; the `auto_group` flag; `source_ip`; deletion of a
  listener with its keyring.
- `ForwarderHealth`'s counters and the status page built from them.
- Grouping an emitter under an entity: a statement of finalize whose result only
  `ZoneAlerts` reads, as the second subject of an emission.
- Several zones: each is compared on its own, in one loop. The SQL of
  containment is a choice of inside or outside.
- The notification's read mark, reordering and listing of data sources, the
  listing of evidence, the counts of the dashboard: one query each.
- Browser sessions and WebSocket events: nothing reads them back.
- Localization, co-travel and the RF diff: floating-point statistics over stored
  rows that nothing depends on.
- Vendor and device-type attributes, display labels, filter tokens: layout.
- Drivers of RTL-SDR and GPS, enumeration of devices, the mock source: device
  I/O without shared state. Byte offsets and truncation in Wi-Fi frames.
- The MCP server's protocol, guard, and the tools that read or analyse. The web
  console.

## 6. Plan

1. *(done)* The forward path, the keyring, the supervisor, matching, alerts,
   setup, the rule language, links, records, identity, the agent's tools, the
   registry, queries and pages, the listener, the capturers: modelled and checked.
2. *(done)* Every invariant and action property of the runs is a theorem.
3. The parts that are not modelled: the second subject of an emission's alerts
   (grouping under an entity), deletion of a listener with its keyring, the
   reading tools of the agent and its guard.
4. Liveness in parts the prover can state: that each stage of a start, stop or
   exchange has a bounded number of steps to its end, as an invariant over a
   variant.
