# Formal model of mini-ocs-nos

TLA+ specifications, TLC runs and TLAPS proofs for mini-ocs-nos: the network
operating system of an optical circuit switch that turns gNMI configuration into
cross-connections of a (simulated) switching matrix. Paths below are relative to
the repository (`src/`).

## 1. The system

```
 gNMI Set ──WATCH/MULTI/EXEC──> CONFIG_DB + OCS_CONFIG_EVENTS
                                    │
                                ocs-orch ──> APPL_DB, DEVICE_DB, ALARM_DB, COUNTERS_DB
                               │    ▲    ▲
           OCS_DEVICE_COMMANDS │    │    └── OCS_DEVICE_RETRIES (written by orch itself)
                               ▼    │ OCS_DEVICE_RESULTS
 OCS_FAULT_COMMANDS ──────> ocs-syncd ──> STATE_DB, COUNTERS_DB, ALARM_DB
                                    │ UDS request/reply
                                ocs-hwsim (the matrix)
 gNMI Get / Subscribe <── snapshots, OCS_STATE_EVENTS, OCS_ALARM_EVENTS
        └──> web gateway ──WebSocket──> dashboard
```

Redis has no transaction across logical databases. Every handler is therefore a
sequence of atomic per-database transactions, each guarded by a once-marker, and
the stream entry is acknowledged last. A process that throws exits and is
restarted; the entry it was working on stays pending and is claimed again after
an idle time. There is one active instance of each process
(`docs/limitations.md`).

What makes this hard, listed line by line under `hazards` in `PROJECT.json`:

- a crash between any two transactions of a handler of orch or syncd, with the
  other streams going on until the entry is claimed again;
- results, timeouts and retries that arrive after a newer Set has taken over one
  or all members of their batch;
- requests and replies lost or run late, so that a batch may or may not have been
  applied, and may be applied after newer ones;
- restarts of the device, out-of-band drift and failing ports, each repaired by a
  command computed from a snapshot that others change before it is executed;
- alarms and counters kept in different databases;
- Sets that read key by key and commit optimistically;
- subscriptions that combine a snapshot and a stream, and a browser that combines
  a stream and refreshes;
- a stream blocked by an exception that repeats on every claim.

## 2. Modules

| module | models | source |
|---|---|---|
| `ConnectionStateMachine` | the apply status, `canTransition`, and the two walks of the table | `cpp/src/connection_state_machine.cpp` |
| `Orch` | ocs-orch: the three handlers, alarms, crash and restart, claim idle time and backoff | `cpp/src/orchestrator_service.cpp` |
| `DevicePlane` | ocs-syncd's command loop and generation recovery and the matrix, one step per effect orch can see | `cpp/src/syncd_service.cpp`, `simulated_ocs_device.cpp` |
| `ControlPlane` | the composition of committed Sets, `Orch` and `DevicePlane` | |
| `SetCandidate` | the candidate of a Set as operators: fold of the operations, validation, changes, event | `python/gnmi_server/set_transaction.py` |
| `ConfigStore` | what a Set promises: one atomic step (abstract specification) | |
| `GnmiSet` | concurrent Sets, one Redis round trip per step | `python/gnmi_server/redis_repository.py` |
| `Device` | ocs-hwsim's device: matrix, port maps, fence, replay cache, faults, drift, restart | `cpp/src/simulated_ocs_device.cpp` |
| `DeviceLink` | the UNIX socket: `UdsDeviceBackend` and `UdsServer` around `Device` | `cpp/src/uds_device_backend.cpp`, `uds_server.cpp` |
| `SyncdData` | ocs-syncd's data: databases, markers, the bounded troubles | `cpp/src/syncd_service.cpp` |
| `SyncdApply` | `processOne`: every write of it a step | same |
| `SyncdPorts` | `pollPortStates`: fault records, alarms, counters | same |
| `SyncdRecovery` | the poll of the device and `scheduleGenerationRecovery` | same |
| `SyncdReconcile` | `reconcileDevice`: plan, control record, drift states, alarm, counters | same, `cpp/src/reconciler.cpp` |
| `SyncdPlane` | the composition of the four over `Device`, with Sets and a reduced orch | |
| `CommandService` | what syncd promises the publishers of commands (abstract specification) | |
| `Subscribe` | one gNMI subscription against the writers | `python/gnmi_server/subscribe_transaction.py`, `subscribe_repository.py` |
| `FaultCommands` | managed faults: caller, stream, `processFaultOne`, over `Device` | `python/gnmi_server/fault_transaction.py`, `cpp/src/syncd_service.cpp` |
| `Telemetry` | the event stream of the web gateway and the dashboard that merges it with refreshes | `python/web_gateway/app.py`, `web/src/dashboard.ts` |
| `MC*` | the instances TLC checks (`*.cfg`) | |
| `OrchProofs`, `ControlProofs`, `CommandProofs`, `SyncdProofs`, `SetProofs`, `LinkProofs`, `SubscribeProofs`, `FaultProofs` | proofs (section 5) | |

The exact lines of each definition are in `map` in `PROJECT.json`. Mutated
operators (section 4) stand directly before the definition they would replace,
under a comment that begins with "Mutant", and are used nowhere else.

Conventions in all modules: one action per Redis transaction, device call or
await; `pc` is the next phase of a process; a batch is a function on all
connections in which a connection that is no member has the operation `"NONE"`;
version 0 stands for an absent key.

**Orch.** The variables are the unacknowledged entries of the four streams, the
two snapshot databases (`appl`, `device`), the once-markers exactly where the code
keeps them (`applMarks`, `deviceMarks`, `applTimeout`, `deviceTimeout`, `raiseMarks`,
`clearMarks`, `countMarks`), the alarms and their counter, and the process. `wait`
are the streams whose first entry was claimed by a process that died; `due` says
that the backoff of the first retry has elapsed. A command id is `[src, n, try]`. `Crash`
forgets `pc` and puts the stream in `wait`; an exception (`requireTransition`) is
`pc = "...Exit"`, after which only a restart is possible.

**DevicePlane.** A command is dropped as stale (`isStaleVersion`), refused by the
fence, applied, or fails the way a fault makes it fail: an error or timeout the
device reports without acting (then `confirmAppliedResult` reads the matrix), or a
lost reply, after which the batch may or may not have been applied.

**Set.** A call watches, reads the revision, the keys, each connection, the device
and the ports, checks each connection's ports in turn, and executes; another call or an
administrative change may come between any two. A connection to Redis that is lost, or a
socket that times out, while keys are watched is a WatchError of the client library (redis-py
6.4.0, external), so that `_commit_candidate` repeats the Set; at the EXEC the transaction
may have been executed all the same (`ReplyLost`). The server's deadline may end a call at
any await. `GnmiSet` EXTENDS `ConfigStore` and shares its variables, so
that the refinement mapping is the identity and `ImplementsStore` is `StoreSpec`.
The administrative status of the device and of ports is only read by a Set; its
changes are an external input.

**DeviceLink.** Up to `Slots` sockets exist at once. A timed-out call leaves its
request with a worker that may run it at any later time, or never. Request ids
repeat after `IdSpan` (2^64 in the code). A frame arrives whole or not at all.

**Syncd.** `pc` runs through the calls of one handler; a crash between any two
forgets what is in memory (the cached generation, the accumulated delta) and keeps the
databases. The reads of `confirmAppliedResult` are one step. A poll that cannot reach
the device publishes FAILED with the cached generation. `reconcileDevice` loads the desired
connections, and looks up which are settled or failed, key by key, and others may write in between. Orch is reduced to what
syncd sees of it: a config event is two steps, a result is one, no retries, no
crashes; those are the subject of `Orch`. Redis calls that fail inside a poll are not
modelled.

**Subscribe.** Writers replace a snapshot and append its event in one
transaction, except a port's first snapshot, which comes without an event
(`docs/redis-schema.md:283-285`). A SCAN is one step. Events may be handled in any
order, since they are sorted by time stamps taken before the transactions. With
`updates_only` the first payloads are recorded without being sent; nothing else differs.

**FaultCommands.** `execute` appends and polls until a deadline. What an apply between two
commands uses up of a one-shot fault is left out. Malformed commands, which the
server never appends, are left out too.

**Telemetry.** A resource is a version number. The answers of refreshes in flight arrive in any
order; `overtaken` remembers that the last one to arrive was not the newest. Deletions, and the counters and
diagnostics that are not streamed, are left out.

Abstracted everywhere: texts, time stamps, lengths of timeouts, JSON.

## 3. What TLC checks

| run | instance | states | properties |
|---|---|---|---|
| `control_restarts` | 1 connection, 2 Sets, 1 retry; 1 crash, 2 faults and 1 restart together | 889 k | `TypeOK`, `NothingNewer`, `NoDuplicateCommand`, `RetryBound`, `MatrixNeverBack` |
| `control_batches` | 2 connections, 2 Sets, 1 retry; 2 faults and a crash, or 2 crashes | 2.17 M | `TruthfulStatus`, `RetryWholeBatch`, `AlarmsCounted`, `Agreement`, `PublishedIsCurrent` |
| `control_progress` | 1 connection, 2 Sets, 1 retry; 1 crash and 2 faults; fair | 60 k | `WaitHasRetry`, `SuccessClearsAlarm`, `EventsAcknowledged`, `Settles` |
| `set_concurrent` | 2 connections, 2x2 ports, 2 calls in flight, 4 plans, 3 inputs or lost connections, 2 retries | 780 k | `NoPortShared`, `TruthfulOutcome`, `RetryJustified`, `RepeatedOverOthers`, `ImplementsStore` |
| `link_calls` | 3 commands on 2 connections, 2 sockets, cache of 2, ids that repeat after 2, 2 crashes or faults; fair | 790 k | `MapsAgree`, `LiveOpRunsOnce`, `FailureHasCause`, `NoStrayReply`, `LateRequestHarmless`, `EveryCommandSettles` |
| `syncd_troubles` | 2 connections, 1 watched port; 1 Set with any two troubles, or 2 Sets with a crash and a restart, fault or lost reply, or with two restarts | 772 k | `LedgerBalanced`, `NothingSilent`, `DownIsAlarmed`, `AlarmCountExact`, `StateNeverBack`, `ImplementsService` |
| `syncd_repair` | 2 connections, up to 2 Sets; a drift and a crash, a port failure, a restart and a crash, or two restarts; fair | 155 k | `EventuallyRepaired` |
| `subscribe_stream` | 2 connections, a port, an alarm, 3 paths, 3 writes, reads of 2 events, 1 failure; fair | 832 k | `NothingMissed`, `NeverBack`, `CatchesUp` |
| `faults_stream` | any 3 of 7 commands in any order, 1 crash, 1 lost reply; fair | 771 k | `PortsAsCommanded`, `NoFalseSuccess`, `StreamDrains` |
| `web_stream` | 2 paths, queue of 2, 2 requests in flight, 2 reconnects; eleven combinations of writes, outage, failed refresh, input, break, expiry, abort and refusals; fair | 435 k | `FreshAtRest`, `ComesBack` |

What the properties say is written above each of them. The ones that carry most:

- `NothingNewer`: APPL_DB is ahead of everything downstream of it, so the
  exception "device result is newer than application state" is never thrown.
- `TruthfulStatus`: ACTIVE and ABSENT are what the matrix holds. It is checked
  without restarts: after one, the status is by design wrong until the recovery.
- `Agreement`: whatever crashed, at rest CONFIG_DB, APPL_DB and DEVICE_DB agree, except on
  the status of a batch that a crash left moved in one database and that a newer Set then
  took over in part (`HalfMoved`).
- `AlarmsCounted`: the alarms, their counter and the markers of what is not yet counted add
  up at every moment, and at rest no more is uncounted than there were crashes.
- `ImplementsStore`: colliding Sets behave like atomic ones.
- `TruthfulOutcome`, `RepeatedOverOthers`: a Set is executed once, and not at all if it is
  refused, up to one execution for each connection it lost; and it is executed again only
  when another Set has come in between.
- `LiveOpRunsOnce`, `LateRequestHarmless`: at-most-once execution and the version
  fence make up for a transport that may deliver late.
- `LedgerBalanced`: the counter of active connections and the changes still
  recorded in markers add up at every moment, so that a crash can be made good.
- `NothingSilent`, `EventuallyRepaired`: a difference between what is desired and
  what the device carries is known to somebody at rest, and is repaired.
- `ImplementsService`: whatever crashes, syncd finishes commands in order, answers
  a member at most once, and answers for the whole batch with one outcome.
- `NothingMissed`, `NeverBack`, `CatchesUp`: snapshot and stream fit together.
- `PortsAsCommanded`: a replayed fault command never undoes a later one. Requests
  given up once are exempt: the device may run them at any time.
- `FreshAtRest`: a dashboard with nothing left to do shows the state or an error.

**Bounds.** `ControlPlane`, `SyncdPlane` and `Telemetry` take a set `Troubles` of combinations
that may come together, and every trouble asks whether what has happened so far
with it still fits in one of them (`Within`, `Use`). One run thus covers several
small mixtures without their product. `MaxInputs` (Set calls and administrative
changes), `MaxTroubles` (crashes and faults on the link) and `MaxCommands` are joint
bounds of the same kind. Bounds guard inputs and troubles only: what the program
does with them is never cut off. (`MaxReconciles` names the operation ids of an
instance and is never reached.) Two Sets are the least with which one supersedes the other, two
connections the least with which a batch is taken over in part, one retry and two
faults the least that reach both the retry and the limit; two calls in flight and
a third input are the least with which a call is disturbed, retried and disturbed
again; three commands with a cache of two are the least that evict an entry; a queue
of two is filled by the first payloads, so that the producer waits. More of each
repeats the same pairs. The theorems of section 5 hold for all values.

**Conditions.** A property that the code keeps only under a condition states the
condition. `Agreement` names the half-moved batch. `AlarmCountExact` allows a difference of one for each
crash of syncd; `NothingSilent` is about behaviours without drift (unnoticed until the next
poll) and with at most one restart, and names the one state a crash leaves behind
(`LeftDrifted`); `DownIsAlarmed` is checked with one failure of the port, `Agreement` and
`TruthfulStatus` without restarts, `WaitHasRetry` and `SuccessClearsAlarm` with one connection.
`EventuallyRepaired` assumes that ports stay up in
the end, and its run has the combinations reconciliation is meant for. It is
not expected after a fault or a lost reply, because a cycle that failed is not
published again with the same signature (`cpp/src/syncd_service.cpp:1169`). `ComesBack` assumes
that the page was not refused or cut off as often as it tries again. `FreshAtRest` leaves out
the dashboard whose last answer had been overtaken. What
happens beyond each condition is in section 6.

**Fairness.** Only loops that the code runs unconditionally, and time, are fair:

- `ControlPlane`: orch's and syncd's steps (loops, restarted by the supervisor:
  `docker-compose.yml`, `restart: unless-stopped`), the claim idle time, the backoff;
- `DeviceLink`: syncd's thread, which every receive leaves at the latest by its timeout, or a
  worker of the server, whichever can run: no fairness between them is needed;
- `SyncdPlane`: syncd's thread and the reduced orch;
- `Subscribe`: the coroutine of the subscription; no writer and no client;
- `FaultCommands`: the loop that calls `processFaultOne`; not the callers;
- `Telemetry`: the event loops of gateway and browser; not writes, users or outages.

Sets, crashes, faults, drifts, restarts and failures are never fair, and are
bounded: a process that always crashes makes no progress.

Deadlock is checked in the runs of `ControlPlane`, `SyncdPlane` and `Subscribe`.
`GnmiSet`, `DeviceLink`, `FaultCommands` and `Telemetry` really come to an end when
the inputs are used up, and their configurations say so; that they do not end too
early is what their liveness properties, or for Sets `ImplementsStore` and
`RetryJustified`, are about.

## 4. Mutants

`PROJECT.json` names for each property of each run a mutated definition that breaks
it in the same instance: a dropped marker (`PublishUnmarked`), an off-by-one in a
version comparison or in the retry limit, a WATCH that forgets the ports, a replay cache
that keeps successes only, a socket that is not closed after a failure, a cycle
abandoned by a crash, a tail captured after the snapshots, a result recorded as
done although its reply was lost, and so on.

## 5. What is proved

TLAPS checks the following for every value of the constants. The assumptions are
the `ASSUME`s of the modules, which TLC evaluates in the runs: counts and
limits are natural numbers; connection ids and ports are numbers (ports from 1);
plans are non-empty sequences of operations (`SetAssumption`); the versions in
batches are revisions, from 1, and no more sockets are left behind than the replay cache
holds results (`LinkAssumption`); every subscribed path covers at least one resource and
the two streams carry different ones (`SubscribeAssumption`).

**Control plane** (`OrchProofs`, `ControlProofs`).

- `TypeCorrect`: `Spec => []TypeOK`. `TypeOK` alone is not inductive:
  a phase in the middle of a handler reads the entry it works on, the batch it has
  prepared or a timeout decision stored earlier. `PhaseOK` says what each value of
  `pc` guarantees to exist, and `SyncdPhaseOK` the same for `spc`; the invariant is
  `TypeInv == TypeOK /\ PhaseOK /\ SyncdPhaseOK`. `OrchProofs` proves the steps of orch
  without the rest of the system; `ControlProofs` adds the device side and Set.
- `NothingNewerThanAppl`: `Spec => []NothingNewer`. The strengthening
  `OrderInv` adds what is on its way: the batch staged by a config event that APPL_DB
  has (`PhaseOrder`), the prepared batches (`PreparedOrder`), the batches inside results, the
  recovery being planned, and that every write to APPL_DB keeps or raises the version
  (`ApplGrows`), so that what was known stays known. Its lemmas are one per handler
  (`OrchProofs`).
- `MatrixVersionsGrow`: `Spec => MatrixNeverBack`, from `FenceInv`: no entry
  of the matrix is above its version fence, which only a restart lowers.
- `PublishedOnce` (`Spec => []NoDuplicateCommand`), `RetriesBounded` (`Spec => []RetryBound`) and
  `PublishesOnlyCurrent` (`Spec => PublishedIsCurrent`), all from `OnceInv`. That no two
  entries share an id is not inductive: a phase resumed after a crash would append the command
  again. `SentInv` therefore ties every place that holds an id to the once-marker of the id: a
  command in a stream, in a result, in a retry or in a stored timeout decision has been
  marked (`StreamSent`, `TimeoutSent`), stands for one prepared batch, and carries no more
  attempts than the limit; the batch of a marker not yet set is run by every member
  (`StagedMarks`, `PhaseSent`), which is what makes the command current when it goes
  out; and a snapshot never returns to a command that was retried (`RetryMarks`), so that a late
  timeout cannot use the id of a retry again. The composition adds that what syncd has processed is
  marked, that versions are revisions given out, and that a recovery command carries a
  generation no other has.

**Commands of ocs-syncd** (`CommandProofs`, `SyncdProofs`): `SyncdServes`
(`Spec => ImplementsService`), for any connections, batches, ports, troubles and limits. A
command counts as done once it is processed, which may be before it is acknowledged
(`Finished`). `ServiceInv` has the data and where the thread is. Data: the ids of the commands
differ, and what would give an id out again is gone or marked (`FreshOK`: the
events left are newer than every Set command, the recovery key of a generation stays, a
reconciliation leaves its marker); the processed commands are the acknowledged ones and
at most the next (`TurnOK`); an answer is to a member of a published command, repeats its stored
result or reports the member unchanged, and has its marker, and a marker its answer
(`AnswersOK`), so that a command taken up again after a crash answers the rest of its members
and with the same outcome. Thread: the answers of the command in hand are given in the order
of its members (`ApplyPhase`). `CommandProofs` proves the steps of `processOne` and says what any other
step has to keep; `SyncdProofs` shows that polls, recovery, reconciliation, orch, the
management client and the device do. The assumption is that `OpIds` has the ids the
troubles can use up (`SyncdAssumption`) and that no batch is empty (`PlaneAssumption`).

**Sets** (`SetProofs`): `SetIsAtomic` (`Spec => ImplementsStore`), `OutcomesAreTruthful`
(`Spec => []TruthfulOutcome`), `RepeatsOnlyOverOthers` (`Spec => RepeatedOverOthers`),
`RetriesArePaidFor` (`Spec => []RetryJustified`). The invariant `SInv` says of each call: as long
as no watched key has been written since WATCH, what it has read so far is what CONFIG_DB holds
(`ReadsCurrent`); each port it has checked it has checked on that (`Checked`); its
outcome, commits, retries and lost connections add up (`Accounted`); and as long as the last
commit of all is its own, its plan has nothing left to change in CONFIG_DB (`Remembers`). An EXEC that is not
refused is then the atomic Set of the moment, and every other step is a stutter of the store. That
a repeated Set has nothing left to change over its own result needs that a plan is idempotent
(`SettledOnce`): along the operations, applied a second time, each port of a connection is what
it will be in the end or what it was the first time. TLC
checked `SInv` on the instance of `set_concurrent` first. `PortsNeverShared`
(`Spec => []NoPortShared`) follows from `SetIsAtomic`: an atomic Set overwrites exactly what
differs from the candidate it has validated, so that CONFIG_DB is the candidate afterwards.

**Link** (`LinkProofs`): `MapsDescribeMatrix`, `RepliesAreAwaited`, `LateRequestsAreHarmless`.
`TablesInv` adds to `MapsAgree` that every connection lies on ports there are and that no two
share one, which the checks before `Install` establish and `Drift` needs to clear the
right ports. `RequestInv` says that on the client's socket there is at most one
packet, its request or the reply to it, and that nothing waits on a socket its client has closed;
this, and not the request id, is why no stray reply is taken. The fence needs
`~Overtaken` and that versions are not 0 (`FenceHolds`).

**Subscribe** (`SubscribeProofs`): `NoChangeIsMissed`, `NothingGoesBack`. `Covered` says that a path
that differs from the database is still to be read, or an event about the resource is
in the batch or behind a cursor, and `ReadOK` that what was read is exactly what stands behind
the cursors, so that advancing them passes nothing over. `Ordered` says that what is
being read is no older than what was sent and no newer than the database.

**Fault commands** (`FaultProofs`): `SuccessIsNeverInvented`, `PortsEndAsCommanded`. `FaultInv` adds to
`NoFalseSuccess` the result in hand and the one stored. `StreamInv` says that
commands are acknowledged in the order of the stream and that the device has run nothing behind
the first one left; `PortInv`, that a port is as the last command about it that the device has run
says. A repeated command is therefore always the last one run.

**Only model-checked.** The liveness properties are outside this prover's reach.
`LiveOpRunsOnce` depends on counting how many requests can be left behind at once. The other
properties of `SyncdPlane`, the properties at rest (`Agreement`, `AlarmsCounted`,
`SuccessClearsAlarm`), `RetryWholeBatch`, `TruthfulStatus`, `FailureHasCause` and
`FreshAtRest` are checked on the instances of section 3.

## 6. Where code and documents disagree

Two disagreements are kept as runs that TLC refutes; `findings` quotes the sentences.

| run | what happens |
|---|---|
| `claim_config_resumed` | orch crashes in a delete and a generation recovery completes the removal: the resumed delete asks for ABSENT -> PENDING_DELETE and throws on every claim; the config stream is blocked |
| `claim_drift_repaired` | the device drifts a second time in the same way before a poll has found the first drift repaired: the signature matches a cycle that is APPLIED, and no poll publishes a command again |

The others were found the same way. They are the reason for the conditions and
combinations of section 3, and each comes back when the one named here is lifted.

Ocs-orch (`cpp/src/orchestrator_service.cpp`):

- 674, 633: a batch times out after a newer Set took one member over. The handler
  returns, and the others stay APPLYING; `docs/redis-schema.md:359` says "every member of the
  atomic command batch" moves. (`WaitHasRetry` is checked for one connection.)
- 796: the same when a retry falls due: the others stay in RETRY_WAIT, although line
  363 of that document says "moves all still-current members back". A crash between moving a batch
  to RETRY_WAIT and appending its retry, followed by such a Set, has the same end.
- 633, 796: a crash between the two databases of a timeout, or of a retry, followed by such
  a Set: the resumed handler returns, and the status of the other members differs between
  DEVICE_DB and APPL_DB for good (`HalfMoved` in `Agreement`).
- 930: a crash between raising an alarm and counting it, then a newer Set: the
  increment is never made, the later clear decrements, and `active_alarms` ends at -1
  (`docs/redis-schema.md:370-374`). `AlarmsCounted` states what is kept.
- 550: a failed generation recovery for a connection in RETRY_WAIT asks for
  RETRY_WAIT -> FAILED, which `requireTransition` refuses; orch exits. (Two faults and a restart.)
- 567: a retry between the two writes of a resumed recovery result: DEVICE_DB stays
  APPLYING beside an ACTIVE application (`docs/redis-schema.md:354`). (`Agreement`: crash,
  fault and restart together.)

Ocs-syncd (`cpp/src/syncd_service.cpp`):

- 1332: a crash between publishing DRIFTED and counting its delta, and a cycle that ends
  another way: the delta stays in its marker and is never added (`docs/redis-schema.md:272`).
  `LedgerBalanced` states what is kept.
- 942: a crash between the two transactions of `publishPortAlarm` and a port that returns:
  `active_alarms` becomes -1 (`docs/redis-schema.md:290`). `AlarmCountExact` states what is kept.
- 870: a port returns after its fault was tied to a command: the success marks the
  fault RECOVERED, and later polls return without clearing the alarm
  (`docs/redis-schema.md:297`).
- 854: a port that fails again while its fault record is CLEARED or RECOVERY_PUBLISHED
  raises no second alarm (`docs/redis-schema.md:290`). (`DownIsAlarmed` with two flips.)
- 1725: the fault of a port no connection uses is tied to an unrelated
  reconciliation and counted twice (`docs/redis-schema.md:291`). (Sets that leave the watched port
  unused, a drift and a flip; no property states the count.)
- 1144: a crash between publishing DRIFTED for a failed port and the command; the port
  returns, the plan is converged, and DRIFTED stays (`docs/data-model.md:83`). The same
  happens without a port, when a reply was lost and the repair is found done by the next poll.
  (`LeftDrifted` in `NothingSilent`.)
- 1813: a removal deletes the version that `publishState` compares; an older recovery,
  refused as stale, is published as a new FAILED entry (`docs/redis-schema.md:222`). (Two Sets and a
  restart.)
- 494: the recovery of one generation is carried out after a second restart: on the new
  generation, whose fences are empty, it brings back a connection removed since, and only the
  next poll finds it (`docs/failure-model.md:24`: "fence old-generation versions"). (`NothingSilent` with two restarts.)
- 329: the replay of a one-shot fault command arms it again after an apply has used it;
  `docs/redis-schema.md:134` calls the managed set idempotent. (Not in the model now.)

Elsewhere:

- `python/gnmi_server/redis_repository.py:189`: a Set with nothing to change answers success after UNWATCH;
  it may have read one connection before and one after another commit, and is told that a
  state is persisted which CONFIG_DB never held (`docs/redis-schema.md:85`).
  `TruthfulOutcome` states what is kept.
- `python/gnmi_server/redis_repository.py:142`: a connection lost while keys are watched is caught
  as a WatchError, and the Set is repeated although its EXEC may have been executed. It may then be
  executed a second time over another Set, or be rejected or reported as unavailable although
  it is in CONFIG_DB; `docs/redis-schema.md:85` says that a "validation failure executes no
  CONFIG_DB write". `TruthfulOutcome` and `RepeatedOverOthers` state what is kept.
- `web/src/dashboard.ts:104`: `refresh` stores whatever answer arrives: when two overlap and
  the older one comes last, an idle dashboard keeps the older snapshot
  (`docs/dashboard.md:5`). (`overtaken` in `FreshAtRest`.)
- `web/src/dashboard.ts:275`: an update that arrives before the first snapshot is dropped, although the
  answer under way may be older than it. (`overtaken` in `FreshAtRest`.)

## 7. Not modelled

- gNMI paths, errors, health and process start-up (`service.py`, `path_parser.py`, `errors.py`,
  `healthcheck.py`, `server.py`), and the translation of snapshots into a Get response: no
  state of their own. The reads Get makes are in `Subscribe`.
- `ocsctl` and `ocs-hwsimctl`: one-shot clients.
- The web gateway's other routes (one call becomes one gNMI call), its middleware, and
  rendering in the dashboard.
- Frame encoding and JSON of the UDS protocol (`uds_codec.cpp`, `uds_json.cpp`): a frame arrives
  whole or not at all, and a malformed one is not sent by either side.
- Heartbeats and `pollDeviceLiveness`: they write a service status and a time stamp that
  neither orch nor syncd reads.
- The legacy single-connection events and malformed stream payloads, which the gNMI server
  never writes; the WATCH loops inside one call of the C++ repository, which are
  one atomic step.
- `reset` and `setPortAdminState` of the device, which only tests call; optical power.
- Several active instances of one process, which `docs/limitations.md:48` excludes.

## 8. Running

In this directory, `tlc -workers 2 -config set_concurrent.cfg MCSet` and likewise for the
others (`PROJECT.json` names the module of each); no run needs more than four minutes on two
cores. `tlapm M.tla` for the eight proof modules; the slowest takes about five. Most leaves cite `Zenon`:
the SMT translation of a leaf slows down all that follow in its module.
