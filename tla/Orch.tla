-------------------------------- MODULE Orch --------------------------------
(***************************************************************************)
(* ocs-orch (cpp/src/orchestrator_service.cpp, cpp/ocs-orch/main.cpp): the *)
(* loop that takes one configuration event, one device result and one due *)
(* retry in turn.                                                          *)
(*                                                                         *)
(* Redis has no transaction across logical databases, so each handler is a *)
(* sequence of phases, every phase one atomic Redis transaction guarded by *)
(* a once-marker, and the stream entry is acknowledged last.  One action   *)
(* is one phase; pc names the next one.  Orch may crash between any two:   *)
(* the entry in progress stays pending and may be claimed again only after *)
(* its idle time (wait), while the other streams go on.                    *)
(*                                                                         *)
(* Data abstracted away: ports (a connection's ports are determined by its *)
(* id and desired version), error texts, timestamps, backoff lengths.  The *)
(* versioned writes, the markers, the early returns and the state machine  *)
(* are kept.                                                               *)
(***************************************************************************)
EXTENDS Integers, Sequences, ConnectionStateMachine

CONSTANTS
  Conns,       \* connection ids
  MaxRetries   \* ApplyRetryPolicy::max_retries

ASSUME MaxRetriesAssumption == MaxRetries \in Nat

VARIABLES
  \* Streams: the entries not yet acknowledged, oldest first.
  configEvents,  \* OCS_CONFIG_EVENTS (CONFIG_DB)
  commands,      \* OCS_DEVICE_COMMANDS (DEVICE_DB)
  results,       \* OCS_DEVICE_RESULTS (DEVICE_DB)
  retries,       \* OCS_DEVICE_RETRIES (DEVICE_DB)
  \* Snapshots.
  appl,          \* APPL_DB connection snapshots
  device,        \* DEVICE_DB connection snapshots
  prepared,      \* DEVICE_DB prepared batches, by config version
  alarm,         \* ALARM_DB: {} or {activation id} of the apply-timeout alarm
  activeAlarms,  \* COUNTERS_DB active_alarms: orch's contribution
  \* Once-markers, by database.
  applMarks, deviceMarks,
  applTimeout, deviceTimeout,  \* timeout markers: command id -> metadata
  raiseMarks, clearMarks,      \* alarm markers: <<event, connection>> -> ...
  countMarks,
  \* The process.
  pc,    \* the next phase
  wait,  \* streams whose pending entry is too young to claim
  due,   \* the oldest retry's not_before_ns has passed
  todo,  \* handleTimeoutResult: members whose alarm is still to be published
  cur    \* ... and {the one whose counter comes next}

streams == <<configEvents, commands, results, retries>>
alarmVars == <<alarm, activeAlarms, raiseMarks, clearMarks, countMarks>>
applVars == <<appl, applMarks, applTimeout>>
deviceVars == <<device, prepared, deviceMarks, deviceTimeout>>
procVars == <<pc, wait, due, todo, cur>>
orchVars == <<streams, applVars, deviceVars, alarmVars, procVars>>

-----------------------------------------------------------------------------
(* Records. *)

\* A command id: "config" ids are <event id>:command, followed by one
\* :retry:<n>:command per retry (try counts them); "recovery" ids are the
\* hwsim-recovery:... and reconcile:... commands of ocs-syncd, n their number.
CommandId == [src : {"config", "recovery"}, n : Nat, try : Nat]
ConfigCommand(ver) == [src |-> "config", n |-> ver, try |-> 0]
RetryCommand(id) == [id EXCEPT !.try = @ + 1]
IsRecovery(id) == id.src = "recovery"

\* DeviceCommandBatch: the operation and version of each member; "NONE" is a
\* connection that is not a member.
Batch == [Conns -> [op : Operation \cup {"NONE"}, ver : Nat]]
NotMember == [op |-> "NONE", ver |-> 0]
Members(batch) == {c \in Conns : batch[c].op # "NONE"}
NoBatch == [c \in Conns |-> NotMember]

\* A connection snapshot; version 0 is an absent key.
App == [ver : Nat, st : ApplyStatus, op : Operation, cmd : CommandId, att : Nat]
NoApp == [ver |-> 0, st |-> "ABSENT", op |-> "UPSERT",
          cmd |-> ConfigCommand(0), att |-> 0]

\* putVersionedHashesAtomicallyIfMarkerAbsent: a target whose stored version
\* is newer than the marker's is left alone.
PutVersioned(db, ver, keys, writes) ==
  [c \in Conns |-> IF c \in keys /\ db[c].ver <= ver
                   THEN writes[c] ELSE db[c]]

\* A keyed collection of hashes: none, and one more.
NoKeys == [k \in {} |-> 0]
Put(f, key, value) ==
  [k \in DOMAIN f \cup {key} |-> IF k = key THEN value ELSE f[k]]

\* appendEventOnce on OCS_DEVICE_COMMANDS: the command and its marker in one
\* transaction, or nothing if the marker exists.
PublishUnmarked(mark, id, batch) ==
  /\ commands' = Append(commands, [id |-> id, batch |-> batch])
  /\ UNCHANGED deviceMarks

PublishOnce(mark, id, batch) ==
  IF mark \in deviceMarks
  THEN UNCHANGED <<commands, deviceMarks>>
  ELSE /\ commands' = Append(commands, [id |-> id, batch |-> batch])
       /\ deviceMarks' = deviceMarks \cup {mark}

OrchInit ==
  /\ configEvents = <<>> /\ commands = <<>> /\ results = <<>> /\ retries = <<>>
  /\ appl = [c \in Conns |-> NoApp]
  /\ device = [c \in Conns |-> NoApp]
  /\ prepared = NoKeys
  /\ alarm = [c \in Conns |-> {}]
  /\ activeAlarms = 0
  /\ applMarks = {} /\ deviceMarks = {}
  /\ applTimeout = NoKeys /\ deviceTimeout = NoKeys
  /\ raiseMarks = NoKeys /\ clearMarks = NoKeys /\ countMarks = {}
  /\ pc = "config" /\ wait = {} /\ due = FALSE /\ todo = {} /\ cur = {}

-----------------------------------------------------------------------------
(* processConfigOne *)

event == Head(configEvents)

\* claimPending, then readGroupIfNoPending, returned an entry.
ConfigClaimed == pc = "config" /\ configEvents # <<>> /\ "config" \notin wait

ConfigIdle ==
  /\ pc = "config"
  /\ configEvents = <<>> \/ "config" \in wait
  /\ pc' = "result"
  /\ UNCHANGED <<streams, applVars, deviceVars, alarmVars, wait, due, todo, cur>>

\* A batch with a member at or below its stored version is dropped whole; a
\* REMOVE of a connection APPL_DB has never held is left out of the batch.
StaleBatch(e) == \E c \in Conns : e.ops[c] # "NONE" /\ e.ver <= appl[c].ver
PreparedBatch(e) ==
  [c \in Conns |->
     IF e.ops[c] = "NONE" \/ (e.ops[c] = "REMOVE" /\ appl[c].ver = 0)
     THEN NotMember ELSE [op |-> e.ops[c], ver |-> e.ver]]

\* The event is acknowledged without further work: its command was already
\* published before a crash, or it is stale, or nothing of it is left.
ConfigSkip ==
  /\ ConfigClaimed
  /\ \/ <<"command", event.ver>> \in deviceMarks
     \/ /\ event.ver \notin DOMAIN prepared
        /\ StaleBatch(event) \/ Members(PreparedBatch(event)) = {}
  /\ configEvents' = Tail(configEvents)
  /\ pc' = "result"
  /\ UNCHANGED <<commands, results, retries, applVars, deviceVars, alarmVars,
                 wait, due, todo, cur>>

\* putHashIfAbsent of the prepared batch; a batch prepared before a crash is
\* taken as it is.
ConfigPrepare ==
  /\ ConfigClaimed
  /\ <<"command", event.ver>> \notin deviceMarks
  /\ \/ event.ver \in DOMAIN prepared /\ UNCHANGED prepared
     \/ /\ event.ver \notin DOMAIN prepared
        /\ ~StaleBatch(event) /\ Members(PreparedBatch(event)) # {}
        /\ prepared' = Put(prepared, event.ver, PreparedBatch(event))
  /\ pc' = "configApplication"
  /\ UNCHANGED <<streams, applVars, device, deviceMarks, deviceTimeout,
                 alarmVars, wait, due, todo, cur>>

\* The snapshots a config event writes to APPL_DB and to DEVICE_DB.
StagedOldVersion(ver, batch) ==
  [c \in Members(batch) |->
     [appl[c] EXCEPT !.st = Executing(batch[c].op), !.op = batch[c].op,
                     !.cmd = ConfigCommand(ver), !.att = 0]]

Staged(ver, batch) ==
  [c \in Members(batch) |->
     [ver |-> batch[c].ver, st |-> Executing(batch[c].op), op |-> batch[c].op,
      cmd |-> ConfigCommand(ver), att |-> 0]]

\* startApplyTransition from the current status of every member, which throws
\* on an illegal move, then the versioned APPL_DB write.
ConfigApplication ==
  LET batch == prepared[event.ver]
      legal == \A c \in Members(batch) : CanStartApply(appl[c].st, batch[c].op)
      mark  == <<"application", event.ver>>
  IN  /\ pc = "configApplication"
      /\ \/ /\ ~legal
            /\ pc' = "configExit"
            /\ UNCHANGED <<appl, applMarks>>
         \/ /\ legal /\ mark \notin applMarks
            /\ appl' = PutVersioned(appl, event.ver, Members(batch),
                                  Staged(event.ver, batch))
            /\ applMarks' = applMarks \cup {mark}
            /\ pc' = "configDevice"
         \/ /\ legal /\ mark \in applMarks
            /\ pc' = "configDevice"
            /\ UNCHANGED <<appl, applMarks>>
      /\ UNCHANGED <<streams, applTimeout, deviceVars, alarmVars, wait, due,
                     todo, cur>>

ConfigDevice ==
  LET batch == prepared[event.ver]
      mark  == <<"deviceState", event.ver>>
  IN  /\ pc = "configDevice"
      /\ IF mark \in deviceMarks
         THEN UNCHANGED <<device, deviceMarks>>
         ELSE /\ device' = PutVersioned(device, event.ver, Members(batch),
                                       Staged(event.ver, batch))
              /\ deviceMarks' = deviceMarks \cup {mark}
      /\ pc' = "configCommand"
      /\ UNCHANGED <<streams, applVars, prepared, deviceTimeout, alarmVars,
                     wait, due, todo, cur>>

ConfigPublish ==
  /\ pc = "configCommand"
  /\ PublishOnce(<<"command", event.ver>>, ConfigCommand(event.ver),
                 prepared[event.ver])
  /\ pc' = "configAck"
  /\ UNCHANGED <<configEvents, results, retries, applVars, device, prepared,
                 deviceTimeout, alarmVars, wait, due, todo, cur>>

ConfigAck ==
  /\ pc = "configAck"
  /\ configEvents' = Tail(configEvents)
  /\ pc' = "result"
  /\ UNCHANGED <<commands, results, retries, applVars, deviceVars, alarmVars,
                 wait, due, todo, cur>>

-----------------------------------------------------------------------------
(* processResultOne: results other than timeouts *)

result == Head(results)

ResultClaimed == pc = "result" /\ results # <<>> /\ "result" \notin wait

ResultIdle ==
  /\ pc = "result"
  /\ results = <<>> \/ "result" \in wait
  /\ pc' = "retry"
  /\ UNCHANGED <<streams, applVars, deviceVars, alarmVars, wait, due, todo, cur>>

ResultMark(r) == <<"result", r.id, r.conn>>

\* A recovery or reconciliation command succeeded on a connection orch holds
\* as failed: the one result that may revive it.
RecoversFailed(a, r) ==
  IsRecovery(r.id) /\ r.out = "ok" /\ a.st \in {"FAILED", "RETRY_WAIT"}

\* The result is acknowledged without effect: an older version's, or one for
\* a connection that is already settled at this version.
SupersededOffByOne(a, r) == r.ver <= a.ver
Superseded(a, r) ==
  /\ r.ver <= a.ver
  /\ \/ r.ver < a.ver
     \/ a.st \in {"ACTIVE", "ABSENT"}
     \/ a.st = "FAILED" /\ ~RecoversFailed(a, r)

NextStatus(a, r) ==
  IF r.out # "ok" THEN "FAILED"
  ELSE IF a.st = "REMOVING" \/ (IsRecovery(r.id) /\ a.op = "REMOVE")
       THEN "ABSENT" ELSE "ACTIVE"

\* The two checks that throw: a result newer than APPL_DB, and a move the
\* state machine does not allow.
LegalResult(a, r) ==
  /\ r.ver <= a.ver
  /\ IF RecoversFailed(a, r) THEN CanRecover(a.st, NextStatus(a, r))
                             ELSE CanTransition(a.st, NextStatus(a, r))

ResolvedOutcome(a, r) ==
  [a EXCEPT !.st = r.out, !.att = IF r.out = "ok" THEN 0 ELSE @]

Resolved(a, r) ==
  [a EXCEPT !.st = NextStatus(a, r), !.att = IF r.out = "ok" THEN 0 ELSE @]

\* Both phases of the result were written before a crash.
ResultDoneEither(r) ==
  ResultMark(r) \in applMarks \/ ResultMark(r) \in deviceMarks

ResultDone(r) == ResultMark(r) \in applMarks /\ ResultMark(r) \in deviceMarks

ResultSkip ==
  /\ ResultClaimed /\ result.out # "timeout" /\ ~ResultDone(result)
  /\ appl[result.conn].ver = 0 \/ Superseded(appl[result.conn], result)
  /\ results' = Tail(results)
  /\ pc' = "retry"
  /\ UNCHANGED <<configEvents, commands, retries, applVars, deviceVars,
                 alarmVars, wait, due, todo, cur>>

\* What follows the snapshots: a success clears the alarm.
AfterResultAlwaysAck(r) == "resultAck"
AfterResult(r) == IF r.out = "ok" THEN "resultClear" ELSE "resultAck"

ResultResume ==
  /\ ResultClaimed /\ result.out # "timeout" /\ ResultDone(result)
  /\ pc' = AfterResult(result)
  /\ UNCHANGED <<streams, applVars, deviceVars, alarmVars, wait, due, todo, cur>>

\* DEVICE_DB first: the resolved snapshot, or its deletion.
ResultDevice ==
  LET a == appl[result.conn]
      write == IF NextStatus(a, result) = "ABSENT" THEN NoApp
               ELSE Resolved(a, result)
  IN  /\ ResultClaimed /\ result.out # "timeout" /\ ~ResultDone(result)
      /\ a.ver # 0 /\ ~Superseded(a, result)
      /\ \/ /\ ~LegalResult(a, result)
            /\ pc' = "resultExit"
            /\ UNCHANGED <<device, deviceMarks>>
         \/ /\ LegalResult(a, result) /\ ResultMark(result) \notin deviceMarks
            /\ device' = PutVersioned(device, result.ver, {result.conn},
                                      [c \in {result.conn} |-> write])
            /\ deviceMarks' = deviceMarks \cup {ResultMark(result)}
            /\ pc' = "resultApplication"
         \/ /\ LegalResult(a, result) /\ ResultMark(result) \in deviceMarks
            /\ pc' = "resultApplication"
            /\ UNCHANGED <<device, deviceMarks>>
      /\ UNCHANGED <<streams, applVars, prepared, deviceTimeout, alarmVars,
                     wait, due, todo, cur>>

\* APPL_DB second; a removed connection stays as an ABSENT tombstone.
ResultApplication ==
  /\ pc = "resultApplication"
  /\ appl' = PutVersioned(appl, result.ver, {result.conn},
               [c \in {result.conn} |-> Resolved(appl[c], result)])
  /\ applMarks' = applMarks \cup {ResultMark(result)}
  /\ pc' = AfterResult(result)
  /\ UNCHANGED <<streams, applTimeout, deviceVars, alarmVars, wait, due, todo,
                 cur>>

\* clearTimeoutAlarm, ALARM_DB part: delete the active alarm once per result.
ResultClear ==
  LET c   == result.conn
      key == <<result.id, c>>
  IN  /\ pc = "resultClear"
      /\ \/ /\ key \notin DOMAIN clearMarks /\ alarm[c] = {}
            /\ pc' = "resultAck"
            /\ UNCHANGED <<alarm, clearMarks>>
         \/ /\ key \notin DOMAIN clearMarks
            /\ \E act \in alarm[c] : clearMarks' = Put(clearMarks, key, act)
            /\ alarm' = [alarm EXCEPT ![c] = {}]
            /\ pc' = "resultClearCount"
         \/ /\ key \in DOMAIN clearMarks
            /\ pc' = "resultClearCount"
            /\ UNCHANGED <<alarm, clearMarks>>
      /\ UNCHANGED <<streams, applVars, deviceVars, activeAlarms, raiseMarks,
                     countMarks, wait, due, todo, cur>>

\* clearTimeoutAlarm, COUNTERS_DB part: active_alarms - 1 once per activation.
ResultClearCount ==
  LET mark == <<"clear", clearMarks[<<result.id, result.conn>>], result.conn>>
  IN  /\ pc = "resultClearCount"
      /\ activeAlarms' = IF mark \in countMarks THEN activeAlarms
                                                ELSE activeAlarms - 1
      /\ countMarks' = countMarks \cup {mark}
      /\ pc' = "resultAck"
      /\ UNCHANGED <<streams, applVars, deviceVars, alarm, raiseMarks,
                     clearMarks, wait, due, todo, cur>>

ResultAck ==
  /\ pc = "resultAck"
  /\ results' = Tail(results)
  /\ pc' = "retry"
  /\ UNCHANGED <<configEvents, commands, retries, applVars, deviceVars,
                 alarmVars, wait, due, todo, cur>>

-----------------------------------------------------------------------------
(* processResultOne: handleTimeoutResult *)

\* The connection still runs command id at version ver.
Runs(c, id, ver) ==
  appl[c].ver # 0 /\ appl[c].ver = ver /\ appl[c].cmd = id

\* What the timeout does to the batch, decided from its first member.
TimeoutDecisionOneMore(a) ==
  IF a.att <= MaxRetries
  THEN [st |-> "RETRY_WAIT", att |-> a.att + 1, retry |-> TRUE]
  ELSE [st |-> "FAILED", att |-> a.att, retry |-> FALSE]

TimeoutDecisionSilent(a) ==
  [st |-> IF a.att < MaxRetries THEN "RETRY_WAIT" ELSE "FAILED",
   att |-> IF a.att < MaxRetries THEN a.att + 1 ELSE a.att, retry |-> FALSE]

TimeoutDecision(a) ==
  IF a.att < MaxRetries
  THEN [st |-> "RETRY_WAIT", att |-> a.att + 1, retry |-> TRUE]
  ELSE [st |-> "FAILED", att |-> a.att, retry |-> FALSE]

\* The decision of a run that crashed later is read back from its markers.
TimeoutDecided(id) == id \in DOMAIN applTimeout \cup DOMAIN deviceTimeout
StoredDecision(id) ==
  IF id \in DOMAIN applTimeout THEN applTimeout[id] ELSE deviceTimeout[id]

TimedOutAlone(batch, decision) ==
  [c \in Members(batch) |->
     IF c = result.conn
     THEN [appl[c] EXCEPT !.st = decision.st, !.att = decision.att]
     ELSE appl[c]]

TimedOut(batch, decision) ==
  [c \in Members(batch) |->
     [appl[c] EXCEPT !.st = decision.st, !.att = decision.att]]

\* The timeout concerns the batch: its first member is in flight under this
\* command (or was, before a crash), and every member still runs it.
TimeoutApplies(r, first) ==
  /\ \/ TimeoutDecided(r.id)
     \/ Runs(first, r.id, r.ver) /\ appl[first].st \in InFlight
  /\ \A c \in Members(r.batch) : Runs(c, r.id, r.batch[c].ver)

DecisionFor(r, first) ==
  IF TimeoutDecided(r.id) THEN StoredDecision(r.id)
                          ELSE TimeoutDecision(appl[first])

\* The handler returns, and the result is acknowledged, unless it applies.
\* first stands for batch.commands.front(): the model keeps no member order.
TimeoutDevice ==
  LET r == result
  IN  /\ ResultClaimed /\ r.out = "timeout"
      /\ \E first \in Members(r.batch) :
           \/ /\ ~TimeoutApplies(r, first)
              /\ pc' = "resultAck"
              /\ UNCHANGED <<device, deviceTimeout>>
           \/ /\ TimeoutApplies(r, first) /\ r.id \notin DOMAIN deviceTimeout
              /\ device' = PutVersioned(device, r.ver, Members(r.batch),
                                        TimedOut(r.batch, DecisionFor(r, first)))
              /\ deviceTimeout' = Put(deviceTimeout, r.id, DecisionFor(r, first))
              /\ pc' = "timeoutApplication"
           \/ /\ TimeoutApplies(r, first) /\ r.id \in DOMAIN deviceTimeout
              /\ pc' = "timeoutApplication"
              /\ UNCHANGED <<device, deviceTimeout>>
      /\ UNCHANGED <<streams, applVars, prepared, deviceMarks, alarmVars,
                     wait, due, todo, cur>>

TimeoutApplication ==
  LET id == result.id
  IN  /\ pc = "timeoutApplication"
      /\ IF id \in DOMAIN applTimeout
         THEN UNCHANGED <<appl, applTimeout>>
         ELSE /\ appl' = PutVersioned(appl, result.ver, Members(result.batch),
                           TimedOut(result.batch, StoredDecision(id)))
              /\ applTimeout' = Put(applTimeout, id, StoredDecision(id))
      /\ pc' = "timeoutAlarm"
      /\ todo' = Members(result.batch)
      /\ UNCHANGED <<streams, applMarks, deviceVars, alarmVars, wait, due, cur>>

\* The alarm marker: an alarm that is already active keeps its activation id
\* and does not count as activated again.
RaiseMarkAnew(c) == [act |-> result.id, activated |-> TRUE]
RaiseMark(c) ==
  [act |-> IF alarm[c] = {} THEN result.id ELSE CHOOSE a \in alarm[c] : TRUE,
   activated |-> alarm[c] = {}]

\* publishTimeoutAlarm, ALARM_DB part.
TimeoutAlarm(c) ==
  LET key == <<result.id, c>>
  IN  /\ pc = "timeoutAlarm" /\ c \in todo
      /\ IF key \in DOMAIN raiseMarks
         THEN UNCHANGED <<alarm, raiseMarks>>
         ELSE /\ alarm' = [alarm EXCEPT ![c] = {RaiseMark(c).act}]
              /\ raiseMarks' = Put(raiseMarks, key, RaiseMark(c))
      /\ pc' = "timeoutCount" /\ cur' = {c}
      /\ UNCHANGED <<streams, applVars, deviceVars, activeAlarms, clearMarks,
                     countMarks, wait, due, todo>>

\* publishTimeoutAlarm, COUNTERS_DB part: active_alarms + 1 once per activation.
TimeoutCount(c) ==
  LET raise == raiseMarks[<<result.id, c>>]
      mark  == <<"raise", raise.act, c>>
  IN  /\ pc = "timeoutCount" /\ c \in cur
      /\ IF raise.activated /\ mark \notin countMarks
         THEN /\ activeAlarms' = activeAlarms + 1
              /\ countMarks' = countMarks \cup {mark}
         ELSE UNCHANGED <<activeAlarms, countMarks>>
      /\ todo' = todo \ {c} /\ cur' = {}
      /\ pc' = IF todo = {c} THEN "timeoutRetry" ELSE "timeoutAlarm"
      /\ UNCHANGED <<streams, applVars, deviceVars, alarm, raiseMarks,
                     clearMarks, wait, due>>

\* One durable retry event for the whole batch, unless the limit is reached.
TimeoutRetry ==
  LET id   == result.id
      mark == <<"retry", id>>
  IN  /\ pc = "timeoutRetry"
      /\ IF StoredDecision(id).retry /\ mark \notin deviceMarks
         THEN /\ retries' = Append(retries,
                   [id |-> id, att |-> StoredDecision(id).att,
                    ver |-> result.ver, batch |-> result.batch])
              /\ deviceMarks' = deviceMarks \cup {mark}
         ELSE UNCHANGED <<retries, deviceMarks>>
      /\ pc' = "resultAck"
      /\ UNCHANGED <<configEvents, commands, results, applVars, device, prepared,
                     deviceTimeout, alarmVars, wait, due, todo, cur>>

-----------------------------------------------------------------------------
(* processRetryOne *)

retry == Head(retries)

RetryIdle ==
  /\ pc = "retry"
  /\ retries = <<>> \/ ~due
  /\ pc' = "config"
  /\ UNCHANGED <<streams, applVars, deviceVars, alarmVars, wait, due, todo, cur>>

RetryStarted(q) ==
  <<"retryApplication", q.id>> \in applMarks \/ <<"retryDevice", q.id>> \in deviceMarks

\* The member may be retried: it still waits under the command that timed
\* out, or an earlier run of this retry has already moved it on.
StillCurrentWaiting(c, q) == RetryStarted(q) \/ appl[c].st = "RETRY_WAIT"

StillCurrent(c, q) ==
  /\ \/ Runs(c, q.id, q.batch[c].ver)
     \/ RetryStarted(q) /\ Runs(c, RetryCommand(q.id), q.batch[c].ver)
  /\ RetryStarted(q) \/ appl[c].st = "RETRY_WAIT"

Retried(q) ==
  [c \in Members(q.batch) |->
     [appl[c] EXCEPT
        !.st  = IF RetryStarted(q) THEN @ ELSE Executing(q.batch[c].op),
        !.cmd = RetryCommand(q.id),
        !.att = q.att]]

\* The retry is acknowledged without work: its command is already published,
\* or one member of the batch has moved on.
RetrySkip ==
  /\ pc = "retry" /\ retries # <<>> /\ due
  /\ \/ <<"retryCommand", retry.id>> \in deviceMarks
     \/ \E c \in Members(retry.batch) : ~StillCurrent(c, retry)
  /\ retries' = Tail(retries) /\ due' = FALSE
  /\ pc' = "config"
  /\ UNCHANGED <<configEvents, commands, results, applVars, deviceVars,
                 alarmVars, wait, todo, cur>>

RetryApplication ==
  LET mark == <<"retryApplication", retry.id>>
  IN  /\ pc = "retry" /\ retries # <<>> /\ due
      /\ <<"retryCommand", retry.id>> \notin deviceMarks
      /\ \A c \in Members(retry.batch) : StillCurrent(c, retry)
      /\ IF mark \in applMarks
         THEN UNCHANGED <<appl, applMarks>>
         ELSE /\ appl' = PutVersioned(appl, retry.ver, Members(retry.batch),
                                Retried(retry))
              /\ applMarks' = applMarks \cup {mark}
      /\ pc' = "retryDevice"
      /\ UNCHANGED <<streams, applTimeout, deviceVars, alarmVars, wait, due,
                     todo, cur>>

RetryDevice ==
  LET mark == <<"retryDevice", retry.id>>
  IN  /\ pc = "retryDevice"
      /\ IF mark \in deviceMarks
         THEN UNCHANGED <<device, deviceMarks>>
         ELSE /\ device' = PutVersioned(device, retry.ver, Members(retry.batch),
                                Retried(retry))
              /\ deviceMarks' = deviceMarks \cup {mark}
      /\ pc' = "retryCommand"
      /\ UNCHANGED <<streams, applVars, prepared, deviceTimeout, alarmVars,
                     wait, due, todo, cur>>

\* The new command: the same batch under a new id.  (The copy of the batch
\* that is stored beside it is read only to rebuild a malformed command.)
RetryPublish ==
  /\ pc = "retryCommand"
  /\ PublishOnce(<<"retryCommand", retry.id>>, RetryCommand(retry.id),
                 retry.batch)
  /\ pc' = "retryAck"
  /\ UNCHANGED <<configEvents, results, retries, applVars, device, prepared,
                 deviceTimeout, alarmVars, wait, due, todo, cur>>

RetryAck ==
  /\ pc = "retryAck"
  /\ retries' = Tail(retries) /\ due' = FALSE
  /\ pc' = "config"
  /\ UNCHANGED <<configEvents, commands, results, applVars, deviceVars,
                 alarmVars, wait, todo, cur>>

-----------------------------------------------------------------------------
(* The process: exceptions, crashes and time. *)

ConfigPhase ==
  {"configApplication", "configDevice", "configCommand", "configAck",
   "configExit"}
ResultPhase ==
  {"resultApplication", "resultClear", "resultClearCount", "resultAck",
   "resultExit", "timeoutApplication", "timeoutAlarm", "timeoutCount",
   "timeoutRetry"}
RetryPhase == {"retryDevice", "retryCommand", "retryAck"}
Phase == {"config", "result", "retry"} \cup ConfigPhase \cup ResultPhase
           \cup RetryPhase

\* The process ends and is started again: the loop begins anew, and the entry
\* it was working on stays pending until its idle time has passed.  Retries
\* are claimed with no idle time.
Restart ==
  /\ pc' = "config" /\ todo' = {} /\ cur' = {}
  /\ wait' = wait \cup (IF pc \in ConfigPhase THEN {"config"} ELSE {})
                  \cup (IF pc \in ResultPhase THEN {"result"} ELSE {})
  /\ UNCHANGED <<streams, applVars, deviceVars, alarmVars, due>>

\* An uncaught exception: main returns 1, the supervisor restarts the process.
ExitOnError == pc \in {"configExit", "resultExit"} /\ Restart

Crash == pc \notin {"configExit", "resultExit"} /\ Restart

IdleTimeElapses(s) ==
  /\ s \in wait
  /\ wait' = wait \ {s}
  /\ UNCHANGED <<streams, applVars, deviceVars, alarmVars, pc, due, todo, cur>>

BackoffElapses ==
  /\ retries # <<>> /\ ~due
  /\ due' = TRUE
  /\ UNCHANGED <<streams, applVars, deviceVars, alarmVars, pc, wait, todo, cur>>

OrchStep ==
  \/ ConfigIdle \/ ConfigSkip \/ ConfigPrepare \/ ConfigApplication
  \/ ConfigDevice \/ ConfigPublish \/ ConfigAck
  \/ ResultIdle \/ ResultSkip \/ ResultResume \/ ResultDevice
  \/ ResultApplication \/ ResultClear \/ ResultClearCount \/ ResultAck
  \/ TimeoutDevice \/ TimeoutApplication
  \/ \E c \in Conns : TimeoutAlarm(c) \/ TimeoutCount(c)
  \/ TimeoutRetry
  \/ RetryIdle \/ RetrySkip \/ RetryApplication \/ RetryDevice \/ RetryPublish
  \/ RetryAck
  \/ ExitOnError

-----------------------------------------------------------------------------
(* Types *)

Marks ==
  ({"application", "deviceState", "command"} \X Nat)
    \cup ({"result"} \X CommandId \X Conns)
    \cup ({"retry", "retryApplication", "retryDevice", "retryCommand"}
           \X CommandId)
CountMarks == {"raise", "clear"} \X CommandId \X Conns
Raise == [act : CommandId, activated : BOOLEAN]
Decision == [st : {"RETRY_WAIT", "FAILED"}, att : Nat, retry : BOOLEAN]
Outcome == {"ok", "fail", "timeout"}

ConfigEvent == [ver : Nat, ops : [Conns -> Operation \cup {"NONE"}]]
Command == [id : CommandId, batch : Batch]
Result == [conn : Conns, ver : Nat, id : CommandId, out : Outcome, batch : Batch]
Retry == [id : CommandId, att : Nat, ver : Nat, batch : Batch]

\* f maps keys in K to hashes in V.
Keyed(f, K, V) ==
  /\ f = [k \in DOMAIN f |-> f[k]]
  /\ \A k \in DOMAIN f : k \in K /\ f[k] \in V

StreamsOK ==
  /\ configEvents \in Seq(ConfigEvent) /\ commands \in Seq(Command)
  /\ results \in Seq(Result) /\ retries \in Seq(Retry)

ApplOK ==
  /\ appl \in [Conns -> App] /\ applMarks \subseteq Marks
  /\ Keyed(applTimeout, CommandId, Decision)

DeviceOK ==
  /\ device \in [Conns -> App] /\ deviceMarks \subseteq Marks
  /\ Keyed(prepared, Nat, Batch) /\ Keyed(deviceTimeout, CommandId, Decision)

AlarmOK ==
  /\ alarm \in [Conns -> SUBSET CommandId] /\ activeAlarms \in Int
  /\ Keyed(raiseMarks, CommandId \X Conns, Raise)
  /\ Keyed(clearMarks, CommandId \X Conns, CommandId)
  /\ countMarks \subseteq CountMarks

ProcOK ==
  /\ pc \in Phase /\ wait \subseteq {"config", "result"} /\ due \in BOOLEAN
  /\ todo \subseteq Conns /\ cur \subseteq Conns

\* The streams, the snapshots and the markers of ocs-orch hold what their
\* producers encode: in particular an apply_status in APPL_DB or DEVICE_DB is
\* one that connectionApplyStatusFromString can read back.
OrchTypeOK == StreamsOK /\ ApplOK /\ DeviceOK /\ AlarmOK /\ ProcOK
=============================================================================
