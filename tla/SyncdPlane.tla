----------------------------- MODULE SyncdPlane -----------------------------
(***************************************************************************)
(* ocs-syncd's thread, whole: commands, polls, generation recovery, ports  *)
(* and reconciliation, with the device that drifts, fails and restarts,    *)
(* and with orch reduced to what syncd sees of it.  Orch's phases are the  *)
(* subject of module Orch; here a config event is two steps (snapshots,    *)
(* command), a result is one, and no retries are configured.               *)
(***************************************************************************)
EXTENDS SyncdApply, SyncdPorts, SyncdReconcile, ConnectionStateMachine

CONSTANT Sets   \* the batches a management client may ask for

\* No batch is empty.
ASSUME PlaneAssumption ==
  Sets \subseteq [Conns -> Command] /\ \A b \in Sets : Members(b) # {}

vars == planeVars

-----------------------------------------------------------------------------
(* The management side: one Set and its event in one transaction. *)

Wanted(b, v) ==
  [c \in Conns |->
     CASE b[c].op = "UPSERT" -> [in |-> b[c].in, out |-> b[c].out, ver |-> v]
       [] b[c].op = "REMOVE" -> Gone
       [] b[c].op = "NONE"   -> config[c]]

Versioned(b, v) ==
  [c \in Conns |-> IF b[c].op = "NONE" THEN NoCommand ELSE [b[c] EXCEPT !.ver = v]]

Set(b) ==
  /\ \A c \in Members(b) : b[c].op = "REMOVE" => config[c] # Gone
  /\ ~Conflicts(Wanted(b, rev + 1))
  /\ Use("sets")
  /\ config' = Wanted(b, rev')
  /\ events' = Append(events, [ver |-> rev', batch |-> Versioned(b, rev')])
  /\ UNCHANGED <<deviceVars, staged, app, taken, syncdVars>>

-----------------------------------------------------------------------------
(* Orch. *)

event == Head(events)
SetId(v) == <<"SET", v>>

OrchStage ==
  /\ events # <<>> /\ ~staged
  /\ app' = [c \in Conns |->
       IF event.batch[c].op = "NONE" THEN app[c]
       ELSE [op |-> event.batch[c].op, st |-> Executing(event.batch[c].op),
             ver |-> event.ver, in |-> event.batch[c].in, out |-> event.batch[c].out,
             cmd |-> SetId(event.ver)]]
  /\ staged' = TRUE
  /\ UNCHANGED <<deviceVars, config, events, taken, syncdVars, used>>

OrchPublish ==
  /\ staged
  /\ cmds' = Append(cmds, [id |-> SetId(event.ver), batch |-> event.batch])
  /\ staged' = FALSE /\ events' = Tail(events)
  /\ UNCHANGED <<deviceVars, config, app, taken, acked, answers, applied, stateDb, devState,
                 once, cycle, driftDb, portDb, alarms, pc, cached, code, loop, polled, plan,
                 used>>

\* processResultOne: a timeout fails the whole batch while its first member is
\* in flight and every member is still that command's.
TimedOutApp(r) ==
  IF /\ app[First(Members(r.batch))].st \in InFlight
     /\ \A c \in Members(r.batch) : app[c].cmd = r.id /\ app[c].ver = r.batch[c].ver
  THEN [c \in Conns |-> IF c \in Members(r.batch) THEN [app[c] EXCEPT !.st = "FAILED"]
                        ELSE app[c]]
  ELSE app

FromRecovery(r) == IsGenerationRecovery(r.id) \/ IsReconciliation(r.id)
Revives(r) == FromRecovery(r) /\ r.code = "OK" /\ app[r.conn].st = "FAILED"
Ignored(r) ==
  LET a == app[r.conn] IN
  \/ a.st = "NONE" \/ r.ver < a.ver \/ a.st \in {"ACTIVE", "ABSENT"}
  \/ a.st = "FAILED" /\ ~Revives(r)

ResolvedApp(r) ==
  LET a == app[r.conn]
      next == IF r.code # "OK" THEN "FAILED"
              ELSE IF a.st = "REMOVING" \/ (FromRecovery(r) /\ a.op = "REMOVE")
              THEN "ABSENT" ELSE "ACTIVE"
  IN  [app EXCEPT ![r.conn].st = next]

\* A result newer than the snapshot is an error orch does not get past.
OrchResult ==
  LET r == answers[taken + 1] IN
  /\ taken < Len(answers)
  /\ r.code = "APPLY_TIMEOUT" \/ app[r.conn].st = "NONE" \/ r.ver <= app[r.conn].ver
  /\ app' = IF r.code = "APPLY_TIMEOUT" THEN TimedOutApp(r)
            ELSE IF Ignored(r) THEN app ELSE ResolvedApp(r)
  /\ taken' = taken + 1
  /\ UNCHANGED <<deviceVars, config, events, staged, syncdVars, used>>

OrchStep == OrchStage \/ OrchPublish \/ OrchResult

-----------------------------------------------------------------------------
(* The device's faults, and the processes that die. *)

DeviceDrifts ==
  /\ Use("drifts") /\ Drift
  /\ UNCHANGED <<intent, syncdVars>>

DeviceFault ==
  /\ Use("faults")
  /\ InjectNext(TRUE, FALSE) \/ InjectNext(FALSE, TRUE)
  /\ UNCHANGED <<intent, syncdVars>>

PortFlips ==
  /\ Use("flips")
  /\ \E p \in Watched : InjectPortDown(p)
  /\ down' # down
  /\ UNCHANGED <<intent, syncdVars>>

PortReturns ==
  /\ \E p \in down : ClearPort(p)
  /\ UNCHANGED <<intent, syncdVars, used>>

HwsimRestarts ==
  /\ Use("restarts") /\ Restart
  /\ UNCHANGED <<intent, syncdVars>>

\* The thread's memory is lost; initialize starts over with a poll.
SyncdCrash ==
  /\ pc # "boot" /\ Use("crashes")
  /\ pc' = "boot" /\ cached' = 0 /\ code' = "OK" /\ todo' = {} /\ sum' = 0
  /\ polled' = NoPoll /\ plan' = NoPlan
  /\ UNCHANGED <<deviceVars, intent, cmds, acked, answers, applied, stateDb, devState, once,
                 cycle, driftDb, portDb, alarms>>

Fault == DeviceDrifts \/ DeviceFault \/ PortFlips \/ HwsimRestarts \/ SyncdCrash

-----------------------------------------------------------------------------
\* After the first initialize of a new system.
Init ==
  /\ DeviceInit
  /\ config = Nothing /\ events = <<>> /\ staged = FALSE /\ taken = 0
  /\ app = [c \in Conns |-> NoApp]
  /\ cmds = <<>> /\ acked = 0 /\ answers = <<>>
  /\ attempt = {} /\ stored = NoKeys /\ processed = NoKeys
  /\ lastOk = [c \in Conns |-> [ver |-> 0, gen |-> 0]]
  /\ state = [c \in Conns |-> NoState]
  /\ devState = [gen |-> 1, status |-> "READY"] /\ active = 0
  /\ once = {} /\ delta = NoKeys /\ notes = NoKeys
  /\ recovery = NoKeys /\ control = NoControl /\ driftAlarm = NoId
  /\ portState = [p \in Watched |-> TRUE] /\ portFault = [p \in Watched |-> NoFault]
  /\ portAlarm = [p \in Watched |-> 0] /\ portDowns = [p \in Watched |-> 0]
  /\ alarms = 0 /\ pc = "idle" /\ cached = 1 /\ code = "OK" /\ todo = {} /\ sum = 0
  /\ polled = NoPoll /\ plan = NoPlan 
  /\ used = [k \in Kinds |-> 0]

Poll == PollInfo
Process == Take
Continue == ProcessOne \/ PollPorts \/ Recover \/ ReconcileDevice

Next ==
  \/ \E b \in Sets : Set(b)
  \/ OrchStep
  \/ Poll \/ Process \/ Continue \/ PollFails
  \/ Fault \/ PortReturns

Spec == Init /\ [][Next]_vars

\* The main loop of ocs-syncd takes a command and polls again and again, and
\* finishes what it started; orch's loop runs.  Nothing makes a fault happen,
\* a process die or a port return.
FairSpec ==
  /\ Spec
  /\ WF_vars(OrchStep) /\ WF_vars(Continue)
  /\ SF_vars(Poll) /\ SF_vars(Process)

-----------------------------------------------------------------------------
(* Properties *)

\* Nothing is under way: no event, command or result is waiting, the thread
\* is between handlers, the device is the one last published, and no cycle
\* is open.
Quiet ==
  /\ pc = "idle" /\ acked = Len(cmds) /\ taken = Len(answers) /\ events = <<>>
  /\ devState = [gen |-> generation, status |-> "READY"]
  /\ control.status \in {"NONE", "CONVERGED"}

PresentStates == {c \in Conns : state[c].present}

\* Every write of a connection's state has left the change it made to the
\* number of present connections in its marker: the counter and the changes
\* not yet counted always add up, so that a crash can be made good.
CounterMark(k) == CASE k[1] = "state" -> <<"apply", k[2]>>
                    [] k[1] = "gen" -> <<"gen", k[2]>>
                    [] OTHER -> <<"drift", k[2]>>
Uncounted(d) == {k \in DOMAIN delta : delta[k] = d /\ CounterMark(k) \notin once}
LedgerBalanced ==
  active + Cardinality(Uncounted(1)) - Cardinality(Uncounted(-1)) = Cardinality(PresentStates)

\* At rest, active_alarms is the number of alarms in ALARM_DB, up to one for
\* each crash of syncd, which may come between an alarm and its count.
AlarmCountExact ==
  LET raised == (IF driftAlarm = NoId THEN 0 ELSE 1)
                  + Cardinality({p \in Watched : portAlarm[p] # 0})
  IN  Quiet => /\ alarms <= raised + used["crashes"]
               /\ raised <= alarms + used["crashes"]

\* At rest, a port STATE_DB shows as down has its alarm in ALARM_DB.
DownIsAlarmed == Quiet => \A p \in Watched : ~portState[p] => portAlarm[p] # 0

\* The connection is as desired in the device, in STATE_DB and at orch.
InPlace(c) ==
  IF config[c] = Gone
  THEN matrix[c] = Gone /\ ~state[c].present /\ ~Snapshot(c)
  ELSE /\ matrix[c] = config[c] /\ app[c].st = "ACTIVE" /\ app[c].ver = config[c].ver
       /\ state[c].present /\ state[c].status = "ACTIVE"
       /\ state[c].ver = config[c].ver /\ state[c].applied = config[c].ver

\* At rest a connection is as desired everywhere, or its failure is recorded
\* by orch or in STATE_DB, where the next poll finds it: neither a crash, a
\* restart of the device nor a lost reply leaves a difference nobody knows of.
\* One is left by a crash after DRIFTED is published and before the command of
\* the cycle is sent, when the next poll finds nothing to repair: the device
\* has the connection, and STATE_DB goes on calling it drifted.  A drift is
\* silent until the next poll; so is what a second restart does, when the
\* recovery of the generation before it runs on the new one and brings back a
\* connection removed since.
FailureShows(c) == (Snapshot(c) /\ app[c].st = "FAILED") \/ state[c].status = "FAILED"
LeftDrifted(c) ==
  /\ used["crashes"] > 0 /\ <<"sent", control.id>> \notin once
  /\ state[c].status \in {"DRIFTED", "RECONCILING"} /\ matrix[c] = config[c]
NothingSilent ==
  Quiet /\ used["drifts"] = 0 /\ used["restarts"] < 2
  => \A c \in Conns : InPlace(c) \/ FailureShows(c) \/ LeftDrifted(c)

\* Once every port stays up, the desired connections come to be in place,
\* in the device, in STATE_DB and at orch, and stay there: what a crash, a
\* restart, a drift or a fault has undone, recovery or reconciliation repairs.
Repaired == events = <<>> /\ \A c \in Conns : InPlace(c)
EventuallyRepaired == <>[](down = {}) => <>[]Repaired

\* STATE_DB never shows an older version of a connection, unless it is gone.
StateNeverBack ==
  [][\A c \in Conns : state'[c].ver >= state[c].ver \/ state'[c] = NoState]_vars

\* To the publishers of device commands ocs-syncd is the service of
\* CommandService, whatever crashes, restarts or lost replies come between
\* the steps of process_command: commands finish in order, and the results of
\* a command are at most one for each member, for all or none of them, and
\* tell one outcome.
ImplementsService == Service!ServiceSpec
=============================================================================
