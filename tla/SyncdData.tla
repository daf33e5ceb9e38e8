----------------------------- MODULE SyncdData ------------------------------
(***************************************************************************)
(* What ocs-syncd reads and writes: its Redis records, the publication     *)
(* markers that make each write happen once, and the memory of its only    *)
(* thread.  SyncdApply, SyncdPorts, SyncdRecovery and SyncdReconcile are   *)
(* its handlers; SyncdPlane puts them beside orch and the device.  Texts,  *)
(* heartbeats and the counters no decision depends on are left out.        *)
(***************************************************************************)
EXTENDS Device, Integers

CONSTANTS
  Watched,       \* the ports that can fail
  MaxReconciles, \* bound on reconciliation cycles
  Troubles       \* the Sets, crashes, restarts, drifts, faults, failures of a
                 \* port and lost replies that may come together

VARIABLES
  config,       \* CONFIG_DB: the desired connections
  events,       \* OCS_CONFIG_EVENTS
  staged,       \* orch has written the snapshots of the first event
  app,          \* the snapshots orch keeps per connection
  cmds, acked,  \* OCS_DEVICE_COMMANDS, and how many are acknowledged
  answers, taken,  \* OCS_DEVICE_RESULTS, and how many orch has taken
  attempt,      \* the commands an apply was started for
  stored,       \* durable apply results
  processed,    \* processed commands, whether they were applied
  lastOk,       \* OCS_SYNCD_CONNECTION_VERSION
  state,        \* STATE_DB: connections
  devState,     \* STATE_DB: the device
  active,       \* COUNTERS_DB: active_connections
  once,         \* publication markers without content
  delta,        \* publication markers with an active_delta
  recovery,     \* OCS_SYNCD_GENERATION_RECOVERY: is a command required
  control,      \* OCS_SYNCD_RECONCILIATION
  driftAlarm,   \* ALARM_DB: the activation of the drift alarm
  notes,        \* publication markers of the drift alarm
  portState,    \* STATE_DB: is the port up
  portFault,    \* OCS_SYNCD_PORT_FAULT
  portAlarm,    \* ALARM_DB: the activation of a port's alarm
  portDowns,    \* COUNTERS_DB: port_down_total
  alarms,       \* COUNTERS_DB: active_alarms
  pc, cached,   \* where the thread is; device_generation_
  code,         \* the apply result in hand
  todo, sum,    \* what a loop has left; the active_delta it has added up
  polled,       \* what the poll has read
  plan,         \* the batch and the drifts being published
  used          \* how often each of them has happened

intent == <<config, events, staged, app, taken>>
applied == <<attempt, stored, processed, lastOk>>
stateDb == <<state, delta, active>>
cycle == <<recovery, control>>
driftDb == <<driftAlarm, notes>>
portDb == <<portState, portFault, portAlarm, portDowns>>
loop == <<todo, sum>>
syncdVars == <<cmds, acked, answers, applied, stateDb, devState, once, cycle,
               driftDb, portDb, alarms, pc, cached, code, loop, polled, plan>>
planeVars == <<deviceVars, intent, syncdVars, used>>

NoId == <<"none", 0>>
NoCommand == [op |-> "NONE", in |-> 0, out |-> 0, ver |-> 0]
NoBatch == [c \in Conns |-> NoCommand]
Nothing == [c \in Conns |-> Gone]
NoState == [present |-> FALSE, status |-> "NONE", ver |-> 0, in |-> 0,
            out |-> 0, applied |-> 0]
NoApp == [op |-> "NONE", st |-> "NONE", ver |-> 0, in |-> 0, out |-> 0,
          cmd |-> NoId]
NoControl == [status |-> "NONE", id |-> NoId, sig |-> NoBatch,
              reason |-> "NONE"]
NoFault == [status |-> "NONE", act |-> 0, cmd |-> NoId]
NoPoll == [boot |-> FALSE, gen |-> 0, actual |-> Nothing, bad |-> {},
           want |-> Nothing]
NoPlan == [batch |-> NoBatch, kind |-> [c \in Conns |-> "none"],
           confirm |-> FALSE]
NoKeys == [k \in {} |-> 0]

\* A key is written.
Put(f, k, v) == [x \in DOMAIN f \cup {k} |-> IF x = k THEN v ELSE f[x]]

Members(b) == {c \in Conns : b[c].op # "NONE"}
Snapshot(c) == app[c].st \notin {"NONE", "ABSENT"}
First(S) == CHOOSE c \in S : \A d \in S : c <= d
IsGenerationRecovery(id) == id[1] = "RECOVERY"
IsReconciliation(id) == id[1] = "RECONCILE"
Holds(m, e) == m.in = e.in /\ m.out = e.out /\ m.ver = e.ver

Kinds == {"sets", "crashes", "restarts", "drifts", "faults", "flips", "losses"}

\* OpIds has the id of every command there can be.
ASSUME SyncdAssumption ==
  /\ Troubles # {} /\ Troubles \subseteq [Kinds -> Nat] /\ MaxReconciles \in Nat
  /\ \A t \in Troubles : \A n \in 1 .. t["sets"] : <<"SET", n>> \in OpIds
  /\ \A t \in Troubles : \A n \in 1 .. t["restarts"] + 1 : <<"RECOVERY", n>> \in OpIds
  /\ \A n \in 1 .. MaxReconciles : <<"RECONCILE", n>> \in OpIds

rev == used["sets"]
Use(k) ==
  /\ \E t \in Troubles : used[k] < t[k] /\ \A j \in Kinds : used[j] <= t[j]
  /\ used' = [used EXCEPT ![k] = @ + 1]

\* A device call ends without a reply.
Lose == Use("losses")

\* active_delta of a write: was the connection active, is it now.
ActiveDelta(was, is) == IF was = is THEN 0 ELSE IF is THEN 1 ELSE -1

\* replaceHashAndAppendEventOnce on a connection's state: the state and the
\* marker are written together, or neither when the marker exists.
PutStateOnce(key, d, c, s) ==
  IF key \in DOMAIN delta THEN UNCHANGED <<state, delta>>
  ELSE state' = [state EXCEPT ![c] = s] /\ delta' = Put(delta, key, d)

\* The active_delta of the marker, whoever wrote it.
DeltaOf(key, d) == IF key \in DOMAIN delta THEN delta[key] ELSE d

\* incrementHashFieldsOnce on active_connections and on active_alarms.
CountAlways(mark, d) == active' = active + d /\ once' = once \cup {mark}

CountOnce(mark, d) ==
  /\ active' = active + (IF mark \in once THEN 0 ELSE d)
  /\ once' = once \cup {mark}

AlarmOnce(mark, d) ==
  /\ alarms' = alarms + (IF mark \in once THEN 0 ELSE d)
  /\ once' = once \cup {mark}
=============================================================================
