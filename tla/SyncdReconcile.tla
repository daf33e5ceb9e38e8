--------------------------- MODULE SyncdReconcile ---------------------------
(***************************************************************************)
(* The rest of a poll that finds the device it knows: reconcileDevice      *)
(* compares the desired connections with the effective matrix, and either  *)
(* publishes a reconciliation cycle or ends one.                           *)
(***************************************************************************)
EXTENDS SyncdRecovery

cycleFrame == <<deviceVars, intent, acked, answers, applied, recovery, devState, code,
                cached, used>>

\* loadDesiredConnections, key by key.
LoadDesired(c) ==
  /\ pc = "desired" /\ c \in todo
  /\ polled' = [polled EXCEPT !.want[c] = config[c]]
  /\ todo' = todo \ {c}
  /\ pc' = IF todo = {c} THEN "settled" ELSE "desired"
  /\ UNCHANGED <<cycleFrame, cmds, stateDb, once, control, driftDb, portDb, alarms, sum,
                 plan>>

\* orchestrationSettled: the keys of the snapshots are scanned. A desired
\* connection without one is not settled.
ScanSettled ==
  LET keys == {c \in Conns : Snapshot(c)}
      lacking == {c \in Conns : polled.want[c] # Gone} \ keys
  IN  /\ pc = "settled"
      /\ todo' = IF lacking = {} THEN keys ELSE {}
      /\ pc' = IF lacking # {} THEN "device" ELSE IF keys = {} THEN "plan" ELSE "compare"
      /\ UNCHANGED <<cycleFrame, cmds, stateDb, once, control, driftDb, portDb, alarms, sum,
                     polled, plan>>

\* Then each is read. One that is gone since the scan is not settled either.
Settled(c) ==
  LET w == polled.want[c] IN
  /\ Snapshot(c)
  /\ IF w = Gone THEN app[c].op = "REMOVE" /\ app[c].st = "FAILED"
     ELSE app[c].st \in {"ACTIVE", "FAILED"} /\ Holds(app[c], w)

CheckSettled(c) ==
  /\ pc = "compare" /\ c = First(todo)
  /\ todo' = IF Settled(c) THEN todo \ {c} ELSE {}
  /\ pc' = IF ~Settled(c) THEN "device" ELSE IF todo = {c} THEN "plan" ELSE "compare"
  /\ UNCHANGED <<cycleFrame, cmds, stateDb, once, control, driftDb, portDb, alarms, sum,
                 polled, plan>>

-----------------------------------------------------------------------------
(* The plan *)

\* A connection on a port that is not up does not count.
Effective(c) ==
  LET a == polled.actual[c] IN
  IF {<<"in", a.in>>, <<"out", a.out>>} \cap polled.bad # {} THEN Gone ELSE a

\* buildReconciliationPlan: how a connection drifted, and the full snapshot.
Drifted(c) ==
  LET w == polled.want[c] IN
  IF w = Gone THEN (IF Effective(c) = Gone THEN "none" ELSE "unexpected")
  ELSE IF Effective(c) = Gone THEN "missing"
  ELSE IF Effective(c) # w THEN "mismatched" ELSE "none"

Removal(v) == [op |-> "REMOVE", in |-> 0, out |-> 0, ver |-> v]
SnapshotOf(c) ==
  LET w == polled.want[c] IN
  IF w # Gone THEN [op |-> "UPSERT", in |-> w.in, out |-> w.out, ver |-> w.ver]
  ELSE IF Effective(c) # Gone THEN Removal(Effective(c).ver)
  ELSE NoCommand

Plan == [batch |-> [c \in Conns |-> SnapshotOf(c)],
         kind |-> [c \in Conns |-> Drifted(c)], confirm |-> FALSE]

Drifts(p) == {c \in Conns : p.kind[c] # "none"}
Cleared == {p \in Watched : portFault[p].status = "CLEARED"}

MakePlan ==
  /\ pc = "plan"
  /\ plan' = Plan
  /\ IF Drifts(Plan) = {} THEN pc' = "failures" /\ todo' = Conns
     ELSE pc' = "drifted" /\ UNCHANGED todo
  /\ UNCHANGED <<cycleFrame, cmds, stateDb, once, control, driftDb, portDb, alarms, sum,
                 polled>>

\* The matrix agrees, but Redis holds a terminal failure for the connection:
\* its confirmation is published like a drift. Each is looked up in turn, the
\* desired ones first.
FailedUpsert(c) ==
  /\ polled.want[c] # Gone
  /\ (Snapshot(c) /\ app[c].st = "FAILED") \/ state[c].status = "FAILED"
FailedRemove(c) ==
  /\ polled.want[c] = Gone /\ Snapshot(c)
  /\ app[c].op = "REMOVE" /\ app[c].st = "FAILED"

Confirmed(c) ==
  IF FailedUpsert(c) THEN [plan EXCEPT !.kind[c] = "mismatched", !.confirm = TRUE]
  ELSE IF FailedRemove(c)
       THEN [plan EXCEPT !.batch[c] = Removal(app[c].ver), !.kind[c] = "missing",
                         !.confirm = TRUE]
  ELSE plan

CheckFailure(c) ==
  /\ pc = "failures" /\ c \in todo
  /\ polled.want[c] = Gone => \A d \in todo : polled.want[d] = Gone
  /\ plan' = Confirmed(c) /\ todo' = todo \ {c}
  /\ pc' = IF todo # {c} THEN "failures"
           ELSE IF Drifts(Confirmed(c)) = {} THEN "converged" ELSE "drifted"
  /\ UNCHANGED <<cycleFrame, cmds, stateDb, once, control, driftDb, portDb, alarms, sum,
                 polled>>

-----------------------------------------------------------------------------
(* No drift: the end of a cycle *)

\* Port faults that were waiting need no command.
Converged ==
  /\ pc = "converged"
  /\ portFault' = [p \in Watched |-> IF p \in Cleared
                                     THEN [portFault[p] EXCEPT !.status = "RECOVERED"]
                                     ELSE portFault[p]]
  /\ pc' = IF control.status \in {"NONE", "CONVERGED"} THEN "device" ELSE "clearDrift"
  /\ UNCHANGED <<cycleFrame, cmds, stateDb, once, control, driftDb, portState, portAlarm,
                 portDowns, alarms, loop, polled, plan>>

\* clearDriftAlarm: the alarm, then the counter of its activation.
ClearDriftAlarm ==
  LET key == <<"clear", control.id>> IN
  /\ pc = "clearDrift"
  /\ \/ /\ key \notin DOMAIN notes /\ driftAlarm = NoId
        /\ pc' = "setConverged" /\ UNCHANGED driftDb
     \/ /\ key \in DOMAIN notes \/ driftAlarm # NoId
        /\ driftAlarm' = IF key \in DOMAIN notes THEN driftAlarm ELSE NoId
        /\ notes' = IF key \in DOMAIN notes THEN notes
                   ELSE Put(notes, key, [act |-> driftAlarm, activated |-> FALSE])
        /\ pc' = "uncountDrift"
  /\ UNCHANGED <<cycleFrame, cmds, stateDb, once, control, portDb, alarms, loop, polled,
                 plan>>

UncountDrift ==
  /\ pc = "uncountDrift"
  /\ AlarmOnce(<<"driftDown", notes[<<"clear", control.id>>].act>>, -1)
  /\ pc' = "setConverged"
  /\ UNCHANGED <<cycleFrame, cmds, stateDb, control, driftDb, portDb, loop, polled, plan>>

SetConverged ==
  /\ pc = "setConverged"
  /\ control' = [control EXCEPT !.status = "CONVERGED"]
  /\ pc' = "device"
  /\ UNCHANGED <<cycleFrame, cmds, stateDb, once, driftDb, portDb, alarms, loop, polled,
                 plan>>

-----------------------------------------------------------------------------
(* Drift: a cycle is opened, resumed, or already under way *)

Reopened ==
  /\ control.status = "FAILED"
  /\ Cleared # {} \/ (plan.confirm /\ control.reason # "CONFIRMED_STATE_RECOVERY")

SameCycle ==
  /\ ~Reopened
  /\ control.sig = plan.batch /\ control.status \notin {"NONE", "CONVERGED"}

Reason == IF Cleared # {} THEN "PORT_RECOVERY"
          ELSE IF plan.confirm THEN "CONFIRMED_STATE_RECOVERY"
          ELSE "DESIRED_ACTUAL_DRIFT"

\* Mutant: a cycle interrupted by a crash counts as under way.
OpenCycleAbandons ==
  /\ pc = "drifted"
  /\ \/ SameCycle /\ pc' = "device" /\ UNCHANGED control
     \/ /\ ~SameCycle /\ control.id[2] < MaxReconciles
        /\ control' = [status |-> "PUBLISHING", id |-> <<"RECONCILE", control.id[2] + 1>>,
                       sig |-> plan.batch, reason |-> Reason]
        /\ pc' = "associate"
  /\ UNCHANGED <<cycleFrame, cmds, stateDb, once, driftDb, portDb, alarms, loop, polled,
                 plan>>

OpenCycle ==
  /\ pc = "drifted"
  /\ \/ /\ SameCycle /\ control.status # "PUBLISHING"
        /\ pc' = "device" /\ UNCHANGED control
     \/ /\ SameCycle /\ control.status = "PUBLISHING"
        /\ pc' = "associate" /\ UNCHANGED control
     \/ /\ ~SameCycle /\ control.id[2] < MaxReconciles
        /\ control' = [status |-> "PUBLISHING", id |-> <<"RECONCILE", control.id[2] + 1>>,
                       sig |-> plan.batch, reason |-> Reason]
        /\ pc' = "associate"
  /\ UNCHANGED <<cycleFrame, cmds, stateDb, once, driftDb, portDb, alarms, loop, polled,
                 plan>>

\* associatePortFaults.
AssociatePortFaults ==
  /\ pc = "associate"
  /\ portFault' = [p \in Watched |->
       IF portFault[p].status \in {"ACTIVE", "CLEARED"}
       THEN [portFault[p] EXCEPT !.status = "RECOVERY_PUBLISHED", !.cmd = control.id]
       ELSE portFault[p]]
  /\ pc' = "drift" /\ todo' = Drifts(plan) /\ sum' = 0
  /\ UNCHANGED <<cycleFrame, cmds, stateDb, once, control, driftDb, portState, portAlarm,
                 portDowns, alarms, polled, plan>>

\* publishReconciliationState: DRIFTED, then RECONCILING, per drift; a
\* connection that has already failed keeps that state.
DriftState(c, status) ==
  LET a == Effective(c)
      b == plan.batch[c]
  IN  IF plan.kind[c] # "missing"
      THEN [present |-> TRUE, status |-> status, ver |-> b.ver, in |-> a.in,
            out |-> a.out, applied |-> a.ver]
      ELSE [present |-> FALSE, status |-> status, ver |-> b.ver, in |-> b.in,
            out |-> b.out, applied |-> 0]

PublishDrifted ==
  LET c == First(todo)
      new == DriftState(c, "DRIFTED")
      key == <<"drifted", control.id, c>>
      d == ActiveDelta(state[c].present, new.present)
  IN  /\ pc = "drift" /\ todo # {}
      /\ \/ /\ state[c].status = "FAILED"
            /\ todo' = todo \ {c}
            /\ UNCHANGED <<state, delta, sum, pc>>
         \/ /\ state[c].status # "FAILED"
            /\ PutStateOnce(key, d, c, new)
            /\ sum' = sum + DeltaOf(key, d)
            /\ pc' = "reconciling" /\ UNCHANGED todo
      /\ UNCHANGED <<cycleFrame, cmds, active, once, control, driftDb, portDb, alarms,
                     polled, plan>>

PublishReconciling ==
  LET c == First(todo) IN
  /\ pc = "reconciling"
  /\ PutStateOnce(<<"reconciling", control.id, c>>, 0, c, DriftState(c, "RECONCILING"))
  /\ pc' = "drift" /\ todo' = todo \ {c}
  /\ UNCHANGED <<cycleFrame, cmds, active, once, control, driftDb, portDb, alarms, sum,
                 polled, plan>>

CountDrift ==
  /\ pc = "drift" /\ todo = {}
  /\ CountOnce(<<"drift", control.id>>, sum)
  /\ pc' = "raiseDrift"
  /\ UNCHANGED <<cycleFrame, cmds, state, delta, control, driftDb, portDb, alarms, loop,
                 polled, plan>>

\* publishDriftAlarm: an alarm that is up keeps its activation.
RaiseDriftAlarm ==
  LET key == <<"raise", control.id>>
      act == IF driftAlarm = NoId THEN control.id ELSE driftAlarm
  IN  /\ pc = "raiseDrift"
      /\ driftAlarm' = IF key \in DOMAIN notes THEN driftAlarm ELSE act
      /\ notes' = IF key \in DOMAIN notes THEN notes
                  ELSE Put(notes, key, [act |-> act, activated |-> driftAlarm = NoId])
      /\ pc' = "countDrift"
      /\ UNCHANGED <<cycleFrame, cmds, stateDb, once, control, portDb, alarms, loop, polled,
                     plan>>

CountDriftAlarm ==
  LET note == notes[<<"raise", control.id>>] IN
  /\ pc = "countDrift"
  /\ IF note.activated THEN AlarmOnce(<<"driftUp", note.act>>, 1)
     ELSE UNCHANGED <<alarms, once>>
  /\ pc' = "sendReconcile"
  /\ UNCHANGED <<cycleFrame, cmds, stateDb, control, driftDb, portDb, loop, polled, plan>>

\* appendEventOnce of the command, then the cycle is PUBLISHED.
SendReconcile ==
  LET mark == <<"sent", control.id>> IN
  /\ pc = "sendReconcile"
  /\ cmds' = IF mark \in once THEN cmds
             ELSE Append(cmds, [id |-> control.id, batch |-> plan.batch])
  /\ once' = once \cup {mark}
  /\ pc' = "published"
  /\ UNCHANGED <<cycleFrame, stateDb, control, driftDb, portDb, alarms, loop, polled, plan>>

MarkPublished ==
  /\ pc = "published"
  /\ control' = [control EXCEPT !.status = "PUBLISHED"]
  /\ pc' = "device"
  /\ UNCHANGED <<cycleFrame, cmds, stateDb, once, driftDb, portDb, alarms, loop, polled,
                 plan>>

ReconcileDevice ==
  \/ \E c \in Conns : LoadDesired(c) \/ CheckSettled(c) \/ CheckFailure(c)
  \/ ScanSettled \/ MakePlan \/ Converged \/ ClearDriftAlarm \/ UncountDrift \/ SetConverged
  \/ OpenCycle \/ AssociatePortFaults \/ PublishDrifted \/ PublishReconciling
  \/ CountDrift \/ RaiseDriftAlarm \/ CountDriftAlarm \/ SendReconcile \/ MarkPublished
=============================================================================
