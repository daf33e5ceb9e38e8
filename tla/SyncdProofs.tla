---------------------------- MODULE SyncdProofs -----------------------------
(***************************************************************************)
(* ocs-syncd implements CommandService, whatever crashes, restarts,        *)
(* drifts, faults and lost replies come between its steps, for any         *)
(* connections, batches, ports and limits.  CommandProofs has the          *)
(* invariant, the steps of the command loop, and what every other step     *)
(* must keep; here are the polls, recovery, reconciliation, and the steps  *)
(* of orch, of the management client and of the device.                    *)
(***************************************************************************)
EXTENDS SyncdPlane, CommandProofs

-----------------------------------------------------------------------------
(* What a step outside the command loop keeps *)

\* A step of pollPortStates or of scheduleGenerationRecovery before its
\* command: the poll goes on with the generation it read, and a generation
\* under recovery still has no recovery key.
LEMMA PollGoesOn ==
  ASSUME ServiceInv, Kept, UNCHANGED <<used, code, control>>, OtherMarks,
         pc' \in Polling \cup Recovering \cup {"device", "desired", "idle"},
         "gen" \in DOMAIN polled',
         pc' \in Polling \cup Recovering => polled'.gen \in 1 .. generation,
         pc' \in Recovering => polled'.gen \notin DOMAIN recovery
  PROVE  ServiceInv' /\ Serves
<1>1. BudgetOK' /\ UNCHANGED <<generation, recovery>>
  BY Zenon DEF Kept, ServiceInv, DataOK, BudgetOK
<1>2. pc' \notin AtWork \cup Reconciling \cup Closing /\ pc' \notin {"drifted", "failures"}
  BY Zenon DEF AtWork, Applying, Publishing, Polling, Recovering, Reconciling, Closing
<1>3. RecoverPhase'
  BY Zenon, <1>1 DEF RecoverPhase
<1>4. CyclePhase'
  BY Zenon, <1>2 DEF ServiceInv, CyclePhase, ReconcileIds, NoId
<1>5. QED
  BY Zenon, <1>1, <1>2, <1>3, <1>4, Elsewhere

\* The thread stops what it does: a poll fails, or the process dies.
LEMMA ThreadStops ==
  ASSUME ServiceInv, NEW k \in Kinds \ {"sets", "restarts"}, Use(k),
         pc' \in {"idle", "boot"}, polled' = NoPoll, code' \in Outcomes,
         UNCHANGED <<cmds, events, staged, generation, recovery, acked, processed, answers,
                     stored, results, control, once>>
  PROVE  ServiceInv' /\ Serves
<1>1. DataOK /\ BudgetOK
  BY Zenon DEF ServiceInv, DataOK
<1>2. BudgetOK' /\ rev' = rev
  BY Zenon, <1>1, TroubleCounted
<1>3. Kept /\ OtherMarks
  BY Zenon, <1>2 DEF Kept, OtherMarks
<1>4. DataOK'
  BY Zenon, <1>1, <1>2, <1>3, DataKept
<1>5. /\ "gen" \in DOMAIN polled'
      /\ pc' \notin AtWork \cup Polling \cup Recovering \cup Reconciling \cup Closing
      /\ pc' \notin {"drifted", "failures"}
  BY Zenon DEF NoPoll, AtWork, Applying, Publishing, Polling, Recovering, Reconciling, Closing
<1>6. ApplyPhase'
  BY Zenon, <1>5 DEF ApplyPhase, AtWork, Publishing
<1>7. RecoverPhase'
  BY Zenon, <1>5 DEF RecoverPhase
<1>8. CyclePhase'
  BY Zenon, <1>5 DEF ServiceInv, CyclePhase, ReconcileIds, NoId
<1>9. Serves
  BY Zenon, NothingServed
<1>10. QED
  BY Zenon, <1>4, <1>6, <1>7, <1>8, <1>9 DEF ServiceInv

\* Before a plan, and while a cycle is published or closed, the cycle keeps
\* its id and its plan.
LEMMA CycleStays ==
  ASSUME ServiceInv, Kept, UNCHANGED <<used, code, control, plan>>, OtherMarks,
         "gen" \in DOMAIN polled',
         \/ pc' \in {"desired", "settled", "compare", "plan", "device"}
         \/ pc' \in Reconciling /\ pc \in Reconciling
         \/ pc' \in Closing /\ (pc \in Closing \/ control.status # "NONE")
  PROVE  ServiceInv' /\ Serves
<1>1. /\ pc' \notin AtWork \cup Polling \cup Recovering /\ pc' \notin {"drifted", "failures"}
      /\ pc' \in Reconciling => pc \in Reconciling
      /\ pc' \in Closing => pc \in Closing \/ control.status # "NONE"
  BY Zenon DEF AtWork, Applying, Publishing, Polling, Recovering, Reconciling, Closing
<1>2. CyclePhase'
  BY Zenon, <1>1 DEF ServiceInv, CyclePhase, ReconcileIds, NoId, Members
<1>3. RecoverPhase' /\ BudgetOK'
  BY Zenon, <1>1 DEF RecoverPhase, Kept, ServiceInv, DataOK, BudgetOK
<1>4. QED
  BY Zenon, <1>1, <1>2, <1>3, Elsewhere

\* A plan is made, a cycle is opened under the next id, or its status changes.
LEMMA CycleTurns ==
  ASSUME ServiceInv, Kept, UNCHANGED <<used, code, once, polled>>,
         pc' \in {"failures", "drifted", "converged", "device", "associate"},
         pc' = "failures" => PlanAsks',
         pc' \in {"drifted", "associate"} => Members(plan'.batch) # {},
         {"id", "status"} \subseteq DOMAIN control', control'.id \in {NoId} \cup ReconcileIds,
         control'.status # "NONE" => control'.id \in ReconcileIds,
         pc' = "associate" => control'.id \in ReconcileIds
  PROVE  ServiceInv' /\ Serves
<1>1. /\ pc' \notin AtWork \cup Polling \cup Recovering \cup Closing
      /\ pc' \in Reconciling => pc' = "associate"
  BY Zenon DEF AtWork, Applying, Publishing, Polling, Recovering, Reconciling, Closing
<1>2. CyclePhase'
  BY Zenon, <1>1 DEF CyclePhase, ReconcileIds, NoId, Members
<1>3. RecoverPhase' /\ BudgetOK' /\ OtherMarks
  BY Zenon, <1>1 DEF RecoverPhase, Kept, ServiceInv, DataOK, BudgetOK, OtherMarks
<1>4. QED
  BY Zenon, <1>1, <1>2, <1>3, Elsewhere

\* Whatever step of the command loop the thread is in, it goes on where it is.
LEMMA Around ==
  ASSUME ServiceInv, UNCHANGED syncdVars, EventsOK', BudgetOK',
         \A i \in 1 .. Len(cmds) : \A j \in 1 .. Len(events') :
           cmds[i].id[1] = "SET" => cmds[i].id[2] < events'[j].ver,
         used["sets"] <= used["sets"]', generation <= generation',
         results' \in [OpIds -> Codes \cup {"none"}]
  PROVE  ServiceInv' /\ Serves
<1>1. UNCHANGED <<cmds, acked, processed, answers, stored, code, once, recovery, control, pc,
                  todo, polled, plan>>
  BY Zenon DEF syncdVars, applied, cycle, loop
<1>2. used["sets"] \in Nat /\ used["sets"]' \in Nat /\ generation \in Nat /\ generation' \in Nat
  <2>1. /\ used["sets"] \in Nat /\ generation \in Nat /\ used' \in [Kinds -> Nat]
        /\ generation' = used'["restarts"] + 1
    BY Zenon, TurnBounded DEF ServiceInv, BudgetOK
  <2>2. used'["sets"] \in Nat /\ used'["restarts"] \in Nat
    BY Zenon, <2>1 DEF Kinds
  <2>3. QED
    BY <2>1, <2>2
<1>3. Ids \subseteq Ids'
  BY <1>2 DEF Ids, ReconcileIds
<1>4. CommandsOK'
  BY <1>1, <1>3 DEF ServiceInv, DataOK, CommandsOK, Members
<1>5. FreshOK'
  BY Zenon, <1>1 DEF ServiceInv, DataOK, FreshOK
<1>6. TurnOK' /\ StoredOK'
  BY Zenon, <1>1 DEF ServiceInv, DataOK, TurnOK, StoredOK, cmd
<1>7. AnswersOK'
  BY Zenon, <1>1, AnswersStand DEF ServiceInv, DataOK
<1>8. ApplyPhase'
  <2>1. cmd' = cmd /\ batch' = batch /\ ApplyPhase
    BY Zenon, <1>1 DEF cmd, batch, ServiceInv
  <2>2. QED
    BY Zenon, <1>1, <2>1 DEF ApplyPhase, Members
<1>9. RecoverPhase'
  BY <1>1, <1>2 DEF ServiceInv, RecoverPhase
<1>10. CyclePhase'
  BY Zenon, <1>1 DEF ServiceInv, CyclePhase, PlanAsks, ReconcileIds, Members
<1>11. Serves
  BY Zenon, <1>1, NothingServed
<1>12. QED
  BY Zenon, <1>4, <1>5, <1>6, <1>7, <1>8, <1>9, <1>10, <1>11 DEF ServiceInv, DataOK

\* A step that leaves the events, the troubles and syncd alone.
LEMMA Beside ==
  ASSUME ServiceInv, UNCHANGED syncdVars, UNCHANGED <<events, used, generation, results>>,
         staged' => events # <<>>
  PROVE  ServiceInv' /\ Serves
<1>1. DataOK /\ EventsOK /\ BudgetOK /\ FreshOK /\ StoredOK
  BY Zenon DEF ServiceInv, DataOK
<1>2. EventsOK' /\ BudgetOK'
  BY Zenon, <1>1 DEF EventsOK, BudgetOK, rev, Members
<1>3. \A i \in 1 .. Len(cmds) : \A j \in 1 .. Len(events') :
        cmds[i].id[1] = "SET" => cmds[i].id[2] < events'[j].ver
  BY Zenon, <1>1 DEF FreshOK
<1>4. used["sets"] <= used["sets"]' /\ generation <= generation'
      /\ results' \in [OpIds -> Codes \cup {"none"}]
  BY <1>1, TurnBounded DEF StoredOK
<1>5. QED
  BY Zenon, <1>2, <1>3, <1>4, Around

\* A Set appends an event with the next version, which no command has.
LEMMA EventAdded ==
  ASSUME ServiceInv, NEW e, events' = Append(events, e), e.ver = rev', Members(e.batch) # {},
         Use("sets"), UNCHANGED <<generation, results, staged>>, UNCHANGED syncdVars
  PROVE  ServiceInv' /\ Serves
<1>1. DataOK /\ EventsOK /\ FreshOK /\ CommandsOK /\ StoredOK
  BY Zenon DEF ServiceInv, DataOK
<1>2. BudgetOK' /\ rev \in Nat /\ rev' = rev + 1
  BY Zenon, <1>1, TroubleCounted DEF Kinds, DataOK
<1>3. /\ Sequence(events') /\ Len(events) \in Nat /\ Len(events') = Len(events) + 1
      /\ \A i \in 1 .. Len(events) : events'[i] = events[i]
      /\ events'[Len(events) + 1] = e
  <2>1. Sequence(events)
    BY Zenon, <1>1 DEF EventsOK
  <2>2. QED
    BY Zenon, <2>1, SequenceAppend
<1>4. \A i \in 1 .. Len(events') : i \in 1 .. Len(events) \/ i = Len(events) + 1
  BY <1>3
<1>5. EventsOK'
  <2>1. \A i \in 1 .. Len(events) : events[i].ver \in 1 .. rev' /\ events[i].ver < e.ver
    BY <1>1, <1>2 DEF EventsOK
  <2>2. e.ver \in 1 .. rev' /\ events' # <<>>
    BY <1>2, <1>3
  <2>3. \A i \in 1 .. Len(events') : events'[i].ver \in 1 .. rev' /\ Members(events'[i].batch) # {}
    BY Zenon, <1>1, <1>3, <1>4, <2>1, <2>2 DEF EventsOK
  <2>4. \A i, j \in 1 .. Len(events') : i < j => events'[i].ver < events'[j].ver
    BY <1>1, <1>3, <1>4, <2>1 DEF EventsOK
  <2>5. QED
    BY Zenon, <1>3, <2>2, <2>3, <2>4 DEF EventsOK, Members
<1>6. \A i \in 1 .. Len(cmds) : \A j \in 1 .. Len(events') :
        cmds[i].id[1] = "SET" => cmds[i].id[2] < events'[j].ver
  <2>1. \A i \in 1 .. Len(cmds) : cmds[i].id[1] = "SET" => cmds[i].id[2] < e.ver
    BY <1>1, <1>2 DEF CommandsOK, Ids, ReconcileIds, rev
  <2>2. QED
    BY Zenon, <1>1, <1>3, <1>4, <2>1 DEF FreshOK
<1>7. used["sets"] <= used["sets"]' /\ generation <= generation'
      /\ results' \in [OpIds -> Codes \cup {"none"}]
  BY <1>1, <1>2, TurnBounded DEF rev, StoredOK
<1>8. QED
  BY Zenon, <1>2, <1>5, <1>6, <1>7, Around

-----------------------------------------------------------------------------
(* Polls and recovery *)

\* What the handlers of a poll leave alone.
LEMMA PortFrame ==
  ASSUME UNCHANGED <<portFrame, used>>
  PROVE  Kept /\ UNCHANGED <<used, code, control>>
  BY Zenon DEF portFrame, intent, applied, cycle, deviceVars, replay, Kept, rev

\* What pollDevice leaves alone while it reads.
LEMMA PollFrame ==
  ASSUME UNCHANGED <<pollFrame, cmds, recovery, used>>
  PROVE  Kept /\ UNCHANGED <<used, code, control>>
  BY Zenon DEF pollFrame, intent, applied, deviceVars, replay, Kept, rev

\* What a reconciliation leaves alone until it sends its command.
LEMMA CycleFrame ==
  ASSUME UNCHANGED <<cycleFrame, cmds>>
  PROVE  Kept /\ UNCHANGED <<used, code>>
  BY Zenon DEF cycleFrame, intent, applied, deviceVars, replay, Kept, rev

\* The ports are read one by one; every write has a marker of its own.
LEMMA PortsServe == ServiceInv /\ PollPorts => ServiceInv' /\ Serves
<1> SUFFICES ASSUME ServiceInv, PollPorts
             PROVE  ServiceInv' /\ Serves
  BY Zenon
<1>1. UNCHANGED <<portFrame, used>>
  BY Zenon DEF PollPorts, PollConnections, PollPort, OpenFault, RaisePortAlarm,
               CountPortAlarm, ClearPortAlarm, UncountPortAlarm, CloseFault
<1>2. pc \in Polling /\ pc' \in Polling /\ pc' \notin Recovering
  BY Zenon DEF PollPorts, Polling, Recovering, PollConnections, PollPort, OpenFault, RaisePortAlarm,
         CountPortAlarm, ClearPortAlarm, UncountPortAlarm, CloseFault, NextPort
<1>3. OtherMarks
  BY DEF PollPorts, OtherMarks, PollConnections, PollPort, OpenFault, RaisePortAlarm,
         CountPortAlarm, ClearPortAlarm, UncountPortAlarm, CloseFault, AlarmOnce
<1>4. "gen" \in DOMAIN polled' /\ polled'.gen \in 1 .. generation
  <2>1. "gen" \in DOMAIN polled /\ polled.gen \in 1 .. generation
    BY Zenon, <1>2 DEF ServiceInv, RecoverPhase
  <2>2. \/ polled' = polled
        \/ polled' = [polled EXCEPT !.actual = matrix]
        \/ polled' = [polled EXCEPT !.bad = @ \cup {port}]
    BY Zenon DEF PollPorts, PollConnections, PollPort, OpenFault, RaisePortAlarm,
           CountPortAlarm, ClearPortAlarm, UncountPortAlarm, CloseFault
  <2>3. QED
    BY Zenon, <2>1, <2>2
<1>5. QED
  BY Zenon, <1>1, <1>2, <1>3, <1>4, PortFrame, PollGoesOn

\* getDeviceInfo tells the generation of the poll.
LEMMA PollServes == ServiceInv /\ Poll => ServiceInv' /\ Serves
<1> SUFFICES ASSUME ServiceInv, PollInfo
             PROVE  ServiceInv' /\ Serves
  BY Zenon DEF Poll
<1>1. generation \in 1 .. generation
  BY TurnBounded DEF ServiceInv
<1>2. /\ polled' = [NoPoll EXCEPT !.boot = (pc = "boot"), !.gen = generation]
      /\ pc' = "connections" /\ UNCHANGED <<portFrame, used, once>>
  BY Zenon DEF PollInfo
<1>3. "gen" \in DOMAIN polled' /\ polled'.gen = generation
  BY Zenon, <1>2 DEF NoPoll
<1>4. pc' \in Polling /\ pc' \notin Recovering /\ OtherMarks
  BY Zenon, <1>2 DEF Polling, Recovering, OtherMarks
<1>5. QED
  BY Zenon, <1>1, <1>2, <1>3, <1>4, PortFrame, PollGoesOn

\* A poll without a reply ends, and is counted as a trouble.
LEMMA FailedPollServes == ServiceInv /\ PollFails => ServiceInv' /\ Serves
<1> SUFFICES ASSUME ServiceInv, PollFails
             PROVE  ServiceInv' /\ Serves
  BY Zenon
<1>1. /\ UNCHANGED <<pollFrame, cmds, once, recovery>> /\ Use("losses")
      /\ pc' = "idle" /\ polled' = NoPoll
  BY Zenon DEF PollFails, Lose
<1>2. /\ UNCHANGED <<cmds, events, staged, generation, recovery, acked, processed, answers,
                     stored, results, control, once>>
      /\ "losses" \in Kinds \ {"sets", "restarts"} /\ code' \in Outcomes
  BY Zenon, <1>1 DEF pollFrame, intent, applied, deviceVars, replay, Kinds, ServiceInv, DataOK,
              StoredOK
<1>3. QED
  BY Zenon, <1>1, <1>2, ThreadStops

\* STATE_DB is refreshed from the new matrix; the recovery key fences it.
LEMMA RecoveryServes == ServiceInv /\ Recover => ServiceInv' /\ Serves
<1> SUFFICES ASSUME ServiceInv, Recover
             PROVE  ServiceInv' /\ Serves
  BY Zenon
<1>1. /\ "gen" \in DOMAIN polled
      /\ pc \in Polling \cup Recovering => polled.gen \in 1 .. generation
      /\ pc \in Recovering => polled.gen \notin DOMAIN recovery
  BY Zenon DEF ServiceInv, RecoverPhase
<1>2. CASE SendRecovery
  <2> DEFINE needed == Members(plan.batch) # {}
  <2>1. /\ pc = "sendRecovery" /\ pc' = "device"
        /\ recovery' = Put(recovery, polled.gen, needed)
        /\ cmds' = IF needed
                   THEN Append(cmds, [id |-> <<"RECOVERY", polled.gen>>, batch |-> plan.batch])
                   ELSE cmds
        /\ UNCHANGED <<pollFrame, once, polled, plan, used>>
    BY Zenon, <1>2 DEF SendRecovery, RecoveryId
  <2>2. UNCHANGED <<events, staged, acked, processed, answers, stored, used, generation,
                    results, code, once, control, polled, plan>>
    BY Zenon, <2>1 DEF pollFrame, intent, applied, deviceVars, replay
  <2>3. QED
    BY Zenon, <2>1, <2>2, RecoverySent
<1>3. CASE EndPoll
  <2>1. /\ UNCHANGED <<pollFrame, cmds, recovery, used>> /\ OtherMarks
        /\ pc' = "idle" /\ pc' \notin Polling \cup Recovering /\ "gen" \in DOMAIN polled'
    BY Zenon, <1>3 DEF EndPoll, NoPoll, OtherMarks, Polling, Recovering
  <2>2. QED
    BY Zenon, <2>1, PollFrame, PollGoesOn
<1>4. CASE \/ PollDecide \/ RecoverStart \/ RefreshDone \/ CountGeneration
           \/ \E c \in Conns : Refresh(c) \/ RefreshExtra(c)
  <2>1. UNCHANGED <<pollFrame, cmds, recovery, used>>
    BY Zenon, <1>4 DEF PollDecide, RecoverStart, RefreshDone, CountGeneration, Refresh,
                       RefreshExtra
  <2>2. /\ pc \in {"ports", "recover"} \cup Recovering
        /\ \/ pc' \in {"recover", "device", "desired"}
           \/ pc' \in Recovering /\ (pc \in Recovering \/ polled.gen \notin DOMAIN recovery)
    BY Zenon, <1>4 DEF PollDecide, RecoverStart, RefreshDone, CountGeneration, Refresh,
                RefreshExtra, Recovering
  <2>3. OtherMarks
    <3>1. once' = once \/ once' = once \cup {<<"gen", polled.gen>>}
      BY Zenon, <1>4 DEF PollDecide, RecoverStart, RefreshDone, CountGeneration, Refresh,
                         RefreshExtra, CountOnce
    <3>2. QED
      BY <3>1 DEF OtherMarks
  <2>4. "gen" \in DOMAIN polled' /\ polled'.gen = polled.gen
    <3>1. \/ polled' = polled
          \/ \E c \in Conns : polled' = [polled EXCEPT !.actual[c] = Gone]
      BY Zenon, <1>4 DEF PollDecide, RecoverStart, RefreshDone, CountGeneration, Refresh,
                         RefreshExtra
    <3>2. QED
      BY Zenon, <1>1, <3>1
  <2>5. /\ pc \in Polling \cup Recovering
        /\ pc' \in Polling \cup Recovering \cup {"device", "desired"}
        /\ pc' \in Recovering => pc \in Recovering \/ polled.gen \notin DOMAIN recovery
    BY Zenon, <2>2 DEF Polling, Recovering
  <2>6. QED
    BY Zenon, <1>1, <2>1, <2>3, <2>4, <2>5, PollFrame, PollGoesOn
<1>5. QED
  BY Zenon, <1>2, <1>3, <1>4 DEF Recover

-----------------------------------------------------------------------------
(* Reconciliation *)

\* A new plan asks for what is desired and for what it calls a drift.
LEMMA PlanMade ==
  ASSUME MakePlan
  PROVE  PlanAsks' /\ (pc' = "drifted" => Members(plan'.batch) # {})
<1>1. plan' = Plan /\ polled' = polled /\ (pc' = "drifted" => Drifts(Plan) # {})
  BY Zenon DEF MakePlan
<1>2. \A c \in Conns : Drifted(c) # "none" \/ polled.want[c] # Gone
                       => SnapshotOf(c).op # "NONE"
  BY Zenon DEF Drifted, SnapshotOf, Removal
<1>3. PlanAsks'
  BY Zenon, <1>1, <1>2 DEF PlanAsks, Plan
<1>4. ASSUME pc' = "drifted"
      PROVE  Members(plan'.batch) # {}
  <2>1. PICK c \in Conns : Drifted(c) # "none"
    BY Zenon, <1>1, <1>4 DEF Drifts, Plan
  <2>2. QED
    BY Zenon, <1>1, <1>2, <2>1 DEF Members, Plan
<1>5. QED
  BY Zenon, <1>3, <1>4

\* It still does when the failure of a connection is confirmed.
LEMMA FailureAsked ==
  ASSUME ServiceInv, NEW c \in Conns, CheckFailure(c)
  PROVE  PlanAsks' /\ (pc' = "drifted" => Members(plan'.batch) # {})
<1>1. /\ PlanAsks /\ plan' = Confirmed(c) /\ polled' = polled
      /\ pc' = "drifted" => Drifts(plan') # {}
  BY Zenon DEF CheckFailure, ServiceInv, CyclePhase
<1> DEFINE b == plan.batch
           k == plan.kind
<1>2. ASSUME plan' = plan
      PROVE  PlanAsks'
  BY Zenon, <1>1, <1>2 DEF PlanAsks
<1>3. ASSUME FailedUpsert(c),
             plan' = [plan EXCEPT !.kind[c] = "mismatched", !.confirm = TRUE]
      PROVE  PlanAsks'
  <2>1. polled.want[c] # Gone
    BY Zenon, <1>3 DEF FailedUpsert
  <2>2. plan' = [batch |-> b, kind |-> [k EXCEPT ![c] = "mismatched"], confirm |-> TRUE]
    BY Zenon, <1>1, <1>3 DEF PlanAsks
  <2>3. /\ plan'.batch = b /\ plan'.kind = [k EXCEPT ![c] = "mismatched"]
        /\ plan'.confirm = TRUE
    BY Zenon, <2>2
  <2>4. DOMAIN plan'.kind = Conns /\ \A d \in Conns : d = c \/ plan'.kind[d] = k[d]
    BY Zenon, <1>1, <2>3 DEF PlanAsks
  <2>5. \A d \in Conns : plan'.kind[d] # "none" \/ polled.want[d] # Gone => b[d].op # "NONE"
    BY Zenon, <1>1, <2>1, <2>4 DEF PlanAsks
  <2>6. QED
    BY Zenon, <1>1, <2>2, <2>3, <2>4, <2>5 DEF PlanAsks
<1>4. ASSUME plan' = [plan EXCEPT !.batch[c] = Removal(app[c].ver), !.kind[c] = "missing",
                                  !.confirm = TRUE]
      PROVE  PlanAsks'
  <2>1. Removal(app[c].ver).op = "REMOVE"
    BY Zenon DEF Removal
  <2>2. plan' = [batch |-> [b EXCEPT ![c] = Removal(app[c].ver)],
                 kind |-> [k EXCEPT ![c] = "missing"], confirm |-> TRUE]
    BY Zenon, <1>1, <1>4 DEF PlanAsks
  <2>3. /\ plan'.batch = [b EXCEPT ![c] = Removal(app[c].ver)]
        /\ plan'.kind = [k EXCEPT ![c] = "missing"] /\ plan'.confirm = TRUE
    BY Zenon, <2>2
  <2>4. /\ DOMAIN plan'.kind = Conns /\ DOMAIN plan'.batch = Conns
        /\ plan'.batch[c].op = "REMOVE"
        /\ \A d \in Conns : d = c \/ (plan'.kind[d] = k[d] /\ plan'.batch[d] = b[d])
    <3>1. DOMAIN b = Conns /\ DOMAIN k = Conns
      BY Zenon, <1>1 DEF PlanAsks
    <3>2. DOMAIN plan'.kind = Conns /\ \A d \in Conns : d = c \/ plan'.kind[d] = k[d]
      BY Zenon, <2>3, <3>1
    <3>3. DOMAIN plan'.batch = Conns /\ \A d \in Conns : d = c \/ plan'.batch[d] = b[d]
      BY Zenon, <2>3, <3>1
    <3>4. plan'.batch[c] = Removal(app[c].ver)
      BY Zenon, <2>3, <3>1
    <3>5. QED
      BY Zenon, <2>1, <3>2, <3>3, <3>4
  <2>5. \A d \in Conns : plan'.kind[d] # "none" \/ polled.want[d] # Gone
                         => plan'.batch[d].op # "NONE"
    BY Zenon, <1>1, <2>4 DEF PlanAsks
  <2>6. QED
    BY Zenon, <1>1, <2>2, <2>3, <2>4, <2>5 DEF PlanAsks
<1>5. PlanAsks'
  BY Zenon, <1>1, <1>2, <1>3, <1>4 DEF Confirmed
<1>6. pc' = "drifted" => Members(plan'.batch) # {}
  BY Zenon, <1>1, <1>5 DEF PlanAsks, Drifts, Members
<1>7. QED
  BY Zenon, <1>5, <1>6

\* The desired connections are read, compared, and a cycle opened, told
\* about, or ended; its command and its markers are its own.
LEMMA CycleServes == ServiceInv /\ ReconcileDevice => ServiceInv' /\ Serves
<1> SUFFICES ASSUME ServiceInv, ReconcileDevice
             PROVE  ServiceInv' /\ Serves
  BY Zenon
<1>1. "gen" \in DOMAIN polled /\ CyclePhase
  BY Zenon DEF ServiceInv, RecoverPhase
<1>2. CASE SendReconcile
  <2>1. UNCHANGED <<cycleFrame, control, polled, plan>>
    BY Zenon, <1>2 DEF SendReconcile
  <2>2. UNCHANGED <<events, staged, acked, processed, answers, stored, used, generation,
                    results, code, recovery, control, polled, plan>>
    BY Zenon, <2>1 DEF cycleFrame, intent, applied, deviceVars, replay
  <2>3. QED
    BY Zenon, <1>2, <2>2, CycleSent DEF SendReconcile
<1>3. CASE MakePlan \/ \E c \in Conns : CheckFailure(c)
  <2>1. /\ UNCHANGED <<cycleFrame, cmds, control, once, polled>>
        /\ pc' \in {"failures", "drifted", "converged"}
    BY Zenon, <1>3 DEF MakePlan, CheckFailure
  <2>2. PlanAsks' /\ (pc' = "drifted" => Members(plan'.batch) # {})
    BY Zenon, <1>3, PlanMade, FailureAsked
  <2>3. QED
    BY Zenon, <1>1, <2>1, <2>2, CycleFrame, CycleTurns DEF CyclePhase
<1>4. CASE SetConverged \/ MarkPublished
  <2>1. /\ UNCHANGED <<cycleFrame, cmds, once, polled>>
        /\ pc \in Reconciling \cup Closing /\ pc' = "device"
        /\ \/ control' = [control EXCEPT !.status = "CONVERGED"]
           \/ control' = [control EXCEPT !.status = "PUBLISHED"]
    BY Zenon, <1>4 DEF SetConverged, MarkPublished, Reconciling, Closing
  <2>2. QED
    BY Zenon, <1>1, <2>1, CycleFrame, CycleTurns DEF CyclePhase
<1>5. CASE OpenCycle
  <2>1. /\ UNCHANGED <<cycleFrame, cmds, plan, once, polled>> /\ pc = "drifted"
        /\ pc' \in {"device", "associate"}
        /\ \/ UNCHANGED control /\ (pc' = "associate" => control.status = "PUBLISHING")
           \/ /\ control' = [status |-> "PUBLISHING", id |-> <<"RECONCILE", control.id[2] + 1>>,
                             sig |-> plan.batch, reason |-> Reason]
              /\ control.id[2] < MaxReconciles
    BY Zenon, <1>5 DEF OpenCycle
  <2>2. /\ {"id", "status"} \subseteq DOMAIN control' /\ control'.id \in {NoId} \cup ReconcileIds
        /\ control'.status # "NONE" => control'.id \in ReconcileIds
        /\ pc' = "associate" => control'.id \in ReconcileIds
    <3>1. CASE UNCHANGED control
      BY <1>1, <2>1, <3>1 DEF CyclePhase
    <3>2. CASE /\ control' = [status |-> "PUBLISHING",
                              id |-> <<"RECONCILE", control.id[2] + 1>>,
                              sig |-> plan.batch, reason |-> Reason]
               /\ control.id[2] < MaxReconciles
      <4>1. control.id[2] \in Nat
        BY <1>1, SyncdAssumption DEF CyclePhase, ReconcileIds, NoId
      <4>2. control.id[2] + 1 \in 1 .. MaxReconciles
        BY <3>2, <4>1, SyncdAssumption
      <4>3. QED
        BY Zenon, <3>2, <4>2 DEF ReconcileIds
    <3>3. QED
      BY Zenon, <2>1, <3>1, <3>2
  <2>3. Members(plan'.batch) # {}
    BY Zenon, <1>1, <2>1 DEF CyclePhase
  <2>4. QED
    BY Zenon, <2>1, <2>2, <2>3, CycleFrame, CycleTurns
<1>6. CASE \/ \E c \in Conns : LoadDesired(c) \/ CheckSettled(c)
           \/ ScanSettled \/ Converged \/ ClearDriftAlarm \/ UncountDrift \/ AssociatePortFaults
           \/ PublishDrifted \/ PublishReconciling \/ CountDrift \/ RaiseDriftAlarm
           \/ CountDriftAlarm
  <2>1. UNCHANGED <<cycleFrame, cmds, control, plan>>
    BY Zenon, <1>6 DEF LoadDesired, ScanSettled, CheckSettled, Converged, ClearDriftAlarm, UncountDrift,
       AssociatePortFaults, PublishDrifted, PublishReconciling, CountDrift, RaiseDriftAlarm,
       CountDriftAlarm
  <2>2. "gen" \in DOMAIN polled'
    <3>1. \/ polled' = polled
          \/ \E c \in Conns : polled' = [polled EXCEPT !.want[c] = config[c]]
      BY Zenon, <1>6 DEF LoadDesired, ScanSettled, CheckSettled, Converged, ClearDriftAlarm, UncountDrift,
         AssociatePortFaults, PublishDrifted, PublishReconciling, CountDrift, RaiseDriftAlarm,
         CountDriftAlarm
    <3>2. QED
      BY Zenon, <1>1, <3>1
  <2>3. OtherMarks
    <3>1. \/ once' = once
          \/ \E t \in {"drift", "driftUp", "driftDown"} : \E x : once' = once \cup {<<t, x>>}
      BY Zenon, <1>6 DEF LoadDesired, ScanSettled, CheckSettled, Converged, ClearDriftAlarm,
         UncountDrift, AssociatePortFaults, PublishDrifted, PublishReconciling, CountDrift,
         RaiseDriftAlarm, CountDriftAlarm, AlarmOnce, CountOnce
    <3>2. QED
      BY <3>1 DEF OtherMarks
  <2>4. \/ pc' \in {"desired", "settled", "compare", "plan", "device"}
        \/ pc' \in Reconciling /\ pc \in Reconciling
        \/ pc' \in Closing /\ (pc \in Closing \/ control.status # "NONE")
    BY Zenon, <1>6 DEF Reconciling, Closing, LoadDesired, ScanSettled, CheckSettled, Converged,
       ClearDriftAlarm,        UncountDrift, AssociatePortFaults, PublishDrifted, PublishReconciling, CountDrift,
       RaiseDriftAlarm, CountDriftAlarm
  <2>5. QED
    BY Zenon, <2>1, <2>2, <2>3, <2>4, CycleFrame, CycleStays
<1>7. QED
  BY Zenon, <1>2, <1>3, <1>4, <1>5, <1>6 DEF ReconcileDevice

-----------------------------------------------------------------------------
(* Steps of the others *)

\* A Set appends one event, with a batch that asks for something.
LEMMA SetServes ==
  ASSUME ServiceInv, NEW b \in Sets, Set(b)
  PROVE  ServiceInv' /\ Serves
<1> DEFINE e == [ver |-> rev', batch |-> Versioned(b, rev')]
<1>1. /\ Use("sets") /\ events' = Append(events, e)
      /\ UNCHANGED <<generation, results, staged>> /\ UNCHANGED syncdVars
  BY Zenon DEF Set, syncdVars, deviceVars, replay
<1>2. e.ver = rev' /\ Members(e.batch) # {}
  <2>1. PICK c \in Conns : b[c].op # "NONE"
    BY Zenon, PlaneAssumption DEF Members
  <2>2. Versioned(b, rev')[c].op = b[c].op
    BY Zenon, <2>1, PlaneAssumption DEF Versioned, Command
  <2>3. QED
    BY Zenon, <2>1, <2>2 DEF Members
<1>3. QED
  BY Zenon, <1>1, <1>2, EventAdded

\* Orch writes snapshots, publishes commands and takes results.
LEMMA OrchServes == ServiceInv /\ OrchStep => ServiceInv' /\ Serves
<1> SUFFICES ASSUME ServiceInv, OrchStep
             PROVE  ServiceInv' /\ Serves
  BY Zenon
<1>1. CASE OrchPublish
  <2>1. /\ staged /\ staged' = FALSE /\ events' = Tail(events)
        /\ cmds' = Append(cmds, [id |-> <<"SET", Head(events).ver>>, batch |-> Head(events).batch])
    BY Zenon, <1>1 DEF OrchPublish, event, SetId
  <2>2. UNCHANGED <<acked, processed, answers, stored, used, generation, results, code, once,
                    recovery, control, pc, todo, polled, plan>>
    BY Zenon, <1>1 DEF OrchPublish, applied, cycle, loop, deviceVars, replay
  <2>3. QED
    BY Zenon, <2>1, <2>2, EventSent
<1>2. CASE OrchStage \/ OrchResult
  <2>1. /\ UNCHANGED <<generation, results, used, events>> /\ UNCHANGED syncdVars
        /\ staged' => events # <<>> \/ staged
    <3>1. /\ UNCHANGED <<deviceVars, events, syncdVars, used>>
          /\ staged' = staged \/ events # <<>>
      BY Zenon, <1>2 DEF OrchStage, OrchResult
    <3>2. QED
      BY <3>1 DEF deviceVars, replay
  <2>2. QED
    BY Zenon, <2>1, Beside DEF ServiceInv, DataOK, EventsOK
<1>3. QED
  BY Zenon, <1>1, <1>2 DEF OrchStep

\* Drifts, faults and restarts of the device, ports that fail and return.
LEMMA DeviceServes ==
  ASSUME ServiceInv, DeviceDrifts \/ DeviceFault \/ PortFlips \/ HwsimRestarts \/ PortReturns
  PROVE  ServiceInv' /\ Serves
<1>1. UNCHANGED <<events, staged>> /\ UNCHANGED syncdVars
  <2>1. UNCHANGED <<intent, syncdVars>>
    BY Zenon DEF DeviceDrifts, DeviceFault, PortFlips, HwsimRestarts, PortReturns
  <2>2. QED
    BY Zenon, <2>1 DEF intent
<1>2. results' \in [OpIds -> Codes \cup {"none"}]
  <2>1. CASE HwsimRestarts
    BY Zenon, <2>1 DEF HwsimRestarts, Restart, Fresh
  <2>2. CASE DeviceDrifts \/ DeviceFault \/ PortFlips \/ PortReturns
    <3>1. UNCHANGED results
      BY Zenon, <2>2 DEF DeviceDrifts, DeviceFault, PortFlips, PortReturns, Drift, InjectNext,
                  InjectPortDown, ClearPort, replay
    <3>2. QED
      BY Zenon, <3>1 DEF ServiceInv, DataOK, StoredOK
  <2>3. QED
    BY Zenon, <2>1, <2>2
<1>3. BudgetOK' /\ rev \in Nat /\ rev' = rev /\ generation \in Nat /\ generation <= generation'
  <2>1. BudgetOK /\ generation \in Nat /\ rev \in Nat
    BY DEF ServiceInv, DataOK, BudgetOK, Kinds, rev
  <2>2. CASE HwsimRestarts
    <3>1. Use("restarts") /\ generation' = generation + 1
      BY Zenon, <2>2 DEF HwsimRestarts, Restart, Fresh
    <3>2. QED
      BY <2>1, <3>1, TroubleCounted DEF Kinds
  <2>3. CASE PortReturns
    BY <2>1, <2>3 DEF PortReturns, ClearPort, BudgetOK, rev
  <2>4. CASE DeviceDrifts \/ DeviceFault \/ PortFlips
    <3>1. PICK k \in {"drifts", "faults", "flips"} : Use(k)
      BY Zenon, <2>4 DEF DeviceDrifts, DeviceFault, PortFlips
    <3>2. generation' = generation
      BY Zenon, <2>4 DEF DeviceDrifts, DeviceFault, PortFlips, Drift, InjectNext, InjectPortDown
    <3>3. k \in Kinds /\ k \notin {"sets", "restarts"}
      BY Zenon DEF Kinds
    <3>4. QED
      BY <2>1, <3>1, <3>2, <3>3, TroubleCounted
  <2>5. QED
    BY Zenon, <2>2, <2>3, <2>4
<1>4. EventsOK'
  BY Zenon, <1>1, <1>3 DEF ServiceInv, DataOK, EventsOK, Members
<1>5. \A i \in 1 .. Len(cmds) : \A j \in 1 .. Len(events') :
        cmds[i].id[1] = "SET" => cmds[i].id[2] < events'[j].ver
  <2>1. FreshOK /\ events' = events
    BY Zenon, <1>1 DEF ServiceInv, DataOK
  <2>2. QED
    BY Zenon, <2>1 DEF FreshOK
<1>6. used["sets"] <= used["sets"]'
  BY <1>3 DEF rev
<1>7. QED
  BY Zenon, <1>1, <1>2, <1>3, <1>4, <1>5, <1>6, Around

\* A crash loses the memory of the thread and nothing else.
LEMMA CrashServes == ServiceInv /\ SyncdCrash => ServiceInv' /\ Serves
<1> SUFFICES ASSUME ServiceInv, SyncdCrash
             PROVE  ServiceInv' /\ Serves
  BY Zenon
<1>1. /\ Use("crashes") /\ pc' = "boot" /\ code' = "OK" /\ polled' = NoPoll
      /\ UNCHANGED <<deviceVars, intent, cmds, acked, answers, applied, once, cycle>>
  BY Zenon DEF SyncdCrash
<1>2. UNCHANGED <<cmds, events, staged, generation, recovery, acked, processed, answers,
                  stored, results, control, once>>
  BY Zenon, <1>1 DEF intent, applied, deviceVars, replay, cycle
<1>3. "crashes" \in Kinds \ {"sets", "restarts"} /\ code' \in Outcomes
  BY Zenon, <1>1 DEF Kinds, Outcomes, Codes
<1>4. QED
  BY Zenon, <1>1, <1>2, <1>3, ThreadStops

-----------------------------------------------------------------------------
(* The theorems *)

\* A new system has no commands, no answers and no markers.
LEMMA InitServes == Init => ServiceInv /\ Service!ServiceInit
<1> SUFFICES ASSUME Init
             PROVE  ServiceInv /\ Service!ServiceInit
  BY Zenon
<1>1. /\ cmds = <<>> /\ events = <<>> /\ staged = FALSE /\ acked = 0 /\ answers = <<>>
      /\ once = {} /\ generation = 1 /\ pc = "idle" /\ code = "OK"
      /\ results = [o \in OpIds |-> "none"] /\ used = [k \in Kinds |-> 0]
  BY Zenon DEF Init, DeviceInit
<1>2. /\ DOMAIN stored = {} /\ DOMAIN processed = {}
      /\ control.status = "NONE" /\ control.id = NoId /\ {"id", "status"} \subseteq DOMAIN control
      /\ "gen" \in DOMAIN polled
  BY Zenon DEF Init, NoKeys, NoControl, NoPoll
<1>3. Sequence(<<>>) /\ Len(<<>>) = 0 /\ 1 .. Len(<<>>) = {}
  BY DEF Sequence
<1>4. Finished = 0
  BY <1>1, <1>3 DEF Finished
<1>5. CommandsOK /\ EventsOK /\ FreshOK
  BY Zenon, <1>1, <1>3 DEF CommandsOK, EventsOK, FreshOK
<1>6. BudgetOK
  <2>1. PICK t \in Troubles : t \in [Kinds -> Nat]
    BY Zenon, SyncdAssumption
  <2>2. \A k \in Kinds : used[k] <= t[k]
    BY <1>1, <2>1
  <2>3. QED
    BY <1>1, <2>2 DEF BudgetOK, Kinds
<1>7. TurnOK /\ AnswersOK /\ StoredOK
  BY <1>1, <1>2, <1>3, <1>4 DEF TurnOK, AnswersOK, StoredOK, Outcomes, Codes
<1>8. pc \notin AtWork \cup Polling \cup Recovering \cup Reconciling \cup Closing
                  \cup {"drifted", "failures"}
  BY Zenon, <1>1 DEF AtWork, Applying, Publishing, Polling, Recovering, Reconciling, Closing
<1>9. ApplyPhase /\ RecoverPhase /\ CyclePhase
  BY Zenon, <1>2, <1>8 DEF ApplyPhase, RecoverPhase, CyclePhase, AtWork, Publishing
<1>10. Service!ServiceInit
  BY Zenon, <1>1, <1>4 DEF Service!ServiceInit
<1>11. QED
  BY Zenon, <1>5, <1>6, <1>7, <1>9, <1>10 DEF ServiceInv, DataOK

\* Every step of the plane is a step of the service, or none.
LEMMA StepServes == ServiceInv /\ [Next]_vars => ServiceInv' /\ Serves
<1> SUFFICES ASSUME ServiceInv, [Next]_vars
             PROVE  ServiceInv' /\ Serves
  BY Zenon
<1>1. CASE ProcessOne
  BY Zenon, <1>1, ApplyServes, StoreServes, StateServes, ResultServes, MarkServes,
     AcknowledgeServes DEF ProcessOne
<1>2. CASE Fault \/ PortReturns
  BY Zenon, <1>2, DeviceServes, CrashServes DEF Fault
<1>3. CASE UNCHANGED vars
  <2>1. UNCHANGED <<events, staged, generation, results, used>> /\ UNCHANGED syncdVars
    BY Zenon, <1>3 DEF vars, planeVars, intent, deviceVars, replay
  <2>2. QED
    BY Zenon, <2>1, Beside DEF ServiceInv, DataOK, EventsOK
<1>4. CASE \E b \in Sets : Set(b)
  BY Zenon, <1>4, SetServes
<1>5. QED
  BY Zenon, <1>1, <1>2, <1>3, <1>4, OrchServes, PollServes, TakeServes, PortsServe,
     RecoveryServes, CycleServes, FailedPollServes DEF Next, Process, Continue

\* The ids of commands are fresh, the acknowledged commands are processed and
\* every answer has its marker, whatever happens between syncd's steps.
THEOREM ServiceInvariant == Spec => []ServiceInv
<1>1. QED
  BY InitServes, StepServes, PTL DEF Spec

\* ocs-syncd finishes the published commands in their order and answers every
\* member at most once and with one outcome: its processOne, polls, recovery
\* and reconciliation implement CommandService, whatever crashes, restarts,
\* drifts, faults and lost replies come between their steps.
THEOREM SyncdServes == Spec => ImplementsService
<1>1. Init => Service!ServiceInit
  BY Zenon, InitServes
<1>2. ServiceInv /\ [Next]_vars => [Service!ServiceNext]_(Service!svars)
  BY Zenon, StepServes DEF Serves
<1>3. QED
  BY <1>1, <1>2, ServiceInvariant, PTL DEF Spec, ImplementsService, Service!ServiceSpec
=============================================================================
