----------------------------- MODULE SyncdApply -----------------------------
(***************************************************************************)
(* SyncdService::processOne: one action per Redis transaction or device    *)
(* call, so that a crash can fall between any two.  Every effect has its   *)
(* own once-marker; the entry is acknowledged last.                        *)
(***************************************************************************)
EXTENDS SyncdData

cmd == cmds[acked + 1]
batch == cmd.batch
Waiting == pc = "idle" /\ acked < Len(cmds)
applyFrame == <<intent, cmds, devState, recovery, driftDb, alarms, polled, plan>>

isAlreadyProcessed == cmd.id \in DOMAIN processed

isStaleVersion ==
  /\ ~IsGenerationRecovery(cmd.id) /\ ~IsReconciliation(cmd.id)
  /\ \A c \in Members(batch) :
       /\ lastOk[c].ver # 0 /\ lastOk[c].gen = cached
       /\ batch[c].ver <= lastOk[c].ver

\* The first entry is read, or claimed after a crash.
TakeProcessed ==
  /\ Waiting /\ isAlreadyProcessed
  /\ acked' = acked + 1
  /\ UNCHANGED <<used, deviceVars, applyFrame, answers, applied, stateDb, once, control,
                 portDb, pc, cached, code, loop>>

TakeStored ==
  /\ Waiting /\ ~isAlreadyProcessed /\ cmd.id \in DOMAIN stored
  /\ pc' = "state" /\ todo' = Members(batch) /\ sum' = 0
  /\ UNCHANGED <<used, deviceVars, applyFrame, acked, answers, applied, stateDb, once,
                 control, portDb, cached, code>>

NotTried == cmd.id \notin attempt \cup DOMAIN stored

TakeStale ==
  /\ Waiting /\ ~isAlreadyProcessed /\ NotTried /\ isStaleVersion
  /\ processed' = Put(processed, cmd.id, FALSE)
  /\ pc' = "ack"
  /\ UNCHANGED <<used, deviceVars, applyFrame, acked, answers, attempt, stored, lastOk,
                 stateDb, once, control, portDb, cached, code, loop>>

TakeCommand ==
  /\ Waiting /\ ~isAlreadyProcessed /\ cmd.id \notin DOMAIN stored
  /\ ~(NotTried /\ isStaleVersion)
  /\ attempt' = attempt \cup {cmd.id}
  /\ pc' = "info"
  /\ UNCHANGED <<used, deviceVars, applyFrame, acked, answers, stored, processed, lastOk,
                 stateDb, once, control, portDb, cached, code, loop>>

\* getDeviceInfo.
ApplyInfo ==
  /\ pc = "info"
  /\ \/ cached' = generation /\ pc' = "apply" /\ UNCHANGED <<code, used>>
     \/ Lose /\ code' = "DEVICE_NOT_READY" /\ pc' = "store" /\ UNCHANGED cached
  /\ UNCHANGED <<deviceVars, applyFrame, acked, answers, applied, stateDb, once,
                 control, portDb, loop>>

\* applyConnections: answered, or run or not run with the reply lost.
Apply ==
  /\ pc = "apply"
  /\ \/ /\ ApplyConnections(cmd.id, batch)
        /\ code' = Answer(cmd.id, batch) /\ UNCHANGED used
     \/ /\ Lose
        /\ ApplyConnections(cmd.id, batch) \/ UNCHANGED deviceVars
        /\ code' \in {"APPLY_TIMEOUT", "DEVICE_NOT_READY"}
  /\ pc' = IF code' = "OK" THEN "store" ELSE "confirm"
  /\ UNCHANGED <<applyFrame, acked, answers, applied, stateDb, once, control,
                 portDb, cached, loop>>

\* confirmAppliedResult: the whole batch, on ports that are up, or nothing.
Confirms(b) ==
  \A c \in Members(b) :
    IF b[c].op = "REMOVE" THEN matrix[c] = Gone
    ELSE /\ Holds(matrix[c], b[c])
         /\ {<<"in", b[c].in>>, <<"out", b[c].out>>} \cap down = {}

ConfirmApplied ==
  /\ pc = "confirm"
  /\ \/ code' = (IF Confirms(batch) THEN "OK" ELSE code) /\ UNCHANGED used
     \/ Lose /\ UNCHANGED code
  /\ pc' = "store"
  /\ UNCHANGED <<deviceVars, applyFrame, acked, answers, applied, stateDb, once,
                 control, portDb, cached, loop>>

StoreResult ==
  /\ pc = "store"
  /\ stored' = Put(stored, cmd.id, code)
  /\ pc' = "state" /\ todo' = Members(batch) /\ sum' = 0
  /\ UNCHANGED <<used, deviceVars, applyFrame, acked, answers, attempt, processed, lastOk,
                 stateDb, once, control, portDb, cached, code>>

-----------------------------------------------------------------------------
(* publishState, one member of the batch at a time *)

result == stored[cmd.id]

\* Mutant: the version of the published state is not compared.
NeverSuperseded(c) == FALSE

SupersededState(c) == state[c].ver > batch[c].ver

\* A member confirmed ACTIVE on its ports keeps its state when the batch
\* failed because another member's port is down.
PreserveConfirmed(c) ==
  /\ result = "PORT_DOWN" /\ batch[c].op = "UPSERT"
  /\ state[c] = [present |-> TRUE, status |-> "ACTIVE", ver |-> batch[c].ver,
                 in |-> batch[c].in, out |-> batch[c].out, applied |-> batch[c].ver]

\* A failure changes the version and the status of the last confirmed state.
AppliedState(c) ==
  LET b == batch[c]
      old == IF state[c] # NoState THEN state[c]
             ELSE [NoState EXCEPT !.in = b.in, !.out = b.out]
  IN  IF result # "OK" THEN [old EXCEPT !.ver = b.ver, !.status = "FAILED"]
      ELSE IF b.op = "REMOVE" THEN NoState
      ELSE [present |-> TRUE, status |-> "ACTIVE", ver |-> b.ver, in |-> b.in,
            out |-> b.out, applied |-> b.ver]

ConfirmedUnchanged(c) == <<"unchanged", cmd.id, c>>

PublishState ==
  LET c == First(todo)
      key == <<"state", cmd.id, c>>
      new == IF SupersededState(c) \/ PreserveConfirmed(c) THEN state[c]
             ELSE AppliedState(c)
      d == ActiveDelta(state[c].present, new.present)
  IN  /\ pc = "state" /\ todo # {}
      /\ PutStateOnce(key, d, c, new)
      /\ once' = IF key \notin DOMAIN delta /\ ~SupersededState(c) /\ PreserveConfirmed(c)
                 THEN once \cup {ConfirmedUnchanged(c)} ELSE once
      /\ sum' = sum + DeltaOf(key, d)
      /\ todo' = todo \ {c}
      /\ UNCHANGED <<used, deviceVars, applyFrame, acked, answers, applied, active, control,
                     portDb, pc, cached, code>>

\* recordApplyCountersOnce.
RecordCounters ==
  /\ pc = "state" /\ todo = {}
  /\ CountOnce(<<"apply", cmd.id>>, sum)
  /\ pc' = "result" /\ todo' = Members(batch)
  /\ UNCHANGED <<used, deviceVars, applyFrame, acked, answers, applied, state, delta,
                 control, portDb, cached, code, sum>>

\* publishResult, one member at a time; a member confirmed unchanged succeeds.
Result(c) ==
  [id |-> cmd.id, conn |-> c, ver |-> batch[c].ver, batch |-> batch,
   code |-> IF ConfirmedUnchanged(c) \in once THEN "OK" ELSE result]

\* Mutant: the result is appended whether or not its marker exists.
PublishResultAgain ==
  \E c \in todo :
  /\ pc = "result" /\ c = First(todo)
  /\ answers' = Append(answers, Result(c))
  /\ once' = once \cup {<<"result", cmd.id, c>>}
  /\ todo' = todo \ {c}
  /\ UNCHANGED <<used, deviceVars, applyFrame, acked, applied, stateDb, control, portDb, pc,
                 cached, code, sum>>

PublishResult ==
  \E c \in todo :
  LET mark == <<"result", cmd.id, c>> IN
  /\ pc = "result" /\ c = First(todo)
  /\ answers' = IF mark \in once THEN answers ELSE Append(answers, Result(c))
  /\ once' = once \cup {mark}
  /\ todo' = todo \ {c}
  /\ UNCHANGED <<used, deviceVars, applyFrame, acked, applied, stateDb, control, portDb, pc,
                 cached, code, sum>>

-----------------------------------------------------------------------------
(* markProcessed and acknowledge *)

\* The versions a success establishes, with the generation of the device.
OkVersions ==
  [c \in Conns |->
     IF c \notin Members(batch) \/ (lastOk[c].ver # 0 /\ lastOk[c].gen = cached
                                      /\ lastOk[c].ver >= batch[c].ver)
     THEN lastOk[c] ELSE [ver |-> batch[c].ver, gen |-> cached]]

\* A reconciliation ends its cycle, a successful one also the port faults it
\* was published for.
EndCycle(ok) ==
  IF control.id = cmd.id
  THEN [control EXCEPT !.status = IF ok THEN "APPLIED" ELSE "FAILED"] ELSE control
EndFaults(ok) ==
  [p \in Watched |-> IF ok /\ IsReconciliation(cmd.id) /\ portFault[p].cmd = cmd.id
                     THEN [portFault[p] EXCEPT !.status = "RECOVERED"] ELSE portFault[p]]

MarkProcessed ==
  LET ok == result = "OK" IN
  /\ pc = "result" /\ todo = {}
  /\ processed' = Put(processed, cmd.id, ok)
  /\ lastOk' = IF ok THEN OkVersions ELSE lastOk
  /\ control' = EndCycle(ok)
  /\ portFault' = EndFaults(ok)
  /\ pc' = "ack"
  /\ UNCHANGED <<used, deviceVars, applyFrame, acked, answers, attempt, stored, stateDb,
                 once, portState, portAlarm, portDowns, cached, code, loop>>

Acknowledge ==
  /\ pc = "ack"
  /\ acked' = acked + 1 /\ pc' = "idle" /\ code' = "OK" /\ sum' = 0
  /\ UNCHANGED <<used, deviceVars, applyFrame, answers, applied, stateDb, once, control,
                 portDb, cached, todo>>

Take == TakeProcessed \/ TakeStored \/ TakeStale \/ TakeCommand
ProcessOne ==
  \/ ApplyInfo \/ Apply \/ ConfirmApplied \/ StoreResult \/ PublishState
  \/ RecordCounters \/ PublishResult \/ MarkProcessed \/ Acknowledge

-----------------------------------------------------------------------------
(* What the publishers of commands see *)

\* A command is done when it is processed, which may be before it is
\* acknowledged.
Finished == acked + (IF acked < Len(cmds) /\ isAlreadyProcessed THEN 1 ELSE 0)

Service == INSTANCE CommandService WITH
  Outcomes <- Codes \cup {"DEVICE_NOT_READY"}, done <- Finished
=============================================================================
