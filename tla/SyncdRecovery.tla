--------------------------- MODULE SyncdRecovery ----------------------------
(***************************************************************************)
(* The rest of a poll that finds a device of another generation:           *)
(* scheduleGenerationRecovery refreshes STATE_DB from the new matrix and   *)
(* publishes one command for what is missing, then the device state is     *)
(* written.  initialize does the same.                                     *)
(***************************************************************************)
EXTENDS SyncdData

pollFrame == <<deviceVars, intent, acked, answers, applied, control, driftDb, portDb,
               alarms, code>>

Ready == [gen |-> polled.gen, status |-> "READY"]

RecoveryId(g) == <<"RECOVERY", g>>
RecoveryPending ==
  /\ polled.gen \in DOMAIN recovery /\ recovery[polled.gen]
  /\ RecoveryId(polled.gen) \notin DOMAIN processed

\* All ports are read: compare the generation with the published one.
\* Mutant: it is compared with the one in memory.
ChangedSinceCached == cached # polled.gen

GenerationChanged == devState.gen # polled.gen

PollDecide ==
  /\ pc = "ports" /\ todo = {}
  /\ cached' = polled.gen
  /\ \/ GenerationChanged /\ pc' = "recover"
     \/ ~GenerationChanged /\ (polled.boot \/ RecoveryPending) /\ pc' = "device"
     \/ ~GenerationChanged /\ ~polled.boot /\ ~RecoveryPending /\ pc' = "desired"
  /\ todo' = IF pc' = "desired" THEN Conns ELSE {}
  /\ UNCHANGED <<pollFrame, cmds, stateDb, devState, once, recovery, sum, polled, plan,
                 used>>

\* The recovery key fences everything below.
RecoverStart ==
  /\ pc = "recover"
  /\ \/ polled.gen \in DOMAIN recovery /\ pc' = "device" /\ UNCHANGED <<loop, plan>>
     \/ /\ polled.gen \notin DOMAIN recovery
        /\ pc' = "refresh" /\ todo' = {c \in Conns : Snapshot(c)} /\ sum' = 0
        /\ plan' = NoPlan
  /\ UNCHANGED <<pollFrame, cmds, stateDb, devState, once, recovery, cached, polled, used>>

\* The state of a connection with a snapshot, refreshed from the matrix.
SnapshotCommand(c) ==
  IF app[c].op = "REMOVE" THEN [op |-> "REMOVE", in |-> 0, out |-> 0, ver |-> app[c].ver]
  ELSE [op |-> "UPSERT", in |-> app[c].in, out |-> app[c].out, ver |-> app[c].ver]

Matches(b, found) ==
  IF b.op = "REMOVE" THEN found = Gone ELSE Holds(found, b)

RefreshedState(b, found) ==
  IF b.op = "REMOVE" /\ found = Gone THEN NoState
  ELSE IF found # Gone
  THEN [present |-> TRUE, status |-> IF Matches(b, found) THEN "ACTIVE" ELSE "FAILED",
        ver |-> b.ver, in |-> found.in, out |-> found.out, applied |-> found.ver]
  ELSE [present |-> FALSE, status |-> "FAILED", ver |-> b.ver, in |-> b.in,
        out |-> b.out, applied |-> 0]

PutRefreshed(c, new) ==
  LET key == <<"gen", polled.gen, c>>
      d == ActiveDelta(state[c].present, new.present)
  IN  PutStateOnce(key, d, c, new) /\ sum' = sum + DeltaOf(key, d)

\* Scan order is arbitrary; a snapshot deleted since the scan is passed over.
Refresh(c) ==
  LET b == SnapshotCommand(c)
      found == polled.actual[c]
  IN  /\ pc = "refresh" /\ c \in todo
      /\ todo' = todo \ {c}
      /\ \/ ~Snapshot(c) /\ UNCHANGED <<state, delta, sum, polled, plan>>
         \/ /\ Snapshot(c)
            /\ PutRefreshed(c, RefreshedState(b, found))
            /\ plan' = IF Matches(b, found) THEN plan ELSE [plan EXCEPT !.batch[c] = b]
            /\ polled' = [polled EXCEPT !.actual[c] = Gone]
      /\ UNCHANGED <<pollFrame, cmds, active, devState, once, recovery, pc, cached, used>>

RefreshDone ==
  /\ pc = "refresh" /\ todo = {}
  /\ pc' = "extra" /\ todo' = Present(polled.actual)
  /\ UNCHANGED <<pollFrame, cmds, stateDb, devState, once, recovery, cached, sum, polled,
                 plan, used>>

\* A connection of the matrix without a snapshot is to be removed.
RefreshExtra(c) ==
  LET found == polled.actual[c] IN
  /\ pc = "extra" /\ c \in todo
  /\ todo' = todo \ {c}
  /\ PutRefreshed(c, [present |-> TRUE, status |-> "FAILED", ver |-> found.ver,
                      in |-> found.in, out |-> found.out, applied |-> found.ver])
  /\ plan' = [plan EXCEPT !.batch[c] =
                [op |-> "REMOVE", in |-> 0, out |-> 0, ver |-> found.ver]]
  /\ UNCHANGED <<pollFrame, cmds, active, devState, once, recovery, pc, cached, polled,
                 used>>

CountGeneration ==
  /\ pc = "extra" /\ todo = {}
  /\ CountOnce(<<"gen", polled.gen>>, sum)
  /\ pc' = "sendRecovery"
  /\ UNCHANGED <<pollFrame, cmds, state, delta, devState, recovery, cached, loop, polled,
                 plan, used>>

SendRecovery ==
  LET needed == Members(plan.batch) # {} IN
  /\ pc = "sendRecovery"
  /\ recovery' = Put(recovery, polled.gen, needed)
  /\ cmds' = IF needed THEN Append(cmds, [id |-> RecoveryId(polled.gen), batch |-> plan.batch])
             ELSE cmds
  /\ pc' = "device"
  /\ UNCHANGED <<pollFrame, stateDb, devState, once, cached, loop, polled, plan, used>>

\* The poll ends: READY with its generation is published unless it stands.
EndPoll ==
  /\ pc = "device"
  /\ devState' = Ready
  /\ pc' = "idle" /\ sum' = 0 /\ polled' = NoPoll /\ plan' = NoPlan
  /\ UNCHANGED <<pollFrame, cmds, stateDb, once, recovery, cached, todo, used>>

\* A device call of the poll fails: the device state becomes FAILED, with the
\* generation in memory.  initialize would exit and be started again.
PollFails ==
  /\ \/ pc \in {"idle", "connections"}
     \/ pc = "ports" /\ todo # {}
  /\ ~polled.boot
  /\ Lose
  /\ devState' = IF devState.status = "FAILED" THEN devState
                 ELSE [gen |-> cached, status |-> "FAILED"]
  /\ pc' = "idle" /\ todo' = {} /\ polled' = NoPoll
  /\ UNCHANGED <<pollFrame, cmds, stateDb, once, recovery, cached, sum, plan>>

Recover ==
  \/ PollDecide \/ RecoverStart \/ RefreshDone \/ CountGeneration \/ SendRecovery
  \/ EndPoll
  \/ \E c \in Conns : Refresh(c) \/ RefreshExtra(c)
=============================================================================
