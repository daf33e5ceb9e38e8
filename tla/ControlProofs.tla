--------------------------- MODULE ControlProofs ----------------------------
(***************************************************************************)
(* The composition of ocs-orch and ocs-syncd, for any set of connections   *)
(* and any bounds.                                                         *)
(*                                                                         *)
(* Types: the inductive invariant is TypeInv: TypeOK, the phase facts of   *)
(* OrchProofs, and the one about syncd.                                    *)
(*                                                                         *)
(* Order: APPL_DB is ahead of everything downstream of it (NothingNewer),  *)
(* and the matrix never goes back (MatrixNeverBack). The first rests on    *)
(* the order that orch keeps, the second on the device's version fence.    *)
(*                                                                         *)
(* What is sent: each command once, each retry within the limit, and only  *)
(* what APPL_DB still asks for.                                            *)
(***************************************************************************)
EXTENDS ControlPlane, OrchProofs

\* The command whose results are being published is in its stream.
SyncdPhaseOK == spc = "publish" => commands # <<>>

TypeInv == TypeOK /\ PhaseOK /\ SyncdPhaseOK

-----------------------------------------------------------------------------
(* The steps of orch *)

\* A step of orch, a crash or the passing of time preserves the typing, and
\* never takes away the command syncd is working on.
LEMMA OrchTyped ==
  ASSUME TypeInv, UNCHANGED planeVars,
         \/ OrchStep \/ Restart \/ BackoffElapses
         \/ \E s \in {"config", "result"} : IdleTimeElapses(s)
  PROVE  OrchInv' /\ PlaneTypeOK' /\ SyncdPhaseOK'
<1>1. OrchInv
  BY Zenon DEF TypeInv, TypeOK, OrchInv
<1>2. OrchInv' /\ (commands # <<>> => commands' # <<>>)
  BY <1>1, ConfigTyped, ResultTyped, TimeoutTyped, RetryTyped, ProcessTyped,
     Zenon
     DEF OrchStep, ExitOnError
<1>3. PlaneTypeOK'
  BY Zenon DEF TypeInv, TypeOK, PlaneTypeOK, planeVars, hwsimVars, syncdVars
<1>4. SyncdPhaseOK'
  BY Zenon, <1>2 DEF TypeInv, SyncdPhaseOK, planeVars, syncdVars
<1>5. QED
  BY Zenon, <1>2, <1>3, <1>4

-----------------------------------------------------------------------------
(* The device side and the composition *)

\* A step of syncd, a device fault or a device restart preserves the typing.
LEMMA PlaneTyped ==
  ASSUME TypeInv,
         \/ SyncdStep \/ HwsimRestart
         \/ \E out \in Outcome : ApplyFaults(out)
         \/ \E out \in Outcome, applied \in BOOLEAN : ApplyUnconfirmed(out, applied)
  PROVE  OrchInv' /\ PlaneTypeOK' /\ SyncdPhaseOK'
<1>a. OrchTypeOK /\ PlaneTypeOK /\ PhaseOK /\ SyncdPhaseOK
  BY Zenon DEF TypeInv, TypeOK
<1>b. commands # <<>> => /\ command \in Command /\ Tail(commands) \in Seq(Command)
                         /\ command.id \in CommandId /\ command.batch \in Batch
  <2>1. commands # <<>> => command \in Command /\ Tail(commands) \in Seq(Command)
    BY Zenon, <1>a, HeadTail DEF command, OrchTypeOK, StreamsOK
  <2>2. QED
    BY Zenon, <2>1 DEF Command
\* A step that touches nothing of orch's but the command stream.
<1>c. ASSUME UNCHANGED <<configEvents, results, retries, applVars, deviceVars,
                         alarmVars, procVars>>,
             commands' \in Seq(Command)
      PROVE  OrchInv'
  <2>1. StreamsOK'
    BY Zenon, <1>a, <1>c DEF OrchTypeOK, StreamsOK
  <2>2. PhaseOK'
    BY Zenon, <1>a, <1>c DEF PhaseOK, ConfigPhaseOK, ResultPhaseOK, RetryPhaseOK,
       applVars, deviceVars, alarmVars, procVars, event, result, TimeoutDecided
  <2>3. QED
    BY Zenon, <1>a, <1>c, <2>1, <2>2, OrchFrame DEF OrchInv, OrchTypeOK
<1>d. ASSUME NEW applied \in BOOLEAN, NEW out \in Outcome,
             StoreResult(command.batch, applied, out),
             faults' \in Nat
      PROVE  OrchInv' /\ PlaneTypeOK' /\ SyncdPhaseOK'
  <2>1. commands # <<>>
    BY Zenon, <1>d DEF StoreResult, CommandClaimed
  <2>2. actual' \in [Conns -> Nat] /\ lastVer' \in [Conns -> Nat]
    <3>1. CASE applied
      <4>1. /\ actual' = Applied(command.batch)
            /\ lastVer' = [c \in Conns |-> IF c \in Members(command.batch)
                                           THEN command.batch[c].ver
                                           ELSE lastVer[c]]
        BY Zenon, <1>d, <3>1 DEF StoreResult
      <4>2. /\ \A c \in Conns : command.batch[c].ver \in Nat
            /\ actual \in [Conns -> Nat] /\ lastVer \in [Conns -> Nat]
        BY Zenon, <1>a, <1>b, <2>1 DEF Batch, PlaneTypeOK
      <4>3. QED
        BY Zenon, <4>1, <4>2 DEF Applied
    <3>2. CASE ~applied
      BY Zenon, <1>a, <1>d, <3>2 DEF StoreResult, PlaneTypeOK
    <3>3. QED
      BY Zenon, <3>1, <3>2
  <2>3. PlaneTypeOK'
    BY Zenon, <1>a, <1>d, <2>2 DEF StoreResult, PlaneTypeOK, Members
  <2>4. UNCHANGED <<streams, applVars, deviceVars, alarmVars, procVars>>
    BY Zenon, <1>d DEF StoreResult
  <2>5. OrchInv' /\ commands' = commands
    BY Zenon, <1>a, <1>c, <2>4 DEF streams, OrchTypeOK, StreamsOK
  <2>6. QED
    BY Zenon, <2>1, <2>3, <2>5 DEF SyncdPhaseOK
<1>1. CASE SyncdSkip
  <2>1. commands # <<>>
    BY Zenon, <1>1 DEF SyncdSkip, CommandClaimed
  <2>2. PlaneTypeOK'
    BY Zenon, <1>a, <1>b, <1>1, <2>1 DEF SyncdSkip, PlaneTypeOK, hwsimVars
  <2>3. OrchInv'
    BY Zenon, <1>b, <1>c, <1>1, <2>1 DEF SyncdSkip
  <2>4. QED
    BY Zenon, <1>1, <2>2, <2>3 DEF SyncdSkip, CommandClaimed, SyncdPhaseOK
<1>2. CASE ApplySucceeds
  BY <1>a, <1>d, <1>2, Zenon DEF ApplySucceeds, Outcome, PlaneTypeOK
<1>3. CASE ApplyRefused
  <2> DEFINE out == IF Confirms(actual, command.batch) THEN "ok" ELSE "fail"
  <2>1. out \in Outcome
    BY Zenon DEF Outcome
  <2>2. StoreResult(command.batch, FALSE, out) /\ faults' \in Nat
    BY <1>a, <1>3, Zenon DEF ApplyRefused, PlaneTypeOK
  <2> HIDE DEF out
  <2>3. QED
    BY <1>d, <2>1, <2>2, Zenon
<1>4. ASSUME NEW c \in Conns, PublishResult(c)
      PROVE  OrchInv' /\ PlaneTypeOK' /\ SyncdPhaseOK'
  <2> DEFINE r == [conn |-> c, ver |-> command.batch[c].ver, id |-> command.id,
                   out |-> outcome, batch |-> command.batch]
  <2>1. commands # <<>>
    BY Zenon, <1>a, <1>4 DEF PublishResult, SyncdPhaseOK
  <2>2. r \in Result
    BY Zenon, <1>a, <1>b, <2>1 DEF Result, Batch, PlaneTypeOK
  <2>3. /\ results' = Append(results, r) /\ left' = left \ {c}
        /\ UNCHANGED <<configEvents, commands, retries, applVars, deviceVars,
                       alarmVars, procVars, hwsimVars, seenGen, cachedGen, lastOk,
                       processed, spc, outcome, plan, faults>>
    BY Zenon, <1>4 DEF PublishResult
  <2> HIDE DEF r
  <2>4. /\ results' \in Seq(Result) /\ results' # <<>>
        /\ results # <<>> => result' = result
    BY Zenon, <1>a, <2>2, <2>3, AppendKeepsHead DEF OrchTypeOK, StreamsOK, result
  <2>5. StreamsOK'
    BY Zenon, <1>a, <2>3, <2>4 DEF OrchTypeOK, StreamsOK
  <2>6. PlaneTypeOK'
    BY Zenon, <1>a, <2>3 DEF PlaneTypeOK, hwsimVars
  <2>7. PhaseOK'
    BY Zenon, <1>a, <2>3, <2>4 DEF PhaseOK, ConfigPhaseOK, ResultPhaseOK, RetryPhaseOK,
       ResultPhase, TimeoutPhase, applVars, deviceVars, alarmVars, procVars,
       event, TimeoutDecided
  <2>8. OrchInv'
    BY Zenon, <1>a, <2>3, <2>5, <2>7, OrchFrame DEF OrchInv, OrchTypeOK
  <2>9. QED
    BY Zenon, <2>1, <2>3, <2>6, <2>8 DEF SyncdPhaseOK
<1>5. CASE FinishCommand
  <2>1. commands # <<>>
    BY Zenon, <1>a, <1>5 DEF FinishCommand, SyncdPhaseOK
  <2>2. lastOk' \in [Conns -> [gen : Nat, ver : Nat]]
    BY Zenon, <1>a, <1>b, <1>5, <2>1 DEF FinishCommand, PlaneTypeOK, Batch
  <2>3. PlaneTypeOK'
    BY Zenon, <1>a, <1>b, <1>5, <2>1, <2>2
       DEF FinishCommand, PlaneTypeOK, hwsimVars
  <2>4. OrchInv'
    BY Zenon, <1>b, <1>c, <1>5, <2>1 DEF FinishCommand
  <2>5. QED
    BY Zenon, <1>5, <2>3, <2>4 DEF FinishCommand, SyncdPhaseOK
<1>6. CASE PollGeneration
  <2>1. RecoveryBatch \in Batch
    BY Zenon, <1>a
       DEF RecoveryBatch, Batch, NotMember, OrchTypeOK, DeviceOK, PlaneTypeOK,
                App, Operation
  <2>2. PlaneTypeOK'
    BY Zenon, <1>a, <1>6, <2>1 DEF PollGeneration, PlaneTypeOK, hwsimVars
  <2>3. OrchInv'
    BY Zenon, <1>a, <1>c, <1>6 DEF PollGeneration, streams, OrchTypeOK, StreamsOK
  <2>4. QED
    BY Zenon, <1>6, <2>2, <2>3 DEF PollGeneration, SyncdPhaseOK
<1>7. CASE PublishRecovery
  <2> DEFINE k == [id |-> [src |-> "recovery", n |-> cachedGen, try |-> 0],
                   batch |-> plan]
  <2>1. k \in Command
    BY Zenon, <1>a DEF Command, CommandId, PlaneTypeOK
  <2>2. commands' = commands \/ commands' = Append(commands, k)
    BY Zenon, <1>7 DEF PublishRecovery
  <2> HIDE DEF k
  <2>3. commands' \in Seq(Command)
    BY <1>a, <2>1, <2>2, AppendKeepsHead, Zenon DEF OrchTypeOK, StreamsOK
  <2>4. PlaneTypeOK'
    BY Zenon, <1>a, <1>7, NoBatchType DEF PublishRecovery, PlaneTypeOK, hwsimVars
  <2>5. OrchInv'
    BY Zenon, <1>c, <1>7, <2>3 DEF PublishRecovery
  <2>6. QED
    BY Zenon, <1>7, <2>4, <2>5 DEF PublishRecovery, SyncdPhaseOK
<1>8. CASE HwsimRestart
  <2>1. PlaneTypeOK'
    BY <1>a, <1>8 DEF HwsimRestart, PlaneTypeOK, syncdVars
  <2>2. OrchInv'
    BY Zenon, <1>a, <1>c, <1>8 DEF HwsimRestart, streams, OrchTypeOK, StreamsOK
  <2>3. QED
    BY Zenon, <1>a, <1>8, <2>1, <2>2 DEF HwsimRestart, streams, syncdVars, SyncdPhaseOK
<1>9. ASSUME NEW out \in Outcome, ApplyFaults(out)
      PROVE  OrchInv' /\ PlaneTypeOK' /\ SyncdPhaseOK'
  <2> DEFINE o == IF Confirms(actual, command.batch) THEN "ok" ELSE out
  <2>1. o \in Outcome
    BY Zenon, <1>9 DEF Outcome
  <2>2. StoreResult(command.batch, FALSE, o)
    BY <1>9, Zenon DEF ApplyFaults
  <2>3. faults' \in Nat
    BY <1>a, <1>9 DEF ApplyFaults, PlaneTypeOK
  <2> HIDE DEF o
  <2>4. QED
    BY <1>d, <2>1, <2>2, <2>3, Zenon
<1>10. ASSUME NEW out \in Outcome, NEW applied \in BOOLEAN,
              ApplyUnconfirmed(out, applied)
       PROVE  OrchInv' /\ PlaneTypeOK' /\ SyncdPhaseOK'
  BY <1>a, <1>d, <1>10 DEF ApplyUnconfirmed, PlaneTypeOK
<1>11. QED
  BY <1>1, <1>2, <1>3, <1>4, <1>5, <1>6, <1>7, <1>8, <1>9, <1>10, Zenon
     DEF SyncdStep

\* A committed Set preserves the typing.
LEMMA SetTyped ==
  ASSUME TypeInv, NEW ops \in SetOps, CommitSet(ops)
  PROVE  OrchInv' /\ PlaneTypeOK' /\ SyncdPhaseOK'
<1> DEFINE e == [ver |-> revision + 1, ops |-> ops]
<1>a. OrchTypeOK /\ PlaneTypeOK /\ PhaseOK /\ SyncdPhaseOK
  BY Zenon DEF TypeInv, TypeOK
<1>1. e \in ConfigEvent
  BY DEF SetOps, ConfigEvent, TypeInv, TypeOK
<1>2. /\ configEvents' = Append(configEvents, e)
      /\ UNCHANGED <<commands, results, retries, applVars, deviceVars, alarmVars,
                     procVars, planeVars>>
  BY Zenon DEF CommitSet
<1> HIDE DEF e
<1>3. /\ configEvents' \in Seq(ConfigEvent) /\ configEvents' # <<>>
      /\ configEvents # <<>> => event' = event
  BY Zenon, <1>a, <1>1, <1>2, AppendKeepsHead DEF OrchTypeOK, StreamsOK, event
<1>4. StreamsOK'
  BY Zenon, <1>a, <1>2, <1>3 DEF OrchTypeOK, StreamsOK
<1>5. PhaseOK'
  BY Zenon, <1>a, <1>2, <1>3 DEF PhaseOK, ConfigPhaseOK, ResultPhaseOK, RetryPhaseOK,
     applVars, deviceVars, alarmVars, procVars, result, TimeoutDecided
<1>6. PlaneTypeOK'
  BY Zenon, <1>a, <1>2 DEF PlaneTypeOK, planeVars, hwsimVars, syncdVars
<1>7. OrchInv'
  BY Zenon, <1>a, <1>2, <1>4, <1>5, OrchFrame DEF OrchInv, OrchTypeOK
<1>8. QED
  BY Zenon, <1>a, <1>2, <1>6, <1>7 DEF SyncdPhaseOK, planeVars, syncdVars

\* The databases are empty at the start.
LEMMA InitTypeInv == Init => TypeInv
<1> SUFFICES ASSUME Init PROVE TypeInv
  BY Zenon
<1>1. OrchTypeOK
  <2>1. /\ Keyed(NoKeys, Nat, Batch) /\ Keyed(NoKeys, CommandId, Decision)
        /\ Keyed(NoKeys, CommandId \X Conns, Raise)
        /\ Keyed(NoKeys, CommandId \X Conns, CommandId)
    BY Zenon DEF Keyed, NoKeys
  <2>2. /\ Keyed(prepared, Nat, Batch)
        /\ Keyed(applTimeout, CommandId, Decision)
        /\ Keyed(deviceTimeout, CommandId, Decision)
        /\ Keyed(raiseMarks, CommandId \X Conns, Raise)
        /\ Keyed(clearMarks, CommandId \X Conns, CommandId)
    BY <2>1, Zenon DEF Init, OrchInit
  <2>3. StreamsOK
    BY DEF Init, OrchInit, StreamsOK
  <2>4. ApplOK /\ DeviceOK
    BY Zenon, <2>2, NoAppType DEF Init, OrchInit, ApplOK, DeviceOK
  <2>5. AlarmOK
    BY <2>2 DEF Init, OrchInit, AlarmOK
  <2>6. ProcOK
    BY Zenon DEF Init, OrchInit, ProcOK, Phase
  <2>7. QED
    BY Zenon, <2>3, <2>4, <2>5, <2>6 DEF OrchTypeOK
<1>2. PlaneTypeOK
  BY Zenon, NoBatchType DEF Init, DevicePlaneInit, PlaneTypeOK, Outcome
<1>3. PhaseOK
  BY Zenon DEF Init, OrchInit, PhaseOK, ConfigPhaseOK, ResultPhaseOK, RetryPhaseOK,
         ConfigPhase, ResultPhase, RetryPhase, TimeoutPhase
<1>4. SyncdPhaseOK
  BY Zenon DEF Init, DevicePlaneInit, SyncdPhaseOK
<1>5. QED
  BY Zenon, <1>1, <1>2, <1>3, <1>4 DEF TypeInv, TypeOK, Init

\* TypeInv is inductive.
LEMMA NextTyped == TypeInv /\ [Next]_vars => TypeInv'
<1> SUFFICES ASSUME TypeInv, [Next]_vars PROVE TypeInv'
  BY Zenon
<1>a. revision \in Nat /\ configured \subseteq Conns /\ crashes \in Nat
  BY Zenon DEF TypeInv, TypeOK
<1>b. ASSUME OrchInv', PlaneTypeOK', SyncdPhaseOK',
             revision' \in Nat /\ configured' \subseteq Conns /\ crashes' \in Nat
      PROVE  TypeInv'
  BY Zenon, <1>b DEF OrchInv, TypeInv, TypeOK
<1>1. ASSUME NEW ops \in SetOps, CommitSet(ops) PROVE TypeInv'
  <2>1. revision' \in Nat /\ configured' \subseteq Conns /\ crashes' \in Nat
    BY <1>a, <1>1 DEF CommitSet
  <2>2. QED
    BY Zenon, <1>b, <1>1, <2>1, SetTyped
<1>2. CASE OrchRuns
  BY Zenon, <1>a, <1>b, <1>2, OrchTyped DEF OrchRuns
<1>3. CASE OrchCrash
  BY <1>a, <1>b, <1>3, OrchTyped DEF OrchCrash, Crash
<1>4. ASSUME NEW s \in {"config", "result"}, IdleTime(s) PROVE TypeInv'
  BY Zenon, <1>a, <1>b, <1>4, OrchTyped DEF IdleTime
<1>5. CASE Backoff
  BY Zenon, <1>a, <1>b, <1>5, OrchTyped DEF Backoff
<1>6. CASE SyncdRuns
  BY Zenon, <1>a, <1>b, <1>6, PlaneTyped DEF SyncdRuns
<1>7. CASE DeviceFault
  BY Zenon, <1>a, <1>b, <1>7, PlaneTyped DEF DeviceFault, Outcome
<1>8. CASE DeviceRestart
  BY Zenon, <1>a, <1>b, <1>8, PlaneTyped DEF DeviceRestart
<1>9. CASE UNCHANGED vars
  <2>1. /\ UNCHANGED <<streams, applVars, deviceVars, alarmVars, procVars>>
        /\ UNCHANGED planeVars /\ UNCHANGED <<revision, configured, crashes>>
    BY Zenon, <1>9 DEF vars, orchVars
  <2>2. OrchInv
    BY Zenon DEF TypeInv, TypeOK, OrchInv
  <2>3. PhaseOK'
    BY Zenon, <2>1, <2>2
       DEF OrchInv, streams, applVars, deviceVars, alarmVars, procVars,
       PhaseOK, ConfigPhaseOK, ResultPhaseOK, RetryPhaseOK, event, result,
       TimeoutDecided
  <2>4. OrchInv'
    BY Zenon, <2>1, <2>2, <2>3, OrchFrame DEF OrchInv, OrchTypeOK
  <2>5. PlaneTypeOK'
    BY Zenon, <2>1 DEF TypeInv, TypeOK, planeVars, hwsimVars, syncdVars, PlaneTypeOK
  <2>6. SyncdPhaseOK'
    BY Zenon, <2>1 DEF TypeInv, SyncdPhaseOK, planeVars, syncdVars, streams
  <2>7. QED
    BY Zenon, <1>a, <1>b, <2>1, <2>4, <2>5, <2>6
<1>10. QED
  BY Zenon, <1>1, <1>2, <1>3, <1>4, <1>5, <1>6, <1>7, <1>8, <1>9 DEF Next

\* Type correctness with the facts about the entry in progress, for later
\* proofs.
THEOREM TypeInvariant == Spec => []TypeInv
  BY InitTypeInv, NextTyped, PTL DEF Spec

\* Type correctness: in every reachable state, for any set of connections and
\* any bounds, orch's streams, snapshots and markers hold well-formed entries
\* and only apply_status values that connectionApplyStatusFromString decodes.
THEOREM TypeCorrect == Spec => []TypeOK
<1>1. TypeInv => TypeOK
  BY Zenon DEF TypeInv
<1>2. QED
  BY <1>1, TypeInvariant, PTL

-----------------------------------------------------------------------------
\* The matrix and the recovery being planned are at versions of APPL_DB.
MatrixOrder ==
  /\ \A c \in Conns : actual[c] <= appl[c].ver
  /\ \A c \in Conns : plan[c].ver <= appl[c].ver

OrderInv == OrchOrderInv /\ MatrixOrder

\* A step of orch, a crash or the passing of time keeps the order.
LEMMA OrchKeepsOrder ==
  ASSUME TypeInv, TypeInv', OrderInv, UNCHANGED planeVars,
         \/ OrchStep \/ Restart \/ BackoffElapses
         \/ \E s \in {"config", "result"} : IdleTimeElapses(s)
  PROVE  OrderInv'
<1>1. OrchInv /\ OrchInv' /\ OrchOrderInv
  BY Zenon DEF TypeInv, TypeOK, OrchInv, OrderInv
<1>2. OrchOrderInv' /\ ApplGrows
  BY <1>1, ConfigOrder, ResultOrder, TimeoutOrder, RetryOrder, ProcessOrder,
     Zenon
     DEF OrchStep, ExitOnError
<1>3. \A c \in Conns : /\ actual[c] \in Nat /\ plan[c].ver \in Nat
                       /\ appl[c].ver \in Nat /\ appl'[c].ver \in Nat
  BY Zenon DEF TypeInv, TypeOK, OrchTypeOK, ApplOK, App, PlaneTypeOK, Batch
<1>4. MatrixOrder'
  BY <1>2, <1>3
     DEF OrderInv, MatrixOrder, ApplGrows, planeVars, hwsimVars, syncdVars
<1>5. QED
  BY Zenon, <1>2, <1>4 DEF OrderInv

\* syncd, the device and its faults only pass on what orch has sent.
LEMMA PlaneOrder ==
  ASSUME TypeInv, TypeInv', OrderInv,
         \/ SyncdStep \/ HwsimRestart
         \/ \E out \in Outcome : ApplyFaults(out)
         \/ \E out \in Outcome, applied \in BOOLEAN : ApplyUnconfirmed(out, applied)
  PROVE  OrderInv'
<1>a. TypeOK /\ OrchTypeOK /\ PlaneTypeOK /\ SyncdPhaseOK
  BY Zenon DEF TypeInv, TypeOK
<1>b. /\ OrchOrderInv /\ StreamOrder /\ DeviceOrder /\ PhaseOrder
      /\ \A c \in Conns : appl[c].ver \in Nat
  BY Zenon, <1>a DEF OrderInv, OrchOrderInv, OrchTypeOK, ApplOK, App
<1>c. commands # <<>> =>
        /\ command \in Command /\ Known(command.batch)
        /\ command.batch \in Batch /\ command.id \in CommandId
        /\ Tail(commands) \in Seq(KnownCommands)
  <2>1. commands # <<>> =>
          command \in KnownCommands /\ Tail(commands) \in Seq(KnownCommands)
    BY Zenon, <1>b, HeadTail DEF command, StreamOrder
  <2>2. QED
    BY Zenon, <2>1 DEF KnownCommands, Command
\* A step that leaves orch's state alone.
<1>d. ASSUME UNCHANGED <<configEvents, retries, applVars, deviceVars, procVars>>,
             commands' \in Seq(KnownCommands), results' \in Seq(KnownResults),
             \A c \in Conns : actual'[c] <= appl[c].ver,
             \A c \in Conns : plan'[c].ver <= appl[c].ver
      PROVE  OrderInv'
  <2>1. UNCHANGED <<appl, applMarks, prepared, device, pc>> /\ event' = event
    BY Zenon, <1>d DEF applVars, deviceVars, procVars, event
  <2>2. PhaseOrder'
    BY Zenon, <1>b, <2>1 DEF PhaseOrder
  <2>3. OrchOrderInv'
    BY Zenon, <1>a, <1>b, <1>d, <2>1, <2>2, OrderQuiet DEF StreamOrder
  <2>4. QED
    BY Zenon, <1>d, <2>1, <2>3 DEF OrderInv, MatrixOrder
<1>e. /\ \A c \in Conns : actual[c] <= appl[c].ver
      /\ \A c \in Conns : plan[c].ver <= appl[c].ver
  BY Zenon DEF OrderInv, MatrixOrder
<1>f. ASSUME NEW applied, NEW out, StoreResult(command.batch, applied, out)
      PROVE  OrderInv'
  <2>1. /\ commands # <<>>
        /\ UNCHANGED <<streams, applVars, deviceVars, procVars, plan>>
        /\ actual' = Applied(command.batch) \/ UNCHANGED actual
    BY Zenon, <1>f DEF StoreResult, CommandClaimed
  <2>2. \A c \in Conns : actual'[c] <= appl[c].ver
    BY <1>b, <1>c, <1>e, <2>1 DEF Applied, Known
  <2>3. commands' \in Seq(KnownCommands) /\ results' \in Seq(KnownResults)
    BY Zenon, <1>b, <2>1 DEF streams, StreamOrder
  <2>4. QED
    BY Zenon, <1>d, <1>e, <2>1, <2>2, <2>3 DEF streams
<1>1. CASE SyncdSkip \/ FinishCommand
  <2>1. /\ commands # <<>> /\ commands' = Tail(commands)
        /\ UNCHANGED <<configEvents, retries, results, applVars, deviceVars, procVars,
                       hwsimVars, plan>>
    BY Zenon, <1>a, <1>1 DEF SyncdSkip, FinishCommand, CommandClaimed, SyncdPhaseOK
  <2>2. QED
    BY Zenon, <1>b, <1>c, <1>d, <1>e, <2>1 DEF hwsimVars, StreamOrder
<1>2. CASE ApplySucceeds \/ ApplyRefused
  BY <1>f, <1>2, Zenon DEF ApplySucceeds, ApplyRefused
<1>3. ASSUME NEW c \in Conns, PublishResult(c)
      PROVE  OrderInv'
  <2> DEFINE r == [conn |-> c, ver |-> command.batch[c].ver, id |-> command.id,
                   out |-> outcome, batch |-> command.batch]
  <2>1. /\ commands # <<>> /\ results' = Append(results, r)
        /\ UNCHANGED <<configEvents, commands, retries, applVars, deviceVars,
                       procVars, hwsimVars, plan>>
    BY Zenon, <1>a, <1>3 DEF PublishResult, SyncdPhaseOK
  <2>2. r \in KnownResults
    <3>1. /\ outcome \in Outcome /\ command.batch[c].ver \in Nat
          /\ command.batch[c].ver <= appl[c].ver
      BY Zenon, <1>a, <1>c, <2>1 DEF PlaneTypeOK, Batch, Known
    <3>2. QED
      BY Zenon, <1>c, <2>1, <3>1 DEF KnownResults, Result
  <2> HIDE DEF r
  <2>3. results' \in Seq(KnownResults)
    BY <1>b, <2>1, <2>2, AppendKeepsHead, Zenon DEF StreamOrder
  <2>4. QED
    BY Zenon, <1>b, <1>d, <1>e, <2>1, <2>3 DEF hwsimVars, StreamOrder
<1>4. CASE PollGeneration
  <2>1. /\ plan' = RecoveryBatch
        /\ UNCHANGED <<streams, applVars, deviceVars, procVars, hwsimVars>>
    BY Zenon, <1>4 DEF PollGeneration
  <2>2. \A c \in Conns : RecoveryBatch[c].ver <= appl[c].ver
    BY <1>b, <1>e DEF RecoveryBatch, NotMember, DeviceOrder
  <2>3. QED
    BY Zenon, <1>b, <1>d, <1>e, <2>1, <2>2 DEF streams, hwsimVars, StreamOrder
<1>5. CASE PublishRecovery
  <2> DEFINE k == [id |-> [src |-> "recovery", n |-> cachedGen, try |-> 0],
                   batch |-> plan]
  <2>1. /\ commands' = commands \/ commands' = Append(commands, k)
        /\ plan' = NoBatch
        /\ UNCHANGED <<configEvents, results, retries, applVars, deviceVars,
                       procVars, hwsimVars>>
    BY Zenon, <1>5 DEF PublishRecovery
  <2>2. k \in KnownCommands
    BY Zenon, <1>a, <1>e DEF KnownCommands, Known, Command, CommandId, PlaneTypeOK
  <2> HIDE DEF k
  <2>3. commands' \in Seq(KnownCommands)
    BY <1>b, <2>1, <2>2, AppendKeepsHead, Zenon DEF StreamOrder
  <2>4. \A c \in Conns : plan'[c].ver <= appl[c].ver
    BY <1>b, <2>1 DEF NoBatch, NotMember
  <2>5. QED
    BY Zenon, <1>b, <1>d, <1>e, <2>1, <2>3, <2>4 DEF hwsimVars, StreamOrder
<1>6. CASE HwsimRestart
  <2>1. /\ actual' = [c \in Conns |-> 0]
        /\ UNCHANGED <<streams, applVars, deviceVars, procVars, plan>>
    BY Zenon, <1>6 DEF HwsimRestart, syncdVars
  <2>2. QED
    BY <1>b, <1>d, <1>e, <2>1 DEF streams, StreamOrder
<1>7. ASSUME NEW out, NEW applied, ApplyFaults(out) \/ ApplyUnconfirmed(out, applied)
      PROVE  OrderInv'
  BY <1>f, <1>7, Zenon DEF ApplyFaults, ApplyUnconfirmed
<1>8. QED
  BY <1>1, <1>2, <1>3, <1>4, <1>5, <1>6, <1>7, Zenon DEF SyncdStep

\* A committed Set reaches no other database.
LEMMA SetOrder ==
  ASSUME TypeInv, OrderInv, NEW ops \in SetOps, CommitSet(ops)
  PROVE  OrderInv'
<1> DEFINE e == [ver |-> revision + 1, ops |-> ops]
<1>a. OrchTypeOK /\ PhaseOK /\ OrchOrderInv /\ StreamOrder /\ PhaseOrder
  BY Zenon DEF TypeInv, TypeOK, OrderInv, OrchOrderInv
<1>1. e \in ConfigEvent
  BY DEF SetOps, ConfigEvent, TypeInv, TypeOK
<1>2. /\ configEvents' = Append(configEvents, e)
      /\ UNCHANGED <<commands, results, retries, appl, applMarks, prepared,
                     device, actual, plan, pc>>
  BY Zenon
     DEF CommitSet, applVars, deviceVars, procVars, planeVars, hwsimVars, syncdVars
<1> HIDE DEF e
<1>3. configEvents # <<>> => event' = event
  BY Zenon, <1>a, <1>1, <1>2, AppendKeepsHead DEF OrchTypeOK, StreamsOK, event
<1>4. PhaseOrder'
  BY Zenon, <1>a, <1>2, <1>3
     DEF PhaseOrder, StagedPhase, PhaseOK, ConfigPhaseOK, ConfigPhase
<1>5. OrchOrderInv'
  BY Zenon, <1>a, <1>2, <1>4, OrderQuiet DEF StreamOrder
<1>6. QED
  BY Zenon, <1>2, <1>5 DEF OrderInv, MatrixOrder

\* Nothing is known, and nothing needs to be, in the empty databases.
LEMMA InitOrder == Init => OrderInv
<1> SUFFICES ASSUME Init PROVE OrderInv
  BY Zenon
<1>1. StreamOrder
  BY DEF Init, OrchInit, StreamOrder
<1>2. DeviceOrder /\ MatrixOrder
  BY
     DEF Init, OrchInit, DevicePlaneInit, DeviceOrder, MatrixOrder, NoApp, NoBatch,
         NotMember
<1>3. PreparedOrder
  BY Zenon DEF Init, OrchInit, PreparedOrder, NoKeys
<1>4. PhaseOrder
  BY Zenon DEF Init, OrchInit, PhaseOrder, StagedPhase
<1>5. QED
  BY Zenon, <1>1, <1>2, <1>3, <1>4 DEF OrderInv, OrchOrderInv

\* OrderInv is inductive.
LEMMA NextOrder == TypeInv /\ TypeInv' /\ OrderInv /\ [Next]_vars => OrderInv'
<1> SUFFICES ASSUME TypeInv, TypeInv', OrderInv, [Next]_vars PROVE OrderInv'
  BY Zenon
<1>1. ASSUME NEW ops \in SetOps, CommitSet(ops) PROVE OrderInv'
  BY Zenon, <1>1, SetOrder
<1>2. CASE OrchRuns
  BY Zenon, <1>2, OrchKeepsOrder DEF OrchRuns
<1>3. CASE OrchCrash
  BY Zenon, <1>3, OrchKeepsOrder DEF OrchCrash, Crash
<1>4. ASSUME NEW s \in {"config", "result"}, IdleTime(s) PROVE OrderInv'
  BY Zenon, <1>4, OrchKeepsOrder DEF IdleTime
<1>5. CASE Backoff
  BY Zenon, <1>5, OrchKeepsOrder DEF Backoff
<1>6. CASE SyncdRuns \/ DeviceRestart
  BY Zenon, <1>6, PlaneOrder DEF SyncdRuns, DeviceRestart
<1>7. CASE DeviceFault
  BY Zenon, <1>7, PlaneOrder DEF DeviceFault, Outcome
<1>8. CASE UNCHANGED vars
  <2>1. UNCHANGED <<configEvents, commands, results, retries, appl, applMarks,
                    prepared, device, actual, plan, pc>>
    BY Zenon, <1>8
       DEF vars, orchVars, streams, applVars, deviceVars, procVars, planeVars,
       hwsimVars, syncdVars
  <2>2. OrchTypeOK /\ OrchOrderInv /\ StreamOrder /\ PhaseOrder'
    BY Zenon, <2>1 DEF TypeInv, TypeOK, OrderInv, OrchOrderInv, PhaseOrder, event
  <2>3. OrchOrderInv'
    BY Zenon, <2>1, <2>2, OrderQuiet DEF StreamOrder
  <2>4. QED
    BY Zenon, <2>1, <2>3 DEF OrderInv, MatrixOrder
<1>9. QED
  BY Zenon, <1>1, <1>2, <1>3, <1>4, <1>5, <1>6, <1>7, <1>8 DEF Next

\* The order with its strengthening, for later proofs.
THEOREM OrderInvariant == Spec => []OrderInv
  BY InitOrder, NextOrder, TypeInvariant, PTL DEF Spec

\* In every reachable state, for any connections, batches, crashes, faults and
\* restarts, no DEVICE_DB snapshot, command, result, retry or matrix entry is
\* newer than APPL_DB: processResultOne never meets a result from the future.
THEOREM NothingNewerThanAppl == Spec => []NothingNewer
<1>1. OrderInv => NothingNewer
  <2> SUFFICES ASSUME OrderInv PROVE NothingNewer
    BY Zenon
  <2>1. /\ \A i \in 1..Len(commands) : commands[i] \in KnownCommands
        /\ \A i \in 1..Len(results) : results[i] \in KnownResults
        /\ \A i \in 1..Len(retries) : retries[i] \in KnownRetries
    BY DEF OrderInv, OrchOrderInv, StreamOrder
  <2>2. \A c \in Conns : device[c].ver <= appl[c].ver /\ actual[c] <= appl[c].ver
    BY Zenon DEF OrderInv, OrchOrderInv, DeviceOrder, MatrixOrder
  <2>3. QED
    BY Zenon, <2>1, <2>2
       DEF NothingNewer, KnownCommands, KnownResults, KnownRetries, Known
<1>2. QED
  BY <1>1, OrderInvariant, PTL

-----------------------------------------------------------------------------
(* The matrix *)

\* The version fence of the device, which a REMOVE raises too, covers the
\* matrix.
FenceInv == \A c \in Conns : actual[c] <= lastVer[c]

NeverBack ==
  gen' = gen => \A c \in Conns : actual'[c] = 0 \/ actual'[c] >= actual[c]

\* Steps that do not touch the device.
LEMMA FenceFrame ==
  ASSUME TypeInv, FenceInv, UNCHANGED <<actual, lastVer>>
  PROVE  FenceInv' /\ NeverBack
<1>1. \A c \in Conns : actual[c] \in Nat
  BY Zenon DEF TypeInv, TypeOK, PlaneTypeOK
<1>2. QED
  BY <1>1 DEF FenceInv, NeverBack

\* Executing an accepted batch: applyConnections replaces an entry by one at
\* or above its fence, or removes it, and moves the fence to the batch.
LEMMA ApplyFence ==
  ASSUME TypeInv, FenceInv, NEW applied \in BOOLEAN, NEW out,
         applied => Accepts(command.batch),
         StoreResult(command.batch, applied, out)
  PROVE  FenceInv' /\ NeverBack
<1>1. CASE ~applied
  BY Zenon, <1>1, FenceFrame DEF StoreResult
<1>2. CASE applied
  <2> DEFINE b == command.batch
  <2>1. commands # <<>>
    BY Zenon DEF StoreResult, CommandClaimed
  <2>2. b \in Batch
    <3>1. command \in Command
      BY Zenon, <2>1, HeadTail DEF command, TypeInv, TypeOK, OrchTypeOK, StreamsOK
    <3>2. QED
      BY Zenon, <3>1 DEF Command
  <2>3. /\ actual' = Applied(b)
        /\ lastVer' = [c \in Conns |-> IF c \in Members(b) THEN b[c].ver ELSE lastVer[c]]
        /\ \A c \in Members(b) : lastVer[c] <= b[c].ver
    BY Zenon, <1>2 DEF StoreResult, Accepts
  <2> HIDE DEF b
  <2>4. \A c \in Conns : b[c].ver \in Nat /\ actual[c] \in Nat /\ lastVer[c] \in Nat
    BY Zenon, <2>2 DEF Batch, TypeInv, TypeOK, PlaneTypeOK
  <2>5. QED
    BY <2>3, <2>4 DEF FenceInv, NeverBack, Applied
<1>3. QED
  BY Zenon, <1>1, <1>2

\* FenceInv is inductive, and every step obeys it.
LEMMA NextFence == TypeInv /\ FenceInv /\ [Next]_vars => FenceInv' /\ NeverBack
<1> SUFFICES ASSUME TypeInv, FenceInv, [Next]_vars PROVE FenceInv' /\ NeverBack
  BY Zenon
<1>1. CASE \/ \E ops \in SetOps : CommitSet(ops)
           \/ OrchRuns \/ OrchCrash \/ Backoff \/ UNCHANGED vars
           \/ \E s \in {"config", "result"} : IdleTime(s)
  <2>1. UNCHANGED planeVars
    BY <1>1, Zenon DEF CommitSet, OrchRuns, OrchCrash, Backoff, IdleTime, vars
  <2>2. QED
    BY Zenon, <2>1, FenceFrame DEF planeVars, hwsimVars
<1>2. CASE SyncdRuns
  <2>1. CASE \/ SyncdSkip \/ FinishCommand \/ PollGeneration \/ PublishRecovery
             \/ \E c \in Conns : PublishResult(c)
    <3>1. UNCHANGED hwsimVars
      BY <2>1, Zenon
         DEF SyncdSkip, FinishCommand, PollGeneration, PublishRecovery,
         PublishResult
    <3>2. QED
      BY Zenon, <3>1, FenceFrame DEF hwsimVars
  <2>2. CASE ApplySucceeds
    BY <2>2, ApplyFence, Zenon DEF ApplySucceeds
  <2>3. CASE ApplyRefused
    BY <2>3, ApplyFence, Zenon DEF ApplyRefused
  <2>4. QED
    BY <1>2, <2>1, <2>2, <2>3, Zenon DEF SyncdRuns, SyncdStep
<1>3. CASE DeviceFault
  <2>1. ASSUME NEW out, ApplyFaults(out) PROVE FenceInv' /\ NeverBack
    BY <2>1, ApplyFence, Zenon DEF ApplyFaults
  <2>2. ASSUME NEW out, NEW applied \in BOOLEAN, ApplyUnconfirmed(out, applied)
        PROVE  FenceInv' /\ NeverBack
    BY <2>2, ApplyFence, Zenon DEF ApplyUnconfirmed
  <2>3. QED
    BY Zenon, <1>3, <2>1, <2>2 DEF DeviceFault
<1>4. CASE DeviceRestart
  <2>1. gen' = gen + 1 /\ gen \in Nat
    BY Zenon, <1>4
       DEF DeviceRestart, HwsimRestart, TypeInv, TypeOK, PlaneTypeOK
  <2>2. FenceInv'
    BY <1>4 DEF DeviceRestart, HwsimRestart, FenceInv
  <2>3. QED
    BY <2>1, <2>2 DEF NeverBack
<1>5. QED
  BY Zenon, <1>1, <1>2, <1>3, <1>4 DEF Next

\* Until the device restarts, no entry of the matrix is replaced by an older
\* version, however late a command or a retry arrives and whether or not its
\* reply is lost: the version check of applyConnections is enough.
THEOREM MatrixVersionsGrow == Spec => MatrixNeverBack
<1>1. Init => FenceInv
  BY DEF Init, DevicePlaneInit, FenceInv
<1>2. Spec => []FenceInv
  BY <1>1, NextFence, TypeInvariant, PTL DEF Spec
<1>3. TypeInv /\ FenceInv /\ [Next]_vars => [NeverBack]_vars
  BY Zenon, NextFence
<1>4. QED
  BY <1>2, <1>3, TypeInvariant, PTL DEF Spec, MatrixNeverBack, NeverBack

-----------------------------------------------------------------------------
\* A recovery command is numbered by a generation that STATE_DB has caught up
\* with, so that the next one has a new number.
OldRecovery(id) == IsRecovery(id) => id.n <= seenGen

RecoveryOrder ==
  /\ commands \in Seq({k \in Command : OldRecovery(k.id)})
  /\ \A id \in processed : OldRecovery(id)
  /\ seenGen <= cachedGen /\ cachedGen <= gen
  /\ spc = "recover" => seenGen < cachedGen

\* The results being published are those of the first command's members.
ResultsOfBatch == spc = "publish" => left \subseteq Members(command.batch)

\* Only a command whose marker is set has been processed.
ProcessedMarked == \A id \in processed : Marked(id)

\* No version is ahead of the revision of CONFIG_DB.
RevisionOrder ==
  /\ \A c \in Conns : appl[c].ver <= revision
  /\ \A i \in 1 .. Len(configEvents) : configEvents[i].ver <= revision

OnceInv ==
  /\ SentInv /\ RecoveryOrder /\ ResultsOfBatch /\ ProcessedMarked /\ RevisionOrder
  /\ NoDuplicateCommand

\* What PublishedIsCurrent says of a step.
PublishedCurrent ==
  \A k \in {commands'[i] : i \in Len(commands) + 1..Len(commands')} :
    IsRecovery(k.id) \/ \A c \in Members(k.batch) : Runs(c, k.id, k.batch[c].ver)

\* Appending a command with a new id.
LEMMA AppendOnce ==
  ASSUME TypeInv, NoDuplicateCommand, NEW k \in Command, commands' = Append(commands, k),
         UNCHANGED processed, k.id \notin processed,
         \A i \in 1 .. Len(commands) : commands[i].id # k.id
  PROVE  /\ NoDuplicateCommand'
         /\ \A i \in Len(commands) + 1 .. Len(commands') : commands'[i] = k
<1>1. commands \in Seq(Command)
  BY Zenon DEF TypeInv, TypeOK, OrchTypeOK, StreamsOK
<1>2. /\ Len(commands) \in Nat /\ Len(commands') = Len(commands) + 1
      /\ \A i \in 1 .. Len(commands) : commands'[i] = commands[i]
      /\ commands'[Len(commands) + 1] = k
  BY <1>1, AppendPlaces
<1>3. \A i \in 1 .. Len(commands') : i \in 1 .. Len(commands) \/ i = Len(commands) + 1
  BY <1>2
<1>4. NoDuplicateCommand'
  <2> SUFFICES ASSUME NEW i \in 1 .. Len(commands'), NEW j \in 1 .. Len(commands')
               PROVE  /\ commands'[i].id \notin processed
                      /\ commands'[i].id = commands'[j].id => i = j
    BY Zenon DEF NoDuplicateCommand
  <2>1. CASE i \in 1 .. Len(commands) /\ j \in 1 .. Len(commands)
    BY Zenon, <1>2, <2>1 DEF NoDuplicateCommand
  <2>2. CASE i = Len(commands) + 1 \/ j = Len(commands) + 1
    BY Zenon, <1>2, <1>3, <2>2 DEF NoDuplicateCommand
  <2> QED BY Zenon, <1>3, <2>1, <2>2
<1>5. \A i \in Len(commands) + 1 .. Len(commands') : i = Len(commands) + 1
  BY <1>2
<1>6. QED
  BY Zenon, <1>2, <1>4, <1>5

\* Acknowledging the first command when it is marked processed.
LEMMA TailOnce ==
  ASSUME TypeInv, NoDuplicateCommand, commands # <<>>, commands' = Tail(commands),
         processed' = processed \cup {command.id}
  PROVE  NoDuplicateCommand'
<1>1. commands \in Seq(Command)
  BY Zenon DEF TypeInv, TypeOK, OrchTypeOK, StreamsOK
<1>2. /\ Len(commands) \in Nat \ {0} /\ Len(commands') = Len(commands) - 1
      /\ command = commands[1]
      /\ \A i \in 1 .. Len(commands') : commands'[i] = commands[i + 1]
  BY <1>1 DEF command
<1>3. \A i \in 1 .. Len(commands') : i + 1 \in 1 .. Len(commands) /\ i + 1 # 1
  BY <1>2
<1>4. 1 \in 1 .. Len(commands)
  BY <1>2
<1> SUFFICES ASSUME NEW i \in 1 .. Len(commands'), NEW j \in 1 .. Len(commands')
             PROVE  /\ commands'[i].id \notin processed'
                    /\ commands'[i].id = commands'[j].id => i = j
  BY Zenon DEF NoDuplicateCommand
<1>5. commands'[i].id \notin processed'
  BY <1>2, <1>3, <1>4 DEF NoDuplicateCommand
<1>6. commands'[i].id = commands'[j].id => i + 1 = j + 1
  BY <1>2, <1>3 DEF NoDuplicateCommand
<1>7. QED
  BY <1>5, <1>6

\* A step of orch: it publishes commands that were not marked before.
LEMMA OrchOnce ==
  ASSUME TypeInv, TypeInv', OrderInv, OnceInv, UNCHANGED <<planeVars, revision>>,
         \/ OrchStep \/ Restart \/ BackoffElapses
         \/ \E s \in {"config", "result"} : IdleTimeElapses(s)
  PROVE  OnceInv' /\ PublishedCurrent
<1>a. /\ OrchInv /\ OrchInv' /\ OrchOrderInv /\ SentInv /\ NoDuplicateCommand
      /\ RecoveryOrder /\ ProcessedMarked /\ RevisionOrder
  BY Zenon DEF TypeInv, TypeOK, OrchInv, OrderInv, OnceInv
<1>1. SentInv' /\ SentStep
  BY Zenon, <1>a, OrchSends
<1>2. UNCHANGED <<seenGen, cachedGen, gen, processed, spc, left, revision>>
  BY Zenon DEF planeVars, hwsimVars, syncdVars
<1>3. ProcessedMarked'
  BY Zenon, <1>a, <1>1, <1>2, MarkedGrows DEF ProcessedMarked, SentStep
<1>4. RevisionOrder'
  <2>1. configEvents \in Seq(ConfigEvent) /\ configEvents' \in Seq(ConfigEvent)
    BY Zenon, <1>a DEF OrchInv, OrchTypeOK, StreamsOK
  <2>2. configEvents # <<>> => event.ver <= revision
    <3>1. configEvents # <<>> => 1 \in 1 .. Len(configEvents) /\ event = configEvents[1]
      BY <2>1 DEF event
    <3> QED BY Zenon, <1>a, <3>1 DEF RevisionOrder
  <2>3. \A c \in Conns : appl'[c].ver <= revision
    BY Zenon, <1>a, <1>1, <2>2 DEF SentStep, FollowsEvents, RevisionOrder
  <2>4. \A i \in 1 .. Len(configEvents') : configEvents'[i].ver <= revision
    <3>1. CASE configEvents' = configEvents
      BY Zenon, <1>a, <3>1 DEF RevisionOrder
    <3>2. CASE configEvents # <<>> /\ configEvents' = Tail(configEvents)
      <4>1. \A i \in 1 .. Len(configEvents') :
              i + 1 \in 1 .. Len(configEvents) /\ configEvents'[i] = configEvents[i + 1]
        BY <2>1, <3>2
      <4> QED BY Zenon, <1>a, <4>1 DEF RevisionOrder
    <3> QED BY Zenon, <1>1, <3>1, <3>2 DEF SentStep, FollowsEvents
  <2> QED BY Zenon, <1>2, <2>3, <2>4 DEF RevisionOrder
<1>5. CASE commands' = commands
  <2>1. RecoveryOrder' /\ ResultsOfBatch' /\ NoDuplicateCommand'
    <3>1. RecoveryOrder'
      BY Zenon, <1>a, <1>2, <1>5 DEF RecoveryOrder, OldRecovery
    <3>2. ResultsOfBatch'
      BY Zenon, <1>2, <1>5 DEF OnceInv, ResultsOfBatch, command, Members
    <3> QED BY Zenon, <1>a, <1>2, <1>5, <3>1, <3>2 DEF NoDuplicateCommand
  <2>2. PublishedCurrent
    <3>1. commands \in Seq(Command)
      BY Zenon, <1>a DEF OrchInv, OrchTypeOK, StreamsOK
    <3>2. Len(commands) + 1 .. Len(commands') = {}
      BY <1>5, <3>1
    <3> QED BY Zenon, <3>2 DEF PublishedCurrent
  <2> QED BY Zenon, <1>1, <1>3, <1>4, <2>1, <2>2 DEF OnceInv
<1>6. ASSUME NEW k \in Command, commands' = Append(commands, k),
             ~IsRecovery(k.id) /\ ~Marked(k.id),
             \A c \in Members(k.batch) : Runs(c, k.id, k.batch[c].ver)
      PROVE  OnceInv' /\ PublishedCurrent
  <2>1. \A i \in 1 .. Len(commands) : commands[i] \in SentCommands
    BY <1>a DEF SentInv, StreamSent
  <2>2. \A i \in 1 .. Len(commands) : commands[i].id # k.id
    BY Zenon, <1>6, <2>1 DEF SentCommands
  <2>3. k.id \notin processed
    BY Zenon, <1>a, <1>6 DEF ProcessedMarked
  <2>4. NoDuplicateCommand' /\ \A i \in Len(commands) + 1 .. Len(commands') : commands'[i] = k
    BY Zenon, <1>a, <1>2, <1>6, <2>2, <2>3, AppendOnce
  <2>5. RecoveryOrder'
    <3>1. k \in {x \in Command : OldRecovery(x.id)}
      BY Zenon, <1>6 DEF OldRecovery
    <3>2. commands' \in Seq({x \in Command : OldRecovery(x.id)})
      BY <1>a, <1>6, <3>1, AppendKeepsHead, Zenon DEF RecoveryOrder
    <3> QED BY Zenon, <1>a, <1>2, <3>2 DEF RecoveryOrder, OldRecovery
  <2>6. ResultsOfBatch'
    <3>1. commands # <<>> => command' = command
      <4>1. commands \in Seq(Command)
        BY Zenon, <1>a DEF OrchInv, OrchTypeOK, StreamsOK
      <4> QED BY Zenon, <1>6, <4>1, AppendKeepsHead DEF command
    <3> QED BY Zenon, <1>2, <3>1 DEF OnceInv, ResultsOfBatch, TypeInv, SyncdPhaseOK, Members
  <2>7. PublishedCurrent
    BY Zenon, <1>6, <2>4 DEF PublishedCurrent
  <2> QED BY Zenon, <1>1, <1>3, <1>4, <2>4, <2>5, <2>6, <2>7 DEF OnceInv
<1>7. QED
  BY Zenon, <1>1, <1>5, <1>6 DEF SentStep, PublishesCurrent

\* What syncd does leaves orch's snapshots and markers alone.
LEMMA PlaneQuiet ==
  ASSUME TypeInv, OnceInv, UNCHANGED revision,
         UNCHANGED <<configEvents, retries, applVars, deviceVars, procVars>>,
         commands' \in Seq(SentCommands), results' \in Seq(SentResults),
         \A id \in processed' : Marked(id)
  PROVE  SentInv' /\ RevisionOrder' /\ ProcessedMarked'
<1>1. SentInv'
  BY Zenon, SentBySyncd DEF OnceInv
<1>2. UNCHANGED <<appl, deviceMarks>>
  BY Zenon DEF applVars, deviceVars
<1>3. RevisionOrder' /\ ProcessedMarked'
  BY Zenon, <1>2 DEF OnceInv, RevisionOrder, ProcessedMarked, Marked
<1>4. QED
  BY Zenon, <1>1, <1>3

\* A step that publishes no command.
LEMMA NothingPublished ==
  ASSUME TypeInv, commands' = commands \/ (commands # <<>> /\ commands' = Tail(commands))
  PROVE  PublishedCurrent
<1>1. commands \in Seq(Command)
  BY Zenon DEF TypeInv, TypeOK, OrchTypeOK, StreamsOK
<1>2. Len(commands) + 1 .. Len(commands') = {}
  BY <1>1
<1>3. QED
  BY Zenon, <1>2 DEF PublishedCurrent

\* A step of syncd, a device fault or a device restart: a command leaves the
\* stream when it is marked processed, and a recovery command is published
\* once per generation.
LEMMA PlaneOnce ==
  ASSUME TypeInv, TypeInv', OnceInv, UNCHANGED revision,
         \/ SyncdStep \/ HwsimRestart
         \/ \E out \in Outcome : ApplyFaults(out)
         \/ \E out \in Outcome, applied \in BOOLEAN : ApplyUnconfirmed(out, applied)
  PROVE  OnceInv' /\ PublishedCurrent
<1>a. /\ TypeOK /\ OrchTypeOK /\ PlaneTypeOK /\ SyncdPhaseOK /\ SentInv /\ StreamSent
      /\ NoDuplicateCommand /\ RecoveryOrder /\ ResultsOfBatch /\ ProcessedMarked
  BY Zenon DEF TypeInv, TypeOK, OnceInv, SentInv
<1> DEFINE Old == {k \in Command : OldRecovery(k.id)}
<1>b. /\ commands \in Seq(SentCommands) /\ results \in Seq(SentResults)
      /\ commands \in Seq(Old) /\ \A id \in processed : OldRecovery(id) /\ Marked(id)
      /\ gen \in Nat /\ seenGen \in Nat /\ cachedGen \in Nat
      /\ seenGen <= cachedGen /\ cachedGen <= gen
      /\ spc = "recover" => seenGen < cachedGen
  BY Zenon, <1>a DEF StreamSent, RecoveryOrder, ProcessedMarked, PlaneTypeOK
<1>c. commands # <<>> =>
        /\ command \in Command /\ command.id \in CommandId /\ command.batch \in Batch
        /\ Marked(command.id) /\ OfBatch(command.id, command.batch) /\ OldRecovery(command.id)
        /\ Tail(commands) \in Seq(SentCommands) /\ Tail(commands) \in Seq(Old)
  <2>1. commands # <<>> => /\ command \in SentCommands /\ command \in Old
                           /\ Tail(commands) \in Seq(SentCommands)
                           /\ Tail(commands) \in Seq(Old)
    BY Zenon, <1>b, HeadTail DEF command
  <2> QED BY Zenon, <2>1 DEF SentCommands, Command
<1>d. ASSUME NEW applied, NEW out, StoreResult(command.batch, applied, out)
      PROVE  OnceInv' /\ PublishedCurrent
  <2>1. /\ UNCHANGED <<streams, applVars, deviceVars, procVars, gen, seenGen, processed>>
        /\ cachedGen' = gen /\ left' = Members(command.batch) /\ spc' = "publish"
    BY Zenon, <1>d DEF StoreResult
  <2>2. UNCHANGED <<configEvents, commands, results, retries>> /\ command' = command
    BY Zenon, <2>1 DEF streams, command
  <2>3. SentInv' /\ RevisionOrder' /\ ProcessedMarked'
    BY Zenon, <1>b, <2>1, <2>2, PlaneQuiet
  <2>4. RecoveryOrder'
    BY <1>b, <2>1, <2>2 DEF RecoveryOrder, OldRecovery
  <2>5. ResultsOfBatch' /\ NoDuplicateCommand'
    BY Zenon, <1>a, <2>1, <2>2 DEF ResultsOfBatch, NoDuplicateCommand, Members
  <2> QED BY Zenon, <1>a, <2>2, <2>3, <2>4, <2>5, NothingPublished DEF OnceInv
<1>1. CASE SyncdSkip \/ FinishCommand
  <2>1. /\ commands # <<>> /\ commands' = Tail(commands)
        /\ processed' = processed \cup {command.id} /\ spc' = "idle"
        /\ UNCHANGED <<configEvents, retries, results, applVars, deviceVars, procVars,
                       gen, seenGen, cachedGen>>
    BY Zenon, <1>a, <1>1
       DEF SyncdSkip, FinishCommand, CommandClaimed, SyncdPhaseOK, hwsimVars
  <2>2. SentInv' /\ RevisionOrder' /\ ProcessedMarked'
    BY Zenon, <1>b, <1>c, <2>1, PlaneQuiet
  <2>3. RecoveryOrder'
    BY Zenon, <1>b, <1>c, <2>1 DEF RecoveryOrder, OldRecovery
  <2>4. ResultsOfBatch'
    BY Zenon, <2>1 DEF ResultsOfBatch
  <2>5. NoDuplicateCommand'
    BY Zenon, <1>a, <2>1, TailOnce
  <2> QED BY Zenon, <2>1, <2>2, <2>3, <2>4, <2>5, NothingPublished DEF OnceInv
<1>2. CASE ApplySucceeds \/ ApplyRefused
  BY <1>2, <1>d, Zenon DEF ApplySucceeds, ApplyRefused
<1>3. ASSUME NEW c \in Conns, PublishResult(c)
      PROVE  OnceInv' /\ PublishedCurrent
  <2> DEFINE r == [conn |-> c, ver |-> command.batch[c].ver, id |-> command.id,
                   out |-> outcome, batch |-> command.batch]
  <2>1. /\ commands # <<>> /\ results' = Append(results, r) /\ spc = "publish"
        /\ c \in left /\ left' \subseteq left
        /\ UNCHANGED <<configEvents, commands, retries, applVars, deviceVars,
                       procVars, gen, seenGen, cachedGen, processed, spc>>
    BY Zenon, <1>a, <1>3 DEF PublishResult, SyncdPhaseOK, hwsimVars
  <2>2. r \in SentResults
    <3>1. outcome \in Outcome /\ command.batch[c].ver \in Nat /\ c \in Members(command.batch)
      BY Zenon, <1>a, <1>c, <2>1 DEF PlaneTypeOK, Batch, ResultsOfBatch
    <3> QED BY Zenon, <1>c, <2>1, <3>1 DEF SentResults, Result
  <2> HIDE DEF r
  <2>3. results' \in Seq(SentResults)
    BY <1>b, <2>1, <2>2, AppendKeepsHead, Zenon
  <2>4. SentInv' /\ RevisionOrder' /\ ProcessedMarked'
    BY Zenon, <1>b, <2>1, <2>3, PlaneQuiet
  <2>5. RecoveryOrder'
    BY Zenon, <1>b, <2>1 DEF RecoveryOrder, OldRecovery
  <2>6. ResultsOfBatch' /\ NoDuplicateCommand'
    BY Zenon, <1>a, <2>1 DEF ResultsOfBatch, NoDuplicateCommand, Members, command
  <2> QED BY Zenon, <2>1, <2>4, <2>5, <2>6, NothingPublished DEF OnceInv
<1>4. CASE PollGeneration
  <2>1. /\ UNCHANGED <<streams, applVars, deviceVars, procVars, gen, seenGen, processed>>
        /\ cachedGen' = gen /\ gen # seenGen /\ spc' = "recover"
    BY Zenon, <1>4 DEF PollGeneration, hwsimVars
  <2>2. UNCHANGED <<configEvents, commands, results, retries>>
    BY Zenon, <2>1 DEF streams
  <2>3. SentInv' /\ RevisionOrder' /\ ProcessedMarked'
    BY Zenon, <1>b, <2>1, <2>2, PlaneQuiet
  <2>4. RecoveryOrder'
    BY <1>b, <2>1, <2>2 DEF RecoveryOrder, OldRecovery
  <2>5. ResultsOfBatch' /\ NoDuplicateCommand'
    BY Zenon, <1>a, <2>1, <2>2 DEF ResultsOfBatch, NoDuplicateCommand
  <2> QED BY Zenon, <2>2, <2>3, <2>4, <2>5, NothingPublished DEF OnceInv
<1>5. CASE PublishRecovery
  <2> DEFINE k == [id |-> [src |-> "recovery", n |-> cachedGen, try |-> 0], batch |-> plan]
  <2>1. /\ commands' = commands \/ commands' = Append(commands, k)
        /\ UNCHANGED <<configEvents, results, retries, applVars, deviceVars,
                       procVars, gen, cachedGen, processed>>
        /\ spc = "recover" /\ spc' = "idle" /\ seenGen' = cachedGen
    BY Zenon, <1>5 DEF PublishRecovery, hwsimVars
  <2>2. /\ k \in Command /\ IsRecovery(k.id) /\ k.id.n = cachedGen /\ k.id.try = 0
    BY Zenon, <1>a DEF Command, CommandId, PlaneTypeOK, IsRecovery
  <2> HIDE DEF k
  <2>3. k \in SentCommands /\ ~OldRecovery(k.id)
    BY <1>b, <2>1, <2>2, MaxRetriesAssumption DEF SentCommands, Marked, OfBatch, OldRecovery
  <2>4. commands' \in Seq(SentCommands)
    BY <1>b, <2>1, <2>3, AppendKeepsHead, Zenon
  <2>5. SentInv' /\ RevisionOrder' /\ ProcessedMarked'
    BY Zenon, <1>b, <2>1, <2>4, PlaneQuiet
  <2>6. RecoveryOrder'
    <3>1. \A id : id \in CommandId /\ OldRecovery(id) => OldRecovery(id)'
      BY <1>b, <2>1 DEF OldRecovery, CommandId
    <3>2. Old \subseteq Old' /\ k \in Old'
      BY <1>b, <2>1, <2>2, <3>1 DEF OldRecovery, Command
    <3>3. commands \in Seq(Old')
      BY Zenon, <1>b, <3>2, SeqMono
    <3>4. commands' \in Seq(Old')
      BY <2>1, <3>2, <3>3, AppendKeepsHead, Zenon
    <3>5. \A id \in processed' : OldRecovery(id)'
      BY Zenon, <1>a, <1>b, <2>1, <3>1 DEF PlaneTypeOK
    <3> QED BY <1>b, <2>1, <3>4, <3>5 DEF RecoveryOrder
  <2>7. ResultsOfBatch'
    BY Zenon, <2>1 DEF ResultsOfBatch
  <2>8. CASE commands' = commands
    BY Zenon, <1>a, <2>1, <2>5, <2>6, <2>7, <2>8, NothingPublished DEF OnceInv, NoDuplicateCommand
  <2>9. CASE commands' = Append(commands, k)
    <3>1. \A i \in 1 .. Len(commands) : commands[i] \in Old
      BY <1>b
    <3>2. k.id \notin processed /\ \A i \in 1 .. Len(commands) : commands[i].id # k.id
      BY Zenon, <1>b, <2>3, <3>1
    <3>3. /\ NoDuplicateCommand'
          /\ \A i \in Len(commands) + 1 .. Len(commands') : commands'[i] = k
      BY Zenon, <1>a, <2>1, <2>2, <2>9, <3>2, AppendOnce
    <3>4. PublishedCurrent
      BY Zenon, <2>2, <3>3 DEF PublishedCurrent
    <3> QED BY Zenon, <2>5, <2>6, <2>7, <3>3, <3>4 DEF OnceInv
  <2> QED BY Zenon, <2>1, <2>8, <2>9
<1>6. CASE HwsimRestart
  <2>1. /\ UNCHANGED <<streams, applVars, deviceVars, procVars, seenGen, cachedGen,
                       processed, spc, left>>
        /\ gen' = gen + 1
    BY Zenon, <1>6 DEF HwsimRestart, syncdVars
  <2>2. UNCHANGED <<configEvents, commands, results, retries>> /\ command' = command
    BY Zenon, <2>1 DEF streams, command
  <2>3. SentInv' /\ RevisionOrder' /\ ProcessedMarked'
    BY Zenon, <1>b, <2>1, <2>2, PlaneQuiet
  <2>4. RecoveryOrder'
    BY <1>b, <2>1, <2>2 DEF RecoveryOrder, OldRecovery
  <2>5. ResultsOfBatch' /\ NoDuplicateCommand'
    BY Zenon, <1>a, <2>1, <2>2 DEF ResultsOfBatch, NoDuplicateCommand, Members
  <2> QED BY Zenon, <2>2, <2>3, <2>4, <2>5, NothingPublished DEF OnceInv
<1>7. ASSUME NEW out, NEW applied, ApplyFaults(out) \/ ApplyUnconfirmed(out, applied)
      PROVE  OnceInv' /\ PublishedCurrent
  BY <1>d, <1>7, Zenon DEF ApplyFaults, ApplyUnconfirmed
<1>8. QED
  BY <1>1, <1>2, <1>3, <1>4, <1>5, <1>6, <1>7, Zenon DEF SyncdStep

\* A committed Set takes the next revision.
LEMMA SetOnce ==
  ASSUME TypeInv, OnceInv, NEW ops \in SetOps, CommitSet(ops)
  PROVE  OnceInv' /\ PublishedCurrent
<1> DEFINE e == [ver |-> revision + 1, ops |-> ops]
<1>a. /\ OrchInv /\ SentInv /\ RevisionOrder /\ RecoveryOrder /\ ProcessedMarked
      /\ revision \in Nat /\ configEvents \in Seq(ConfigEvent) /\ OrchTypeOK
  BY Zenon DEF TypeInv, TypeOK, OrchInv, OnceInv, OrchTypeOK, StreamsOK
<1>1. e \in ConfigEvent /\ e.ver = revision + 1
  BY <1>a DEF SetOps, ConfigEvent
<1>2. /\ configEvents' = Append(configEvents, e) /\ revision' = revision + 1
      /\ UNCHANGED <<commands, results, retries, applVars, deviceVars, procVars, planeVars>>
  BY Zenon DEF CommitSet
<1> HIDE DEF e
<1>3. /\ \A c \in Conns : appl[c].ver \in Nat /\ appl[c].ver <= revision
      /\ \A i \in 1 .. Len(configEvents) :
           configEvents[i].ver \in Nat /\ configEvents[i].ver <= revision
  <2>1. \A i \in 1 .. Len(configEvents) : configEvents[i] \in ConfigEvent
    BY <1>a
  <2> QED BY Zenon, <1>a, <2>1 DEF RevisionOrder, OrchTypeOK, ApplOK, App, ConfigEvent
<1>4. /\ e.ver # 0 /\ \A c \in Conns : appl[c].ver <= e.ver
      /\ \A i \in 1 .. Len(configEvents) : configEvents[i].ver < e.ver
  BY <1>a, <1>1, <1>3
<1>5. SentInv'
  BY Zenon, <1>a, <1>1, <1>2, <1>4, SentBySet
<1>6. RevisionOrder'
  <2>1. \A i \in 1 .. Len(configEvents') :
          \/ i \in 1 .. Len(configEvents) /\ configEvents'[i] = configEvents[i]
          \/ configEvents'[i] = e
    BY <1>a, <1>1, <1>2, AppendPlaces
  <2>2. appl' = appl
    BY Zenon, <1>2 DEF applVars
  <2> QED BY <1>a, <1>1, <1>2, <1>3, <2>1, <2>2 DEF RevisionOrder
<1>7. UNCHANGED <<commands, deviceMarks, processed, seenGen, cachedGen, gen, spc, left>>
  BY Zenon, <1>2 DEF deviceVars, planeVars, hwsimVars, syncdVars
<1>8. RecoveryOrder' /\ ProcessedMarked' /\ ResultsOfBatch' /\ NoDuplicateCommand'
  <2>1. RecoveryOrder'
    BY Zenon, <1>a, <1>7 DEF RecoveryOrder, OldRecovery
  <2>2. ProcessedMarked'
    BY Zenon, <1>a, <1>7 DEF ProcessedMarked, Marked
  <2>3. ResultsOfBatch' /\ NoDuplicateCommand'
    BY Zenon, <1>7 DEF OnceInv, ResultsOfBatch, NoDuplicateCommand, command, Members
  <2> QED BY Zenon, <2>1, <2>2, <2>3
<1>9. QED
  BY Zenon, <1>5, <1>6, <1>7, <1>8, NothingPublished DEF OnceInv

\* Nothing has been sent at the start.
LEMMA InitOnce == Init => OnceInv
<1> SUFFICES ASSUME Init PROVE OnceInv
  BY Zenon
<1>1. /\ commands = <<>> /\ results = <<>> /\ retries = <<>> /\ configEvents = <<>>
      /\ applMarks = {} /\ deviceMarks = {} /\ prepared = NoKeys /\ applTimeout = NoKeys
      /\ deviceTimeout = NoKeys /\ pc = "config" /\ processed = {} /\ spc = "idle"
      /\ gen = 1 /\ seenGen = 1 /\ cachedGen = 1 /\ revision = 0
      /\ appl = [c \in Conns |-> NoApp]
  BY Zenon DEF Init, OrchInit, DevicePlaneInit
<1>2. StreamSent /\ EventSent /\ PhaseSent
  BY <1>1 DEF StreamSent, EventSent, PhaseSent, RetryingPhase, NoKeys
<1>3. ApplSent
  <2>1. ~IsRecovery(NoApp.cmd) /\ NoApp.cmd.n = 0 /\ NoApp.cmd.try = 0 /\ NoApp.ver = 0
        /\ NoApp.att = 0
    BY Zenon DEF NoApp, ConfigCommand, IsRecovery
  <2> QED BY <1>1, <2>1, MaxRetriesAssumption DEF ApplSent, Snapshot
<1>4. TimeoutSent /\ CommandMarks /\ RetryMarks /\ StagedMarks
  BY Zenon, <1>1 DEF TimeoutSent, CommandMarks, RetryMarks, StagedMarks, NoKeys
<1>5. RecoveryOrder /\ ResultsOfBatch /\ ProcessedMarked /\ NoDuplicateCommand
  BY <1>1 DEF RecoveryOrder, ResultsOfBatch, ProcessedMarked, NoDuplicateCommand
<1>6. RevisionOrder
  BY <1>1 DEF RevisionOrder, NoApp
<1>7. QED
  BY Zenon, <1>2, <1>3, <1>4, <1>5, <1>6 DEF OnceInv, SentInv

\* OnceInv is inductive, and every step publishes only what is current.
LEMMA NextOnce ==
  TypeInv /\ TypeInv' /\ OrderInv /\ OnceInv /\ [Next]_vars =>
    OnceInv' /\ (PublishedCurrent \/ UNCHANGED vars)
<1> SUFFICES ASSUME TypeInv, TypeInv', OrderInv, OnceInv, [Next]_vars
             PROVE  OnceInv' /\ (PublishedCurrent \/ UNCHANGED vars)
  BY Zenon
<1>1. ASSUME NEW ops \in SetOps, CommitSet(ops) PROVE OnceInv' /\ PublishedCurrent
  BY Zenon, <1>1, SetOnce
<1>2. CASE OrchRuns
  BY Zenon, <1>2, OrchOnce DEF OrchRuns
<1>3. CASE OrchCrash
  BY Zenon, <1>3, OrchOnce DEF OrchCrash, Crash
<1>4. ASSUME NEW s \in {"config", "result"}, IdleTime(s) PROVE OnceInv' /\ PublishedCurrent
  BY Zenon, <1>4, OrchOnce DEF IdleTime
<1>5. CASE Backoff
  BY Zenon, <1>5, OrchOnce DEF Backoff
<1>6. CASE SyncdRuns \/ DeviceRestart
  BY Zenon, <1>6, PlaneOnce DEF SyncdRuns, DeviceRestart
<1>7. CASE DeviceFault
  BY Zenon, <1>7, PlaneOnce DEF DeviceFault, Outcome
<1>8. CASE UNCHANGED vars
  <2>1. /\ UNCHANGED <<streams, applVars, deviceVars, procVars>>
        /\ UNCHANGED planeVars /\ UNCHANGED revision
    BY Zenon, <1>8 DEF vars, orchVars
  <2>2. UNCHANGED <<configEvents, commands, results, retries, deviceMarks, processed,
                    seenGen, cachedGen, gen, spc, left>>
    BY Zenon, <2>1 DEF streams, deviceVars, planeVars, hwsimVars, syncdVars
  <2>3. SentInv' /\ RevisionOrder' /\ ProcessedMarked'
    BY Zenon, <2>1, <2>2, PlaneQuiet DEF OnceInv, SentInv, StreamSent, ProcessedMarked
  <2>4. RecoveryOrder'
    BY Zenon, <2>2 DEF OnceInv, RecoveryOrder, OldRecovery
  <2>5. ResultsOfBatch' /\ NoDuplicateCommand'
    BY Zenon, <2>2 DEF OnceInv, ResultsOfBatch, NoDuplicateCommand, command, Members
  <2> QED BY Zenon, <1>8, <2>3, <2>4, <2>5 DEF OnceInv
<1>9. QED
  BY Zenon, <1>1, <1>2, <1>3, <1>4, <1>5, <1>6, <1>7, <1>8 DEF Next

\* What is sent, with its strengthening, for later proofs.
THEOREM OnceInvariant == Spec => []OnceInv
  BY InitOnce, NextOnce, TypeInvariant, OrderInvariant, PTL DEF Spec

\* For any connections, batches, retry limit, crashes, faults and restarts, no
\* command id is in the stream twice or again after syncd has processed it:
\* the once-markers of appendEventOnce cover every resumed phase of orch, and
\* the generation numbers the recovery commands.
THEOREM PublishedOnce == Spec => []NoDuplicateCommand
<1>1. OnceInv => NoDuplicateCommand
  BY Zenon DEF OnceInv
<1>2. QED
  BY <1>1, OnceInvariant, PTL

\* No snapshot is attempted, and no command retried, beyond max_retries,
\* whatever timeout is resumed after a crash or delivered late.
THEOREM RetriesBounded == Spec => []RetryBound
<1>1. OnceInv => RetryBound
  <2> SUFFICES ASSUME OnceInv PROVE RetryBound
    BY Zenon
  <2>1. \A i \in 1 .. Len(commands) : commands[i] \in SentCommands
    BY DEF OnceInv, SentInv, StreamSent
  <2>2. \A c \in Conns : Snapshot(c, appl[c])
    BY Zenon DEF OnceInv, SentInv, ApplSent
  <2> QED BY Zenon, <2>1, <2>2 DEF RetryBound, SentCommands, Snapshot
<1>2. QED
  BY <1>1, OnceInvariant, PTL

\* Whenever orch publishes a command, every member of its batch runs that
\* command in APPL_DB: a newer desired version always fences the late work of
\* processConfigOne and processRetryOne.
THEOREM PublishesOnlyCurrent == Spec => PublishedIsCurrent
<1>1. TypeInv /\ TypeInv' /\ OrderInv /\ OnceInv /\ [Next]_vars => [PublishedCurrent]_vars
  BY Zenon, NextOnce
<1>2. QED
  BY <1>1, OnceInvariant, TypeInvariant, OrderInvariant, PTL
     DEF Spec, PublishedIsCurrent, PublishedCurrent
=============================================================================
