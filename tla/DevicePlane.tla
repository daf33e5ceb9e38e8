----------------------------- MODULE DevicePlane -----------------------------
(***************************************************************************)
(* The device side as ocs-orch sees it: ocs-syncd's command loop           *)
(* (SyncdService::processOne), its generation recovery                     *)
(* (scheduleGenerationRecovery) and the matrix of ocs-hwsim                *)
(* (SimulatedOcsDevice::applyConnections), at the grain of one step per    *)
(* externally visible effect.  Syncd's own crash points are not here: its  *)
(* durable result and once-markers make a resumed command continue where   *)
(* it stopped.  A device fault is a nondeterministic outcome, counted by   *)
(* faults so that a bound can be put on it.                                *)
(***************************************************************************)
EXTENDS Orch

VARIABLES
  actual,     \* hwsim: version of each connection in the matrix, 0 if none
  lastVer,    \* hwsim: last_versions_, the version fence
  gen,        \* hwsim: generation of the running process
  seenGen,    \* STATE_DB device_generation, as of the last poll
  cachedGen,  \* syncd: device_generation_
  lastOk,     \* DEVICE_DB last_successful_version and its generation
  processed,  \* DEVICE_DB processed-command markers
  spc,        \* syncd: "idle", "publish" results, "recover" after a restart
  outcome,    \* stored result of the command being processed
  left,       \* members whose result event is still to be appended
  plan,       \* recovery batch computed by the poll in progress
  faults,     \* device faults so far
  restarts    \* hwsim restarts so far

hwsimVars == <<actual, lastVer, gen, restarts>>
syncdVars == <<seenGen, cachedGen, lastOk, processed, spc, outcome, left, plan>>
planeVars == <<hwsimVars, syncdVars, faults>>

DevicePlaneInit ==
  /\ actual = [c \in Conns |-> 0] /\ lastVer = [c \in Conns |-> 0]
  /\ gen = 1 /\ seenGen = 1 /\ cachedGen = 1
  /\ lastOk = [c \in Conns |-> [gen |-> 0, ver |-> 0]]
  /\ processed = {}
  /\ spc = "idle" /\ outcome = "ok" /\ left = {} /\ plan = NoBatch
  /\ faults = 0 /\ restarts = 0

-----------------------------------------------------------------------------
(* SyncdService::processOne *)

command == Head(commands)

CommandClaimed == spc = "idle" /\ commands # <<>>

\* isStaleVersion: every member was already applied, at this version or a
\* newer one, on the generation syncd last saw.  Never a recovery command.
StaleCommand(k) ==
  /\ ~IsRecovery(k.id)
  /\ \A c \in Members(k.batch) :
       lastOk[c].gen = cachedGen /\ k.batch[c].ver <= lastOk[c].ver

\* A stale command is marked processed and acknowledged; no result is sent.
SyncdSkip ==
  /\ CommandClaimed /\ StaleCommand(command)
  /\ processed' = processed \cup {command.id}
  /\ commands' = Tail(commands)
  /\ UNCHANGED <<configEvents, results, retries, applVars, deviceVars, alarmVars,
                 procVars, hwsimVars, seenGen, cachedGen, lastOk, spc, outcome,
                 left, plan, faults>>

\* applyConnections refuses a batch with a member below its version fence.
AcceptsAny(batch) == TRUE
Accepts(batch) == \A c \in Members(batch) : lastVer[c] <= batch[c].ver

Applied(batch) ==
  [c \in Conns |-> IF c \notin Members(batch) THEN actual[c]
                   ELSE IF batch[c].op = "REMOVE" THEN 0 ELSE batch[c].ver]

\* confirmAppliedResult: the matrix already is what the batch asks for.
ConfirmsPresence(matrix, batch) ==
  \A c \in Members(batch) : matrix[c] = 0 <=> batch[c].op = "REMOVE"

Confirms(matrix, batch) ==
  \A c \in Members(batch) :
    matrix[c] = IF batch[c].op = "REMOVE" THEN 0 ELSE batch[c].ver

\* The device executes the batch, or not, and out is stored as its result.
StoreResult(batch, applied, out) ==
  /\ CommandClaimed /\ ~StaleCommand(command)
  /\ cachedGen' = gen
  /\ IF applied
     THEN /\ actual' = Applied(batch)
          /\ lastVer' = [c \in Conns |-> IF c \in Members(batch)
                                         THEN batch[c].ver ELSE lastVer[c]]
     ELSE UNCHANGED <<actual, lastVer>>
  /\ outcome' = out
  /\ left' = Members(batch)
  /\ spc' = "publish"
  /\ UNCHANGED <<streams, applVars, deviceVars, alarmVars, procVars, gen,
                 restarts, seenGen, lastOk, processed, plan>>

ApplySucceeds ==
  /\ commands # <<>> /\ Accepts(command.batch)
  /\ StoreResult(command.batch, TRUE, "ok")
  /\ UNCHANGED faults

\* OCS_VERSION_STALE, unless the matrix confirms the batch.
ApplyRefused ==
  /\ commands # <<>> /\ ~Accepts(command.batch)
  /\ StoreResult(command.batch, FALSE,
                 IF Confirms(actual, command.batch) THEN "ok" ELSE "fail")
  /\ UNCHANGED faults

\* An apply error or timeout reported by the device, which did nothing.
ApplyFaults(out) ==
  /\ commands # <<>> /\ Accepts(command.batch)
  /\ StoreResult(command.batch, FALSE,
                 IF Confirms(actual, command.batch) THEN "ok" ELSE out)
  /\ faults' = faults + 1

\* The reply is lost and the device cannot be asked: the batch may or may not
\* have been executed.
ApplyUnconfirmed(out, applied) ==
  /\ commands # <<>> /\ (applied => Accepts(command.batch))
  /\ StoreResult(command.batch, applied, out)
  /\ faults' = faults + 1

\* publishResult: one result event per member.
PublishResult(c) ==
  /\ spc = "publish" /\ c \in left
  /\ results' = Append(results,
       [conn |-> c, ver |-> command.batch[c].ver, id |-> command.id,
        out |-> outcome, batch |-> command.batch])
  /\ left' = left \ {c}
  /\ UNCHANGED <<configEvents, commands, retries, applVars, deviceVars,
                 alarmVars, procVars, hwsimVars, seenGen, cachedGen, lastOk,
                 processed, spc, outcome, plan, faults>>

\* markProcessed, then the acknowledgement.
FinishCommand ==
  LET batch == command.batch
      newer(c) == ~(lastOk[c].gen = cachedGen /\ lastOk[c].ver >= batch[c].ver)
  IN  /\ spc = "publish" /\ left = {}
      /\ processed' = processed \cup {command.id}
      /\ lastOk' = [c \in Conns |->
           IF outcome = "ok" /\ c \in Members(batch) /\ newer(c)
           THEN [gen |-> cachedGen, ver |-> batch[c].ver] ELSE lastOk[c]]
      /\ commands' = Tail(commands)
      /\ spc' = "idle"
      /\ UNCHANGED <<configEvents, results, retries, applVars, deviceVars,
                     alarmVars, procVars, hwsimVars, seenGen, cachedGen,
                     outcome, left, plan, faults>>

-----------------------------------------------------------------------------
(* hwsim restarts, and syncd's poll that notices *)

HwsimRestart ==
  /\ gen' = gen + 1 /\ restarts' = restarts + 1
  /\ actual' = [c \in Conns |-> 0] /\ lastVer' = [c \in Conns |-> 0]
  /\ UNCHANGED <<streams, applVars, deviceVars, alarmVars, procVars, syncdVars,
                 faults>>

\* scheduleGenerationRecovery: the DEVICE_DB intents the matrix does not
\* match, and a REMOVE of whatever the matrix holds without an intent.
RecoveryBatch ==
  LET known(c)   == device[c].ver # 0
      matches(c) == actual[c] = IF device[c].op = "REMOVE" THEN 0
                                ELSE device[c].ver
  IN  [c \in Conns |->
         IF known(c) /\ ~matches(c)
         THEN [op |-> device[c].op, ver |-> device[c].ver]
         ELSE IF ~known(c) /\ actual[c] # 0
              THEN [op |-> "REMOVE", ver |-> actual[c]]
              ELSE NotMember]

PollGeneration ==
  /\ spc = "idle" /\ gen # seenGen
  /\ cachedGen' = gen
  /\ plan' = RecoveryBatch
  /\ spc' = "recover"
  /\ UNCHANGED <<streams, applVars, deviceVars, alarmVars, procVars, hwsimVars,
                 seenGen, lastOk, processed, outcome, left, faults>>

\* One recovery command per generation, none if the matrix matches, then the
\* device state with the new generation.
PublishRecovery ==
  /\ spc = "recover"
  /\ commands' = IF Members(plan) = {} THEN commands
                 ELSE Append(commands,
                        [id |-> [src |-> "recovery", n |-> cachedGen, try |-> 0],
                         batch |-> plan])
  /\ seenGen' = cachedGen
  /\ plan' = NoBatch
  /\ spc' = "idle"
  /\ UNCHANGED <<configEvents, results, retries, applVars, deviceVars, alarmVars,
                 procVars, hwsimVars, cachedGen, lastOk, processed, outcome,
                 left, faults>>

SyncdStep ==
  \/ SyncdSkip \/ ApplySucceeds \/ ApplyRefused
  \/ \E c \in Conns : PublishResult(c)
  \/ FinishCommand \/ PollGeneration \/ PublishRecovery

-----------------------------------------------------------------------------
\* The matrix, the version fences and syncd's bookkeeping have their types.
PlaneTypeOK ==
  /\ actual \in [Conns -> Nat] /\ lastVer \in [Conns -> Nat]
  /\ gen \in Nat /\ seenGen \in Nat /\ cachedGen \in Nat
  /\ lastOk \in [Conns -> [gen : Nat, ver : Nat]]
  /\ processed \subseteq CommandId
  /\ spc \in {"idle", "publish", "recover"} /\ outcome \in Outcome
  /\ left \subseteq Conns /\ plan \in Batch
  /\ faults \in Nat /\ restarts \in Nat
=============================================================================
