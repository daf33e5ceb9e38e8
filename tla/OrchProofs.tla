----------------------------- MODULE OrchProofs -----------------------------
(***************************************************************************)
(* Every step of ocs-orch keeps three things, for any set of connections   *)
(* and any retry limit.                                                    *)
(*                                                                         *)
(* Types: its streams, snapshots, markers and process variables are well-  *)
(* typed. OrchTypeOK alone is not inductive: a phase reads the entry in    *)
(* progress and what an earlier phase stored for it. PhaseOK says that     *)
(* these exist.                                                            *)
(*                                                                         *)
(* Order: APPL_DB is ahead of DEVICE_DB and of the streams, and is never   *)
(* taken back. OrchOrderInv says so of the data on its way too: a prepared *)
(* batch carries its own version, and is known to APPL_DB once the         *)
(* application marker is set, which is before DEVICE_DB and the command    *)
(* stream see it.                                                          *)
(*                                                                         *)
(* What it has sent: SentInv says that a command id is in a stream, a      *)
(* timeout marker or a retry only after its once-marker is set, that it    *)
(* stands for one prepared batch, and that its retries stay within the     *)
(* limit; until a batch is published, every member runs it; and no         *)
(* snapshot goes back to a command that was retried.                       *)
(***************************************************************************)
EXTENDS Orch, TLAPS

\* The event in progress is in its stream, and its batch is prepared.
ConfigPhaseOK ==
  pc \in ConfigPhase => configEvents # <<>> /\ event.ver \in DOMAIN prepared

\* The result in progress is in its stream; the decision of a timeout and the
\* markers of the alarms to be counted are stored.
TimeoutPhase ==
  {"timeoutApplication", "timeoutAlarm", "timeoutCount", "timeoutRetry"}
ResultPhaseOK ==
  /\ pc \in ResultPhase => results # <<>>
  /\ pc \in TimeoutPhase => TimeoutDecided(result.id)
  /\ pc = "timeoutCount" =>
       \A c \in cur : <<result.id, c>> \in DOMAIN raiseMarks
  /\ pc = "resultClearCount" =>
       <<result.id, result.conn>> \in DOMAIN clearMarks

RetryPhaseOK == pc \in RetryPhase => retries # <<>>

PhaseOK == ConfigPhaseOK /\ ResultPhaseOK /\ RetryPhaseOK

OrchInv == OrchTypeOK /\ PhaseOK

-----------------------------------------------------------------------------
(* Operators *)

\* A non-empty stream has a first entry, the one the consumer claims.
LEMMA HeadTail ==
  ASSUME NEW S, NEW s \in Seq(S), s # <<>>
  PROVE  Head(s) \in S /\ Tail(s) \in Seq(S)
  OBVIOUS

\* An appended entry comes after the entries of the stream, which keep their
\* places.
LEMMA AppendPlaces ==
  ASSUME NEW S, NEW s \in Seq(S), NEW e \in S
  PROVE  /\ Append(s, e) \in Seq(S)
         /\ Append(s, e) # <<>>
         /\ Len(s) \in Nat /\ Len(Append(s, e)) = Len(s) + 1
         /\ \A i \in 1 .. Len(s) : Append(s, e)[i] = s[i]
         /\ Append(s, e)[Len(s) + 1] = e
  OBVIOUS

\* Appending to a stream leaves the claimed entry in front.
LEMMA AppendKeepsHead ==
  ASSUME NEW S, NEW s \in Seq(S), NEW e \in S
  PROVE  /\ Append(s, e) \in Seq(S)
         /\ Append(s, e) # <<>>
         /\ s # <<>> => Head(Append(s, e)) = Head(s)
<1>1. s # <<>> => Head(Append(s, e)) = Head(s)
  <2> SUFFICES ASSUME s # <<>> PROVE Head(Append(s, e)) = Head(s)
    BY Zenon
  <2>1. 1 \in 1..Len(s)
    OBVIOUS
  <2>2. Append(s, e)[1] = s[1]
    BY <2>1, AppendPlaces
  <2>3. QED
    BY <2>1, <2>2
<1>2. QED
  BY <1>1, AppendPlaces

\* A versioned write of well-typed snapshots leaves a well-typed database.
LEMMA PutVersionedType ==
  ASSUME NEW db \in [Conns -> App], NEW ver \in Nat, NEW keys \in SUBSET Conns,
         NEW writes, \A c \in keys : writes[c] \in App
  PROVE  PutVersioned(db, ver, keys, writes) \in [Conns -> App]
  BY Zenon DEF PutVersioned

\* The absent key is a snapshot like any other.
LEMMA NoAppType == NoApp \in App
  BY Zenon DEF NoApp, App, ConfigCommand, CommandId, ApplyStatus, Operation

\* The empty batch is a batch.
LEMMA NoBatchType == NoBatch \in Batch
  BY Zenon DEF NoBatch, NotMember, Batch

\* The id orch gives a retry is a command id, and differs in its try only.
LEMMA RetryCommandType ==
  ASSUME NEW id \in CommandId
  PROVE  /\ RetryCommand(id) \in CommandId
         /\ RetryCommand(id).src = id.src /\ RetryCommand(id).n = id.n
         /\ RetryCommand(id).try = id.try + 1
  BY DEF RetryCommand, CommandId

\* What processConfigOne stages for a member is a snapshot.
LEMMA StagedType ==
  ASSUME NEW v \in Nat, NEW b \in Batch, NEW c \in Members(b)
  PROVE  Staged(v, b)[c] \in App
  BY Zenon DEF Staged, Members, Batch, App, Executing, ApplyStatus, Operation,
         ConfigCommand, CommandId

\* What processResultOne stores for a result is a snapshot: resolved statuses
\* are statuses that connectionApplyStatusFromString decodes.
LEMMA ResolvedType ==
  ASSUME NEW a \in App, NEW r \in Result
  PROVE  Resolved(a, r) \in App
<1> DEFINE att == IF r.out = "ok" THEN 0 ELSE a.att
<1>1. NextStatus(a, r) \in ApplyStatus
  BY Zenon DEF NextStatus, ApplyStatus
<1>2. att \in Nat
  BY Zenon DEF App
<1>3. Resolved(a, r) = [a EXCEPT !.st = NextStatus(a, r), !.att = att]
  BY Zenon DEF Resolved, App
<1> HIDE DEF att
<1>4. QED
  BY <1>1, <1>2, <1>3, Zenon DEF App

\* handleTimeoutResult decides for RETRY_WAIT or FAILED, never for another status.
LEMMA TimeoutDecisionType ==
  ASSUME NEW a \in App
  PROVE  TimeoutDecision(a) \in Decision
  BY MaxRetriesAssumption DEF TimeoutDecision, Decision, App

\* The decision a resumed timeout reads back is one that was stored.
LEMMA StoredDecisionType ==
  ASSUME NEW id, TimeoutDecided(id),
         Keyed(applTimeout, CommandId, Decision),
         Keyed(deviceTimeout, CommandId, Decision)
  PROVE  StoredDecision(id) \in Decision
  BY Zenon DEF TimeoutDecided, StoredDecision, Keyed

\* What a timeout stores for a member is a snapshot.
LEMMA TimedOutType ==
  ASSUME appl \in [Conns -> App],
         NEW b \in Batch, NEW d \in Decision, NEW c \in Members(b)
  PROVE  TimedOut(b, d)[c] \in App
<1>1. appl[c] \in App
  BY Zenon DEF Members
<1>2. TimedOut(b, d)[c] = [appl[c] EXCEPT !.st = d.st, !.att = d.att]
  BY Zenon DEF TimedOut
<1>3. d.st \in ApplyStatus /\ d.att \in Nat
  BY Zenon DEF Decision, ApplyStatus
<1>4. QED
  BY <1>1, <1>2, <1>3, Zenon DEF App

\* What processRetryOne stores for a member is a snapshot.
LEMMA RetriedType ==
  ASSUME appl \in [Conns -> App], NEW q \in Retry, NEW c \in Members(q.batch)
  PROVE  Retried(q)[c] \in App
<1> DEFINE st == IF RetryStarted(q) THEN appl[c].st ELSE Executing(q.batch[c].op)
           id == RetryCommand(q.id)
<1>1. appl[c] \in App
  BY Zenon DEF Members
<1>2. Retried(q)[c] = [appl[c] EXCEPT !.st = st, !.cmd = id, !.att = q.att]
  BY Zenon, <1>1 DEF Retried, App
<1>3. st \in ApplyStatus
  BY Zenon, <1>1 DEF App, Executing, ApplyStatus
<1>4. id \in CommandId /\ q.att \in Nat
  BY Zenon, RetryCommandType DEF Retry
<1> HIDE DEF st, id
<1>5. QED
  BY <1>1, <1>2, <1>3, <1>4, Zenon DEF App

\* appendToStreamOnce adds a well-typed command and loses none.
LEMMA PublishType ==
  ASSUME commands \in Seq(Command), deviceMarks \subseteq Marks,
         NEW mark \in Marks, NEW id, NEW b,
         [id |-> id, batch |-> b] \in Command,
         PublishOnce(mark, id, b)
  PROVE  /\ commands' \in Seq(Command) /\ deviceMarks' \subseteq Marks
         /\ commands # <<>> => commands' # <<>>
<1> DEFINE k == [id |-> id, batch |-> b]
<1>1. \/ UNCHANGED <<commands, deviceMarks>>
      \/ commands' = Append(commands, k) /\ deviceMarks' = deviceMarks \cup {mark}
  BY Zenon DEF PublishOnce
<1> HIDE DEF k
<1>2. k \in Command
  BY Zenon DEF k
<1>3. CASE UNCHANGED <<commands, deviceMarks>>
  BY Zenon, <1>3
<1>4. CASE commands' = Append(commands, k) /\ deviceMarks' = deviceMarks \cup {mark}
  BY Zenon, <1>2, <1>4, AppendKeepsHead
<1>5. QED
  BY Zenon, <1>1, <1>3, <1>4

-----------------------------------------------------------------------------
(* Frames: what a step leaves alone keeps its type. *)

\* The variables a step leaves alone keep their types.
LEMMA OrchFrame ==
  ASSUME OrchTypeOK
  PROVE  /\ UNCHANGED streams => StreamsOK'
         /\ UNCHANGED applVars => ApplOK'
         /\ UNCHANGED deviceVars => DeviceOK'
         /\ UNCHANGED alarmVars => AlarmOK'
         /\ UNCHANGED procVars => ProcOK'
<1> USE DEF OrchTypeOK
<1>1. UNCHANGED streams => StreamsOK'
  BY Zenon DEF streams, StreamsOK
<1>2. UNCHANGED applVars => ApplOK'
  BY Zenon DEF applVars, ApplOK
<1>3. UNCHANGED deviceVars => DeviceOK'
  BY Zenon DEF deviceVars, DeviceOK
<1>4. UNCHANGED alarmVars => AlarmOK'
  BY Zenon DEF alarmVars, AlarmOK
<1>5. UNCHANGED procVars => ProcOK'
  BY Zenon DEF procVars, ProcOK
<1>6. QED
  BY Zenon, <1>1, <1>2, <1>3, <1>4, <1>5

\* Moving to a phase of the handler keeps the process variables typed.
LEMMA StepTo ==
  ASSUME OrchTypeOK, UNCHANGED <<wait, due, todo, cur>>, pc' \in Phase
  PROVE  ProcOK'
  BY Zenon DEF OrchTypeOK, ProcOK

\* Where a step may go, and what must be there.
LEMMA GoIdle ==
  ASSUME pc' \in {"config", "result", "retry"}
  PROVE  PhaseOK' /\ pc' \in Phase
  BY Zenon DEF PhaseOK, ConfigPhaseOK, ResultPhaseOK, RetryPhaseOK, ConfigPhase,
         ResultPhase, RetryPhase, TimeoutPhase, Phase

\* processConfigOne may go on with the event it has claimed.
LEMMA GoConfig ==
  ASSUME pc' \in ConfigPhase,
         configEvents' # <<>>, event'.ver \in DOMAIN prepared'
  PROVE  PhaseOK' /\ pc' \in Phase
  BY Zenon DEF PhaseOK, ConfigPhaseOK, ResultPhaseOK, RetryPhaseOK, ConfigPhase,
         ResultPhase, RetryPhase, TimeoutPhase, Phase

\* processResultOne may go on with the result it has claimed.
LEMMA GoResult ==
  ASSUME pc' \in ResultPhase, results' # <<>>,
         pc' \in TimeoutPhase => TimeoutDecided(result.id)',
         pc' = "timeoutCount" =>
           \A c \in cur' : <<result'.id, c>> \in DOMAIN raiseMarks',
         pc' = "resultClearCount" =>
           <<result'.id, result'.conn>> \in DOMAIN clearMarks'
  PROVE  PhaseOK' /\ pc' \in Phase
  BY Zenon DEF PhaseOK, ConfigPhaseOK, ResultPhaseOK, RetryPhaseOK, ConfigPhase,
         ResultPhase, RetryPhase, Phase

\* processRetryOne may go on with the retry it has claimed.
LEMMA GoRetry ==
  ASSUME pc' \in RetryPhase, retries' # <<>>
  PROVE  PhaseOK' /\ pc' \in Phase
  BY Zenon DEF PhaseOK, ConfigPhaseOK, ResultPhaseOK, RetryPhaseOK, ConfigPhase,
         ResultPhase, RetryPhase, TimeoutPhase, Phase

-----------------------------------------------------------------------------
(* The handlers of ocs-orch, one step per action *)

\* Each phase of processConfigOne preserves the typing.
LEMMA ConfigTyped ==
  ASSUME OrchInv,
         \/ ConfigIdle \/ ConfigSkip \/ ConfigPrepare \/ ConfigApplication
         \/ ConfigDevice \/ ConfigPublish \/ ConfigAck
  PROVE  OrchInv' /\ (commands # <<>> => commands' # <<>>)
<1>a. OrchTypeOK /\ (pc \in ConfigPhase =>
                       configEvents # <<>> /\ event.ver \in DOMAIN prepared)
  BY Zenon DEF OrchInv, PhaseOK, ConfigPhaseOK
<1>b. configEvents # <<>> =>
        event \in ConfigEvent /\ Tail(configEvents) \in Seq(ConfigEvent)
  BY Zenon, <1>a, HeadTail DEF event, OrchTypeOK, StreamsOK
<1>c. \A v \in DOMAIN prepared : v \in Nat /\ prepared[v] \in Batch
  BY Zenon, <1>a DEF OrchTypeOK, DeviceOK, Keyed
<1>d. ASSUME UNCHANGED streams
      PROVE  /\ UNCHANGED event /\ configEvents' = configEvents
             /\ UNCHANGED commands
  BY Zenon, <1>d DEF streams, event
<1>1. CASE ConfigIdle
  BY Zenon, <1>a, <1>d, <1>1, OrchFrame, StepTo, GoIdle
     DEF ConfigIdle, OrchInv, OrchTypeOK
<1>2. ASSUME ConfigSkip \/ ConfigAck
      PROVE  OrchInv' /\ UNCHANGED commands
  <2>1. /\ configEvents # <<>> /\ pc' = "result"
        /\ configEvents' = Tail(configEvents)
        /\ UNCHANGED <<commands, results, retries, applVars, deviceVars,
                       alarmVars, wait, due, todo, cur>>
    BY Zenon, <1>2, <1>a DEF ConfigSkip, ConfigAck, ConfigClaimed, ConfigPhase
  <2>2. StreamsOK'
    BY Zenon, <1>a, <1>b, <2>1 DEF OrchTypeOK, StreamsOK
  <2>3. QED
    BY Zenon, <1>a, <2>1, <2>2, OrchFrame, StepTo, GoIdle DEF OrchInv, OrchTypeOK
<1>3. CASE ConfigPrepare
  <2> DEFINE b == PreparedBatch(event)
  <2>1. configEvents # <<>> /\ event.ver \in Nat /\ b \in Batch
    BY Zenon, <1>b, <1>3 DEF ConfigPrepare, ConfigClaimed, PreparedBatch, Batch,
                      NotMember, ConfigEvent, Operation
  <2> HIDE DEF b
  <2>2. /\ \/ event.ver \in DOMAIN prepared /\ prepared' = prepared
           \/ prepared' = Put(prepared, event.ver, b)
        /\ pc' = "configApplication"
        /\ UNCHANGED <<streams, applVars, device, deviceMarks, deviceTimeout,
                       alarmVars, wait, due, todo, cur>>
    BY Zenon, <1>3 DEF ConfigPrepare, b
  <2>3. Keyed(prepared', Nat, Batch) /\ event.ver \in DOMAIN prepared'
    BY Zenon, <1>a, <2>1, <2>2 DEF OrchTypeOK, DeviceOK, Keyed, Put
  <2>4. DeviceOK'
    BY Zenon, <1>a, <2>2, <2>3 DEF OrchTypeOK, DeviceOK
  <2>5. PhaseOK' /\ ProcOK'
    BY Zenon, <1>a, <1>d, <2>1, <2>2, <2>3, GoConfig, StepTo DEF ConfigPhase
  <2>6. QED
    BY Zenon, <1>a, <1>d, <2>2, <2>4, <2>5, OrchFrame DEF OrchInv, OrchTypeOK
<1>4. CASE ConfigApplication
  <2> DEFINE b == prepared[event.ver]
             w == PutVersioned(appl, event.ver, Members(b), Staged(event.ver, b))
             m == <<"application", event.ver>>
  <2>1. configEvents # <<>> /\ event.ver \in DOMAIN prepared
    BY Zenon, <1>a, <1>4 DEF ConfigApplication, ConfigPhase
  <2>2. w \in [Conns -> App]
    BY <1>a, <1>c, <2>1, StagedType, PutVersionedType, Zenon
       DEF Members, OrchTypeOK, ApplOK
  <2>3. m \in Marks
    BY Zenon, <1>c, <2>1 DEF Marks
  <2> HIDE DEF w, m
  <2>4. /\ \/ UNCHANGED <<appl, applMarks>>
           \/ appl' = w /\ applMarks' = applMarks \cup {m}
        /\ pc' \in {"configExit", "configDevice"}
        /\ UNCHANGED <<streams, applTimeout, deviceVars, alarmVars, wait, due,
                       todo, cur>>
    BY Zenon, <1>4 DEF ConfigApplication, w, m
  <2>5. ApplOK'
    BY Zenon, <1>a, <2>2, <2>3, <2>4 DEF OrchTypeOK, ApplOK
  <2>6. PhaseOK' /\ ProcOK'
    BY Zenon, <1>a, <1>d, <2>1, <2>4, GoConfig, StepTo DEF ConfigPhase, deviceVars
  <2>7. QED
    BY Zenon, <1>a, <1>d, <2>4, <2>5, <2>6, OrchFrame DEF OrchInv, OrchTypeOK
<1>5. CASE ConfigDevice
  <2> DEFINE b == prepared[event.ver]
             w == PutVersioned(device, event.ver, Members(b), Staged(event.ver, b))
             m == <<"deviceState", event.ver>>
  <2>1. configEvents # <<>> /\ event.ver \in DOMAIN prepared
    BY Zenon, <1>a, <1>5 DEF ConfigDevice, ConfigPhase
  <2>2. w \in [Conns -> App]
    BY <1>a, <1>c, <2>1, StagedType, PutVersionedType, Zenon
       DEF Members, OrchTypeOK, DeviceOK
  <2>3. m \in Marks
    BY Zenon, <1>c, <2>1 DEF Marks
  <2> HIDE DEF w, m
  <2>4. /\ \/ UNCHANGED <<device, deviceMarks>>
           \/ device' = w /\ deviceMarks' = deviceMarks \cup {m}
        /\ pc' = "configCommand"
        /\ UNCHANGED <<streams, applVars, prepared, deviceTimeout, alarmVars,
                       wait, due, todo, cur>>
    BY Zenon, <1>5 DEF ConfigDevice, w, m
  <2>5. DeviceOK'
    BY Zenon, <1>a, <2>2, <2>3, <2>4 DEF OrchTypeOK, DeviceOK
  <2>6. PhaseOK' /\ ProcOK'
    BY Zenon, <1>a, <1>d, <2>1, <2>4, GoConfig, StepTo DEF ConfigPhase
  <2>7. QED
    BY Zenon, <1>a, <1>d, <2>4, <2>5, <2>6, OrchFrame DEF OrchInv, OrchTypeOK
<1>6. CASE ConfigPublish
  <2>1. configEvents # <<>> /\ event.ver \in DOMAIN prepared
    BY Zenon, <1>a, <1>6 DEF ConfigPublish, ConfigPhase
  <2>2. <<"command", event.ver>> \in Marks
    BY Zenon, <1>c, <2>1 DEF Marks
  <2>3. [id |-> ConfigCommand(event.ver), batch |-> prepared[event.ver]] \in Command
    BY Zenon, <1>c, <2>1 DEF ConfigCommand, CommandId, Command
  <2>4. /\ pc' = "configAck"
        /\ UNCHANGED <<configEvents, results, retries, applVars, device, prepared,
                       deviceTimeout, alarmVars, wait, due, todo, cur>>
    BY Zenon, <1>6 DEF ConfigPublish
  <2>5. /\ commands' \in Seq(Command) /\ deviceMarks' \subseteq Marks
        /\ commands # <<>> => commands' # <<>>
    BY Zenon, <1>a, <1>6, <2>2, <2>3, PublishType
       DEF ConfigPublish, OrchTypeOK, StreamsOK, DeviceOK
  <2>6. StreamsOK' /\ DeviceOK'
    BY Zenon, <1>a, <2>4, <2>5 DEF OrchTypeOK, StreamsOK, DeviceOK
  <2>7. PhaseOK' /\ ProcOK'
    BY Zenon, <1>a, <2>1, <2>4, GoConfig, StepTo DEF ConfigPhase, event
  <2>8. QED
    BY Zenon, <1>a, <2>4, <2>5, <2>6, <2>7, OrchFrame DEF OrchInv, OrchTypeOK
<1>7. QED
  BY Zenon, <1>1, <1>2, <1>3, <1>4, <1>5, <1>6

\* Each phase of processResultOne preserves the typing.
LEMMA ResultTyped ==
  ASSUME OrchInv,
         \/ ResultIdle \/ ResultSkip \/ ResultResume \/ ResultDevice
         \/ ResultApplication \/ ResultClear \/ ResultClearCount \/ ResultAck
  PROVE  OrchInv' /\ UNCHANGED commands
<1>a. OrchTypeOK /\ (pc \in ResultPhase => results # <<>>)
  BY Zenon DEF OrchInv, PhaseOK, ResultPhaseOK
<1>b. results # <<>> =>
        /\ result \in Result /\ Tail(results) \in Seq(Result)
        /\ result.id \in CommandId /\ result.conn \in Conns /\ result.ver \in Nat
  <2>1. results # <<>> => result \in Result /\ Tail(results) \in Seq(Result)
    BY Zenon, <1>a, HeadTail DEF result, OrchTypeOK, StreamsOK
  <2>2. QED
    BY Zenon, <2>1 DEF Result
<1>c. results # <<>> =>
        /\ appl[result.conn] \in App
        /\ ResultMark(result) \in Marks
        /\ <<result.id, result.conn>> \in CommandId \X Conns
  BY Zenon, <1>a, <1>b DEF ResultMark, Marks, OrchTypeOK, ApplOK
<1>d. ASSUME UNCHANGED streams
      PROVE  UNCHANGED result /\ results' = results /\ UNCHANGED commands
  BY Zenon, <1>d DEF streams, result
<1>1. CASE ResultIdle
  BY Zenon, <1>a, <1>d, <1>1, OrchFrame, StepTo, GoIdle
     DEF ResultIdle, OrchInv, OrchTypeOK
<1>2. ASSUME ResultSkip \/ ResultAck
      PROVE  OrchInv' /\ UNCHANGED commands
  <2>1. /\ results # <<>> /\ pc' = "retry"
        /\ results' = Tail(results)
        /\ UNCHANGED <<configEvents, commands, retries, applVars, deviceVars,
                       alarmVars, wait, due, todo, cur>>
    BY Zenon, <1>2, <1>a DEF ResultSkip, ResultAck, ResultClaimed, ResultPhase
  <2>2. StreamsOK'
    BY Zenon, <1>a, <1>b, <2>1 DEF OrchTypeOK, StreamsOK
  <2>3. QED
    BY Zenon, <1>a, <2>1, <2>2, OrchFrame, StepTo, GoIdle DEF OrchInv, OrchTypeOK
<1>3. CASE ResultResume
  <2>1. /\ results # <<>> /\ pc' \in {"resultClear", "resultAck"}
        /\ UNCHANGED <<streams, applVars, deviceVars, alarmVars, wait, due, todo,
                       cur>>
    BY Zenon, <1>3 DEF ResultResume, ResultClaimed, AfterResult
  <2>2. PhaseOK' /\ ProcOK'
    BY Zenon, <1>a, <1>d, <2>1, GoResult, StepTo DEF ResultPhase, TimeoutPhase
  <2>3. QED
    BY Zenon, <1>a, <1>d, <2>1, <2>2, OrchFrame DEF OrchInv, OrchTypeOK
<1>4. CASE ResultDevice
  <2> DEFINE a == appl[result.conn]
             w == IF NextStatus(a, result) = "ABSENT" THEN NoApp
                  ELSE Resolved(a, result)
             ws == [c \in {result.conn} |-> w]
             d == PutVersioned(device, result.ver, {result.conn}, ws)
             m == ResultMark(result)
  <2>1. results # <<>>
    BY Zenon, <1>4 DEF ResultDevice, ResultClaimed
  <2>2. w \in App
    BY Zenon, <1>b, <1>c, <2>1, NoAppType, ResolvedType
  <2>3. ws[result.conn] \in App
    BY Zenon, <2>2
  <2> HIDE DEF ws
  <2>4. d \in [Conns -> App]
    BY <1>a, <1>b, <2>1, <2>3, PutVersionedType, Zenon DEF OrchTypeOK, DeviceOK
  <2>5. /\ \/ UNCHANGED <<device, deviceMarks>>
           \/ device' = d /\ deviceMarks' = deviceMarks \cup {m}
        /\ pc' \in {"resultExit", "resultApplication"}
        /\ UNCHANGED <<streams, applVars, prepared, deviceTimeout, alarmVars,
                       wait, due, todo, cur>>
    BY <1>4, Zenon DEF ResultDevice, ws
  <2> HIDE DEF d, m
  <2>6. m \in Marks
    BY Zenon, <1>c, <2>1 DEF m
  <2>7. DeviceOK'
    BY Zenon, <1>a, <2>4, <2>5, <2>6 DEF OrchTypeOK, DeviceOK
  <2>8. PhaseOK' /\ ProcOK'
    BY Zenon, <1>a, <1>d, <2>1, <2>5, GoResult, StepTo DEF ResultPhase, TimeoutPhase
  <2>9. QED
    BY Zenon, <1>a, <1>d, <2>5, <2>7, <2>8, OrchFrame DEF OrchInv, OrchTypeOK
<1>5. CASE ResultApplication
  <2> DEFINE ws == [c \in {result.conn} |-> Resolved(appl[c], result)]
             w == PutVersioned(appl, result.ver, {result.conn}, ws)
             m == ResultMark(result)
  <2>1. results # <<>>
    BY Zenon, <1>a, <1>5 DEF ResultApplication, ResultPhase
  <2>2. ws[result.conn] \in App
    BY Zenon, <1>b, <1>c, <2>1, ResolvedType
  <2> HIDE DEF ws
  <2>3. w \in [Conns -> App]
    BY <1>a, <1>b, <2>1, <2>2, PutVersionedType, Zenon DEF OrchTypeOK, ApplOK
  <2>4. /\ appl' = w /\ applMarks' = applMarks \cup {m}
        /\ pc' \in {"resultClear", "resultAck"}
        /\ UNCHANGED <<streams, applTimeout, deviceVars, alarmVars, wait, due,
                       todo, cur>>
    BY Zenon, <1>5 DEF ResultApplication, AfterResult, ws
  <2> HIDE DEF w, m
  <2>5. m \in Marks
    BY Zenon, <1>c, <2>1 DEF m
  <2>6. ApplOK'
    BY Zenon, <1>a, <2>3, <2>4, <2>5 DEF OrchTypeOK, ApplOK
  <2>7. PhaseOK' /\ ProcOK'
    BY Zenon, <1>a, <1>d, <2>1, <2>4, GoResult, StepTo DEF ResultPhase, TimeoutPhase
  <2>8. QED
    BY Zenon, <1>a, <1>d, <2>4, <2>6, <2>7, OrchFrame DEF OrchInv, OrchTypeOK
<1>6. CASE ResultClear
  <2> DEFINE key == <<result.id, result.conn>>
  <2>1. results # <<>> /\ key \in CommandId \X Conns
    BY Zenon, <1>a, <1>c, <1>6 DEF ResultClear, ResultPhase
  <2>2. /\ \/ pc' = "resultAck" /\ UNCHANGED <<alarm, clearMarks>>
           \/ /\ pc' = "resultClearCount"
              /\ \E act \in alarm[result.conn] : clearMarks' = Put(clearMarks, key, act)
              /\ alarm' = [alarm EXCEPT ![result.conn] = {}]
           \/ /\ pc' = "resultClearCount" /\ key \in DOMAIN clearMarks
              /\ UNCHANGED <<alarm, clearMarks>>
        /\ UNCHANGED <<streams, applVars, deviceVars, activeAlarms, raiseMarks,
                       countMarks, wait, due, todo, cur>>
    BY Zenon, <1>6 DEF ResultClear
  <2> HIDE DEF key
  <2>3. /\ Keyed(clearMarks', CommandId \X Conns, CommandId)
        /\ pc' = "resultClearCount" => key \in DOMAIN clearMarks'
    <3>1. CASE UNCHANGED clearMarks /\ (pc' = "resultAck" \/ key \in DOMAIN clearMarks)
      BY Zenon, <1>a, <3>1 DEF OrchTypeOK, AlarmOK, Keyed
    <3>2. CASE \E act \in alarm[result.conn] : clearMarks' = Put(clearMarks, key, act)
      <4>1. PICK act \in CommandId : clearMarks' = Put(clearMarks, key, act)
        BY Zenon, <1>a, <1>b, <2>1, <3>2 DEF OrchTypeOK, AlarmOK
      <4>2. QED
        BY Zenon, <1>a, <2>1, <4>1 DEF OrchTypeOK, AlarmOK, Keyed, Put
    <3>3. QED
      BY Zenon, <2>2, <3>1, <3>2
  <2>4. alarm' \in [Conns -> SUBSET CommandId]
    BY Zenon, <1>a, <2>2 DEF OrchTypeOK, AlarmOK
  <2>5. AlarmOK'
    BY Zenon, <1>a, <2>2, <2>3, <2>4 DEF OrchTypeOK, AlarmOK
  <2>6. PhaseOK' /\ ProcOK'
    BY Zenon, <1>a, <1>d, <2>1, <2>2, <2>3, GoResult, StepTo
       DEF ResultPhase, TimeoutPhase, key
  <2>7. QED
    BY Zenon, <1>a, <1>d, <2>2, <2>5, <2>6, OrchFrame DEF OrchInv, OrchTypeOK
<1>7. CASE ResultClearCount
  <2> DEFINE act == clearMarks[<<result.id, result.conn>>]
             m == <<"clear", act, result.conn>>
  <2>1. results # <<>> /\ <<result.id, result.conn>> \in DOMAIN clearMarks
    BY Zenon, <1>a, <1>7
       DEF ResultClearCount, ResultPhase, OrchInv, PhaseOK, ResultPhaseOK
  <2>2. act \in CommandId
    BY Zenon, <1>a, <2>1 DEF OrchTypeOK, AlarmOK, Keyed
  <2>3. m \in CountMarks
    BY Zenon, <1>b, <2>1, <2>2 DEF CountMarks
  <2>4. /\ activeAlarms' = activeAlarms \/ activeAlarms' = activeAlarms - 1
        /\ countMarks' = countMarks \cup {m}
        /\ pc' = "resultAck"
        /\ UNCHANGED <<streams, applVars, deviceVars, alarm, raiseMarks,
                       clearMarks, wait, due, todo, cur>>
    BY Zenon, <1>7 DEF ResultClearCount
  <2> HIDE DEF m
  <2>5. AlarmOK'
    BY <1>a, <2>3, <2>4 DEF OrchTypeOK, AlarmOK
  <2>6. PhaseOK' /\ ProcOK'
    BY Zenon, <1>a, <1>d, <2>1, <2>4, GoResult, StepTo DEF ResultPhase, TimeoutPhase
  <2>7. QED
    BY Zenon, <1>a, <1>d, <2>4, <2>5, <2>6, OrchFrame DEF OrchInv, OrchTypeOK
<1>8. QED
  BY Zenon, <1>1, <1>2, <1>3, <1>4, <1>5, <1>6, <1>7

\* Each phase of handleTimeoutResult preserves the typing.
LEMMA TimeoutTyped ==
  ASSUME OrchInv,
         \/ TimeoutDevice \/ TimeoutApplication
         \/ \E c \in Conns : TimeoutAlarm(c) \/ TimeoutCount(c)
         \/ TimeoutRetry
  PROVE  OrchInv' /\ UNCHANGED commands
<1>a. /\ OrchTypeOK
      /\ pc \in ResultPhase => results # <<>>
      /\ pc \in TimeoutPhase => TimeoutDecided(result.id)
  BY Zenon DEF OrchInv, PhaseOK, ResultPhaseOK
<1>b. results # <<>> =>
        /\ result.id \in CommandId /\ result.conn \in Conns /\ result.ver \in Nat
        /\ result.batch \in Batch
  <2>1. results # <<>> => result \in Result
    BY Zenon, <1>a, HeadTail DEF result, OrchTypeOK, StreamsOK
  <2>2. QED
    BY Zenon, <2>1 DEF Result
<1>c. /\ appl \in [Conns -> App] /\ device \in [Conns -> App]
      /\ Keyed(applTimeout, CommandId, Decision)
      /\ Keyed(deviceTimeout, CommandId, Decision)
  BY Zenon, <1>a DEF OrchTypeOK, ApplOK, DeviceOK
<1>d. ASSUME UNCHANGED streams
      PROVE  UNCHANGED result /\ results' = results /\ UNCHANGED commands
  BY Zenon, <1>d DEF streams, result
<1>e. TimeoutDecided(result.id) => StoredDecision(result.id) \in Decision
  BY Zenon, <1>c, StoredDecisionType
<1>f. ASSUME results # <<>>, NEW d \in Decision, NEW db \in [Conns -> App]
      PROVE  PutVersioned(db, result.ver, Members(result.batch),
                          TimedOut(result.batch, d)) \in [Conns -> App]
  <2>1. \A c \in Members(result.batch) : TimedOut(result.batch, d)[c] \in App
    BY Zenon, <1>b, <1>c, <1>f, TimedOutType
  <2>2. Members(result.batch) \in SUBSET Conns
    BY Zenon DEF Members
  <2>3. QED
    BY <1>b, <1>f, <2>1, <2>2, PutVersionedType, Zenon
<1>1. CASE TimeoutDevice
  <2> DEFINE w(d) == PutVersioned(device, result.ver, Members(result.batch),
                                  TimedOut(result.batch, d))
  <2>1. PICK first \in Members(result.batch) :
          \/ pc' = "resultAck" /\ UNCHANGED <<device, deviceTimeout>>
          \/ /\ device' = w(DecisionFor(result, first))
             /\ deviceTimeout' = Put(deviceTimeout, result.id,
                                     DecisionFor(result, first))
             /\ pc' = "timeoutApplication"
          \/ /\ result.id \in DOMAIN deviceTimeout
             /\ pc' = "timeoutApplication"
             /\ UNCHANGED <<device, deviceTimeout>>
    BY <1>1, Zenon DEF TimeoutDevice
  <2>2. /\ results # <<>>
        /\ UNCHANGED <<streams, applVars, prepared, deviceMarks, alarmVars,
                       wait, due, todo, cur>>
    BY <1>1, Zenon DEF TimeoutDevice, ResultClaimed
  <2>3. DecisionFor(result, first) \in Decision
    <3>1. appl[first] \in App
      BY Zenon, <1>c DEF Members
    <3>2. QED
      BY Zenon, <1>e, <3>1, TimeoutDecisionType DEF DecisionFor
  <2>4. PICK d \in Decision :
          \/ pc' = "resultAck" /\ UNCHANGED <<device, deviceTimeout>>
          \/ /\ device' = w(d)
             /\ deviceTimeout' = Put(deviceTimeout, result.id, d)
             /\ pc' = "timeoutApplication"
          \/ /\ result.id \in DOMAIN deviceTimeout
             /\ pc' = "timeoutApplication"
             /\ UNCHANGED <<device, deviceTimeout>>
    BY <2>1, <2>3, Zenon
  <2>5. w(d) \in [Conns -> App]
    BY Zenon, <1>c, <1>f, <2>2
  <2> HIDE DEF w
  <2>6. /\ Keyed(deviceTimeout', CommandId, Decision)
        /\ pc' = "timeoutApplication" => result.id \in DOMAIN deviceTimeout'
    BY Zenon, <1>b, <1>c, <2>2, <2>4 DEF Keyed, Put
  <2>7. DeviceOK'
    BY Zenon, <1>a, <2>2, <2>4, <2>5, <2>6 DEF OrchTypeOK, DeviceOK
  <2>8. PhaseOK' /\ ProcOK'
    <3>1. pc' = "timeoutApplication" => TimeoutDecided(result.id)'
      BY Zenon, <1>d, <2>2, <2>6 DEF TimeoutDecided
    <3>2. pc' \in {"resultAck", "timeoutApplication"}
      BY Zenon, <2>4
    <3>3. QED
      BY Zenon, <1>a, <1>d, <2>2, <3>1, <3>2, GoResult, StepTo
         DEF ResultPhase, TimeoutPhase
  <2>9. QED
    BY Zenon, <1>a, <1>d, <2>2, <2>7, <2>8, OrchFrame DEF OrchInv, OrchTypeOK
<1>2. CASE TimeoutApplication
  <2> DEFINE d == StoredDecision(result.id)
             w == PutVersioned(appl, result.ver, Members(result.batch),
                               TimedOut(result.batch, d))
  <2>1. results # <<>> /\ d \in Decision
    BY Zenon, <1>a, <1>e, <1>2 DEF TimeoutApplication, ResultPhase, TimeoutPhase
  <2>2. w \in [Conns -> App]
    BY Zenon, <1>c, <1>f, <2>1
  <2>3. /\ \/ result.id \in DOMAIN applTimeout /\ UNCHANGED <<appl, applTimeout>>
           \/ appl' = w /\ applTimeout' = Put(applTimeout, result.id, d)
        /\ pc' = "timeoutAlarm" /\ todo' = Members(result.batch)
        /\ UNCHANGED <<streams, applMarks, deviceVars, alarmVars, wait, due, cur>>
    BY Zenon, <1>2 DEF TimeoutApplication
  <2> HIDE DEF w, d
  <2>4. Keyed(applTimeout', CommandId, Decision) /\ result.id \in DOMAIN applTimeout'
    BY Zenon, <1>b, <1>c, <2>1, <2>3 DEF Keyed, Put
  <2>5. ApplOK'
    BY Zenon, <1>a, <2>2, <2>3, <2>4 DEF OrchTypeOK, ApplOK
  <2>6. PhaseOK' /\ pc' \in Phase
    <3>1. TimeoutDecided(result.id)'
      BY Zenon, <1>d, <2>3, <2>4 DEF TimeoutDecided
    <3>2. QED
      BY Zenon, <1>d, <2>1, <2>3, <3>1, GoResult DEF ResultPhase, TimeoutPhase
  <2>7. ProcOK'
    BY Zenon, <1>a, <2>3, <2>6 DEF OrchTypeOK, ProcOK, Members
  <2>8. StreamsOK' /\ DeviceOK' /\ AlarmOK' /\ UNCHANGED commands
    BY Zenon, <1>a, <1>d, <2>3, OrchFrame
  <2>9. QED
    BY Zenon, <2>5, <2>6, <2>7, <2>8 DEF OrchInv, OrchTypeOK
<1>3. ASSUME NEW c \in Conns, TimeoutAlarm(c)
      PROVE  OrchInv' /\ UNCHANGED commands
  <2> DEFINE key == <<result.id, c>>
             mark == RaiseMark(c)
  <2>1. results # <<>> /\ TimeoutDecided(result.id)
    BY Zenon, <1>a, <1>3 DEF TimeoutAlarm, ResultPhase, TimeoutPhase
  <2>2. mark \in Raise /\ mark.act \in CommandId
    BY Zenon, <1>a, <1>b, <2>1 DEF RaiseMark, Raise, OrchTypeOK, AlarmOK
  <2>3. key \in CommandId \X Conns
    BY Zenon, <1>b, <2>1
  <2>4. /\ \/ key \in DOMAIN raiseMarks /\ UNCHANGED <<alarm, raiseMarks>>
           \/ /\ alarm' = [alarm EXCEPT ![c] = {mark.act}]
              /\ raiseMarks' = Put(raiseMarks, key, mark)
        /\ pc' = "timeoutCount" /\ cur' = {c}
        /\ UNCHANGED <<streams, applVars, deviceVars, activeAlarms, clearMarks,
                       countMarks, wait, due, todo>>
    BY <1>3, Zenon DEF TimeoutAlarm
  <2> HIDE DEF key, mark
  <2>5. /\ Keyed(raiseMarks', CommandId \X Conns, Raise)
        /\ key \in DOMAIN raiseMarks'
    <3>1. Keyed(raiseMarks, CommandId \X Conns, Raise)
      BY Zenon, <1>a DEF OrchTypeOK, AlarmOK
    <3>2. CASE key \in DOMAIN raiseMarks /\ raiseMarks' = raiseMarks
      BY Zenon, <3>1, <3>2
    <3>3. CASE raiseMarks' = Put(raiseMarks, key, mark)
      BY Zenon, <2>2, <2>3, <3>1, <3>3 DEF Keyed, Put
    <3>4. QED
      BY Zenon, <2>4, <3>2, <3>3
  <2>6. alarm' \in [Conns -> SUBSET CommandId]
    BY Zenon, <1>a, <2>2, <2>4 DEF OrchTypeOK, AlarmOK
  <2>7. AlarmOK'
    BY Zenon, <1>a, <2>4, <2>5, <2>6 DEF OrchTypeOK, AlarmOK
  <2>8. PhaseOK' /\ pc' \in Phase
    <3>1. TimeoutDecided(result.id)'
      BY Zenon, <1>d, <2>1, <2>4 DEF TimeoutDecided, applVars, deviceVars
    <3>2. \A e \in cur' : <<result'.id, e>> \in DOMAIN raiseMarks'
      BY Zenon, <1>d, <2>4, <2>5 DEF key
    <3>3. QED
      BY Zenon, <1>d, <2>1, <2>4, <3>1, <3>2, GoResult DEF ResultPhase
  <2>9. ProcOK'
    BY Zenon, <1>a, <2>4, <2>8 DEF OrchTypeOK, ProcOK
  <2>10. StreamsOK' /\ ApplOK' /\ DeviceOK' /\ UNCHANGED commands
    BY Zenon, <1>a, <1>d, <2>4, OrchFrame
  <2>11. QED
    BY Zenon, <2>7, <2>8, <2>9, <2>10 DEF OrchInv, OrchTypeOK
<1>4. ASSUME NEW c \in Conns, TimeoutCount(c)
      PROVE  OrchInv' /\ UNCHANGED commands
  <2> DEFINE raise == raiseMarks[<<result.id, c>>]
             m == <<"raise", raise.act, c>>
  <2>1. results # <<>> /\ TimeoutDecided(result.id)
    BY Zenon, <1>a, <1>4 DEF TimeoutCount, ResultPhase, TimeoutPhase
  <2>2. <<result.id, c>> \in DOMAIN raiseMarks
    BY Zenon, <1>4 DEF TimeoutCount, OrchInv, PhaseOK, ResultPhaseOK
  <2>3. raise \in Raise
    BY Zenon, <1>a, <2>2 DEF OrchTypeOK, AlarmOK, Keyed
  <2>4. m \in CountMarks
    BY Zenon, <2>3 DEF CountMarks, Raise
  <2>5. /\ \/ UNCHANGED <<activeAlarms, countMarks>>
           \/ activeAlarms' = activeAlarms + 1 /\ countMarks' = countMarks \cup {m}
        /\ todo' = todo \ {c} /\ cur' = {}
        /\ pc' \in {"timeoutRetry", "timeoutAlarm"}
        /\ UNCHANGED <<streams, applVars, deviceVars, alarm, raiseMarks,
                       clearMarks, wait, due>>
    BY Zenon, <1>4 DEF TimeoutCount
  <2> HIDE DEF m
  <2>6. AlarmOK'
    BY <1>a, <2>4, <2>5 DEF OrchTypeOK, AlarmOK
  <2>7. PhaseOK' /\ pc' \in Phase
    <3>1. TimeoutDecided(result.id)'
      BY Zenon, <1>d, <2>1, <2>5 DEF TimeoutDecided, applVars, deviceVars
    <3>2. QED
      BY Zenon, <1>d, <2>1, <2>5, <3>1, GoResult DEF ResultPhase, TimeoutPhase
  <2>8. ProcOK'
    BY Zenon, <1>a, <2>5, <2>7 DEF OrchTypeOK, ProcOK
  <2>9. QED
    BY Zenon, <1>a, <1>d, <2>5, <2>6, <2>7, <2>8, OrchFrame DEF OrchInv, OrchTypeOK
<1>5. CASE TimeoutRetry
  <2> DEFINE d == StoredDecision(result.id)
             q == [id |-> result.id, att |-> d.att, ver |-> result.ver,
                   batch |-> result.batch]
             m == <<"retry", result.id>>
  <2>1. results # <<>> /\ d \in Decision
    BY Zenon, <1>a, <1>e, <1>5 DEF TimeoutRetry, ResultPhase, TimeoutPhase
  <2>2. q \in Retry
    BY Zenon, <1>b, <2>1 DEF Retry, Decision
  <2>3. m \in Marks
    BY Zenon, <1>b, <2>1 DEF Marks
  <2>4. /\ \/ UNCHANGED <<retries, deviceMarks>>
           \/ retries' = Append(retries, q) /\ deviceMarks' = deviceMarks \cup {m}
        /\ pc' = "resultAck"
        /\ UNCHANGED <<configEvents, commands, results, applVars, device, prepared,
                       deviceTimeout, alarmVars, wait, due, todo, cur>>
    BY Zenon, <1>5 DEF TimeoutRetry
  <2> HIDE DEF q, m
  <2>5. retries' \in Seq(Retry)
    BY <1>a, <2>2, <2>4, AppendKeepsHead, Zenon DEF OrchTypeOK, StreamsOK
  <2>6. StreamsOK' /\ DeviceOK'
    BY Zenon, <1>a, <2>3, <2>4, <2>5 DEF OrchTypeOK, StreamsOK, DeviceOK
  <2>7. PhaseOK' /\ ProcOK'
    BY Zenon, <1>a, <2>1, <2>4, GoResult, StepTo DEF ResultPhase, TimeoutPhase
  <2>8. QED
    BY Zenon, <1>a, <2>4, <2>6, <2>7, OrchFrame DEF OrchInv, OrchTypeOK
<1>6. QED
  BY <1>1, <1>2, <1>3, <1>4, <1>5, Zenon

\* Each phase of processRetryOne preserves the typing.
LEMMA RetryTyped ==
  ASSUME OrchInv,
         \/ RetryIdle \/ RetrySkip \/ RetryApplication \/ RetryDevice
         \/ RetryPublish \/ RetryAck
  PROVE  OrchInv' /\ (commands # <<>> => commands' # <<>>)
<1>a. OrchTypeOK /\ (pc \in RetryPhase => retries # <<>>)
  BY Zenon DEF OrchInv, PhaseOK, RetryPhaseOK
<1>b. retries # <<>> =>
        /\ retry \in Retry /\ Tail(retries) \in Seq(Retry)
        /\ retry.id \in CommandId /\ retry.ver \in Nat /\ retry.batch \in Batch
  <2>1. retries # <<>> => retry \in Retry /\ Tail(retries) \in Seq(Retry)
    BY Zenon, <1>a, HeadTail DEF retry, OrchTypeOK, StreamsOK
  <2>2. QED
    BY Zenon, <2>1 DEF Retry
<1>c. ASSUME retries # <<>>, NEW db \in [Conns -> App]
      PROVE  PutVersioned(db, retry.ver, Members(retry.batch), Retried(retry))
               \in [Conns -> App]
  <2>1. \A c \in Members(retry.batch) : Retried(retry)[c] \in App
    BY Zenon, <1>a, <1>b, <1>c, RetriedType DEF OrchTypeOK, ApplOK
  <2>2. Members(retry.batch) \in SUBSET Conns
    BY Zenon DEF Members
  <2>3. QED
    BY <1>b, <1>c, <2>1, <2>2, PutVersionedType, Zenon
<1>d. ASSUME UNCHANGED streams
      PROVE  UNCHANGED retries /\ UNCHANGED commands
  BY Zenon, <1>d DEF streams
<1>1. CASE RetryIdle
  BY Zenon, <1>a, <1>d, <1>1, OrchFrame, StepTo, GoIdle
     DEF RetryIdle, OrchInv, OrchTypeOK
<1>2. ASSUME RetrySkip \/ RetryAck
      PROVE  OrchInv' /\ UNCHANGED commands
  <2>1. /\ retries # <<>> /\ pc' = "config"
        /\ retries' = Tail(retries) /\ due' = FALSE
        /\ UNCHANGED <<configEvents, commands, results, applVars, deviceVars,
                       alarmVars, wait, todo, cur>>
    BY Zenon, <1>2, <1>a DEF RetrySkip, RetryAck, RetryPhase
  <2>2. StreamsOK'
    BY Zenon, <1>a, <1>b, <2>1 DEF OrchTypeOK, StreamsOK
  <2>3. PhaseOK' /\ ProcOK'
    BY <1>a, <2>1, GoIdle, Zenon DEF OrchTypeOK, ProcOK
  <2>4. QED
    BY Zenon, <1>a, <2>1, <2>2, <2>3, OrchFrame DEF OrchInv, OrchTypeOK
<1>3. CASE RetryApplication
  <2> DEFINE w == PutVersioned(appl, retry.ver, Members(retry.batch), Retried(retry))
             m == <<"retryApplication", retry.id>>
  <2>1. /\ retries # <<>>
        /\ \/ UNCHANGED <<appl, applMarks>>
           \/ appl' = w /\ applMarks' = applMarks \cup {m}
        /\ pc' = "retryDevice"
        /\ UNCHANGED <<streams, applTimeout, deviceVars, alarmVars, wait, due,
                       todo, cur>>
    BY Zenon, <1>3 DEF RetryApplication
  <2>2. w \in [Conns -> App]
    BY Zenon, <1>a, <1>c, <2>1 DEF OrchTypeOK, ApplOK
  <2>3. m \in Marks
    BY Zenon, <1>b, <2>1 DEF Marks
  <2> HIDE DEF w, m
  <2>4. ApplOK'
    BY Zenon, <1>a, <2>1, <2>2, <2>3 DEF OrchTypeOK, ApplOK
  <2>5. PhaseOK' /\ ProcOK'
    BY Zenon, <1>a, <1>d, <2>1, GoRetry, StepTo DEF RetryPhase
  <2>6. QED
    BY Zenon, <1>a, <1>d, <2>1, <2>4, <2>5, OrchFrame DEF OrchInv, OrchTypeOK
<1>4. CASE RetryDevice
  <2> DEFINE w == PutVersioned(device, retry.ver, Members(retry.batch), Retried(retry))
             m == <<"retryDevice", retry.id>>
  <2>1. /\ retries # <<>>
        /\ \/ UNCHANGED <<device, deviceMarks>>
           \/ device' = w /\ deviceMarks' = deviceMarks \cup {m}
        /\ pc' = "retryCommand"
        /\ UNCHANGED <<streams, applVars, prepared, deviceTimeout, alarmVars,
                       wait, due, todo, cur>>
    BY Zenon, <1>a, <1>4 DEF RetryDevice, RetryPhase
  <2>2. w \in [Conns -> App]
    BY Zenon, <1>a, <1>c, <2>1 DEF OrchTypeOK, DeviceOK
  <2>3. m \in Marks
    BY Zenon, <1>b, <2>1 DEF Marks
  <2> HIDE DEF w, m
  <2>4. DeviceOK'
    BY Zenon, <1>a, <2>1, <2>2, <2>3 DEF OrchTypeOK, DeviceOK
  <2>5. PhaseOK' /\ ProcOK'
    BY Zenon, <1>a, <1>d, <2>1, GoRetry, StepTo DEF RetryPhase
  <2>6. QED
    BY Zenon, <1>a, <1>d, <2>1, <2>4, <2>5, OrchFrame DEF OrchInv, OrchTypeOK
<1>5. CASE RetryPublish
  <2>1. /\ retries # <<>> /\ pc' = "retryAck"
        /\ UNCHANGED <<configEvents, results, retries, applVars, device, prepared,
                       deviceTimeout, alarmVars, wait, due, todo, cur>>
    BY Zenon, <1>a, <1>5 DEF RetryPublish, RetryPhase
  <2>2. <<"retryCommand", retry.id>> \in Marks
    BY Zenon, <1>b, <2>1 DEF Marks
  <2>3. [id |-> RetryCommand(retry.id), batch |-> retry.batch] \in Command
    BY Zenon, <1>b, <2>1, RetryCommandType DEF Command
  <2>4. /\ commands' \in Seq(Command) /\ deviceMarks' \subseteq Marks
        /\ commands # <<>> => commands' # <<>>
    BY Zenon, <1>a, <1>5, <2>2, <2>3, PublishType
       DEF RetryPublish, OrchTypeOK, StreamsOK, DeviceOK
  <2>5. StreamsOK' /\ DeviceOK'
    BY Zenon, <1>a, <2>1, <2>4 DEF OrchTypeOK, StreamsOK, DeviceOK
  <2>6. PhaseOK' /\ ProcOK'
    BY Zenon, <1>a, <2>1, GoRetry, StepTo DEF RetryPhase
  <2>7. QED
    BY Zenon, <1>a, <2>1, <2>4, <2>5, <2>6, OrchFrame DEF OrchInv, OrchTypeOK
<1>6. QED
  BY Zenon, <1>1, <1>2, <1>3, <1>4, <1>5

\* Steps that change nothing but the process.
LEMMA ProcessTyped ==
  ASSUME OrchInv,
         \/ Restart \/ BackoffElapses
         \/ \E s \in {"config", "result"} : IdleTimeElapses(s)
  PROVE  OrchInv' /\ UNCHANGED commands
<1>a. OrchTypeOK /\ PhaseOK
  BY Zenon DEF OrchInv
<1>1. UNCHANGED <<streams, applVars, deviceVars, alarmVars>>
  BY Zenon DEF Restart, BackoffElapses, IdleTimeElapses
<1>2. ProcOK'
  BY <1>a, Zenon
     DEF Restart, BackoffElapses, IdleTimeElapses, OrchTypeOK, ProcOK, Phase
<1>3. PhaseOK'
  <2>1. CASE Restart
    BY Zenon, <2>1, GoIdle DEF Restart
  <2>2. CASE UNCHANGED <<pc, cur>>
    BY Zenon, <1>a, <1>1, <2>2 DEF PhaseOK, ConfigPhaseOK, ResultPhaseOK, RetryPhaseOK,
       streams, applVars, deviceVars, alarmVars, event, result, TimeoutDecided
  <2>3. QED
    BY Zenon, <2>1, <2>2 DEF BackoffElapses, IdleTimeElapses
<1>4. QED
  BY Zenon, <1>a, <1>1, <1>2, <1>3, OrchFrame DEF OrchInv, OrchTypeOK, streams

-----------------------------------------------------------------------------
\* Batches whose versions APPL_DB has reached, and stream entries with them.
Known(batch) == \A c \in Conns : batch[c].ver <= appl[c].ver
KnownCommands == {k \in Command : Known(k.batch)}
KnownResults ==
  {r \in Result : Known(r.batch) /\ r.ver <= appl[r.conn].ver}
KnownRetries == {q \in Retry : Known(q.batch)}

StreamOrder ==
  /\ commands \in Seq(KnownCommands) /\ results \in Seq(KnownResults)
  /\ retries \in Seq(KnownRetries)

DeviceOrder == \A c \in Conns : device[c].ver <= appl[c].ver

PreparedOrder ==
  /\ \A v \in DOMAIN prepared : \A c \in Conns :
       prepared[v][c].ver = IF c \in Members(prepared[v]) THEN v ELSE 0
  /\ \A v \in Nat : <<"application", v>> \in applMarks =>
       v \in DOMAIN prepared /\ Known(prepared[v])

StagedPhase == {"configDevice", "configCommand"}
PhaseOrder == pc \in StagedPhase => <<"application", event.ver>> \in applMarks

OrchOrderInv == StreamOrder /\ DeviceOrder /\ PreparedOrder /\ PhaseOrder

\* No step takes a connection of APPL_DB back to an older version.
ApplGrows == \A c \in Conns : appl[c].ver <= appl'[c].ver

-----------------------------------------------------------------------------
(* What a growing APPL_DB leaves true *)

\* A stream over a set of entries is one over any larger set.
LEMMA SeqMono ==
  ASSUME NEW S, NEW T, S \subseteq T, NEW s \in Seq(S)
  PROVE  s \in Seq(T)
  OBVIOUS

\* A batch APPL_DB has reached stays reached.
LEMMA KnownGrows ==
  ASSUME OrchTypeOK, OrchTypeOK', ApplGrows, NEW b \in Batch, Known(b)
  PROVE  Known(b)'
<1>1. \A c \in Conns : b[c].ver \in Nat /\ appl[c].ver \in Nat /\ appl'[c].ver \in Nat
  BY Zenon DEF OrchTypeOK, ApplOK, App, Batch
<1>2. QED
  BY <1>1 DEF Known, ApplGrows

\* So the streams keep their order.
LEMMA StreamFrame ==
  ASSUME OrchTypeOK, OrchTypeOK', ApplGrows, StreamOrder
  PROVE  /\ commands \in Seq(KnownCommands') /\ results \in Seq(KnownResults')
         /\ retries \in Seq(KnownRetries')
<1>1. KnownCommands \subseteq KnownCommands' /\ KnownRetries \subseteq KnownRetries'
  <2>1. ASSUME NEW k \in KnownCommands PROVE k \in KnownCommands'
    BY Zenon, KnownGrows DEF KnownCommands, Command
  <2>2. ASSUME NEW q \in KnownRetries PROVE q \in KnownRetries'
    BY Zenon, KnownGrows DEF KnownRetries, Retry
  <2>3. QED
    BY Zenon, <2>1, <2>2
<1>2. KnownResults \subseteq KnownResults'
  <2>1. SUFFICES ASSUME NEW r \in KnownResults PROVE r \in KnownResults'
    BY Zenon
  <2>2. /\ r \in Result /\ r.batch \in Batch /\ r.conn \in Conns /\ r.ver \in Nat
        /\ Known(r.batch) /\ r.ver <= appl[r.conn].ver
    BY Zenon DEF KnownResults, Result
  <2>3. appl[r.conn].ver \in Nat /\ appl'[r.conn].ver \in Nat
    BY Zenon, <2>2 DEF OrchTypeOK, ApplOK, App
  <2>4. r.ver <= appl'[r.conn].ver
    BY <2>2, <2>3 DEF ApplGrows
  <2>5. QED
    BY Zenon, <2>2, <2>4, KnownGrows DEF KnownResults
<1>3. QED
  BY Zenon, <1>1, <1>2, SeqMono DEF StreamOrder

\* A step that leaves APPL_DB and the prepared batches alone.
LEMMA OrderKept ==
  ASSUME OrchTypeOK, OrchOrderInv, UNCHANGED <<appl, applMarks, prepared>>,
         commands' \in Seq(KnownCommands), results' \in Seq(KnownResults),
         retries' \in Seq(KnownRetries),
         \A c \in Conns : device'[c].ver <= appl[c].ver,
         PhaseOrder'
  PROVE  OrchOrderInv' /\ ApplGrows
<1>1. UNCHANGED <<KnownCommands, KnownResults, KnownRetries>>
  BY Zenon DEF KnownCommands, KnownResults, KnownRetries, Known
<1>2. StreamOrder' /\ DeviceOrder'
  BY Zenon, <1>1 DEF StreamOrder, DeviceOrder
<1>3. PreparedOrder'
  BY Zenon DEF OrchOrderInv, PreparedOrder, Known, Members
<1>4. ApplGrows
  BY DEF ApplGrows, OrchTypeOK, ApplOK, App
<1>5. QED
  BY Zenon, <1>2, <1>3, <1>4 DEF OrchOrderInv

\* A step that moves at most orch's own place in the streams.
LEMMA OrderQuiet ==
  ASSUME OrchTypeOK, OrchOrderInv, UNCHANGED <<appl, applMarks, prepared, device>>,
         commands' \in Seq(KnownCommands), results' \in Seq(KnownResults),
         retries' \in Seq(KnownRetries), PhaseOrder'
  PROVE  OrchOrderInv' /\ ApplGrows
  BY Zenon, OrderKept DEF OrchOrderInv, DeviceOrder

\* A step that writes APPL_DB and nothing else but its markers.
LEMMA OrderGrown ==
  ASSUME OrchTypeOK, OrchTypeOK', OrchOrderInv, ApplGrows, PhaseOrder',
         UNCHANGED <<commands, results, retries, device, prepared>>,
         \A v \in Nat : <<"application", v>> \in applMarks' =>
            \/ <<"application", v>> \in applMarks
            \/ v \in DOMAIN prepared /\ Known(prepared[v])'
  PROVE  OrchOrderInv'
<1>1. StreamOrder'
  BY Zenon, StreamFrame DEF OrchOrderInv, StreamOrder
<1>2. DeviceOrder'
  <2>1. \A c \in Conns : /\ device[c].ver \in Nat /\ appl[c].ver \in Nat
                         /\ appl'[c].ver \in Nat
    BY Zenon DEF OrchTypeOK, ApplOK, DeviceOK, App
  <2>2. QED
    BY <2>1 DEF OrchOrderInv, DeviceOrder, ApplGrows
<1>3. PreparedOrder'
  <2>1. \A v \in DOMAIN prepared : prepared[v] \in Batch
    BY Zenon DEF OrchTypeOK, DeviceOK, Keyed
  <2>2. \A v \in DOMAIN prepared : Known(prepared[v]) => Known(prepared[v])'
    BY Zenon, <2>1, KnownGrows DEF Known
  <2>3. QED
    BY Zenon, <2>2 DEF OrchOrderInv, PreparedOrder, Members
<1>4. QED
  BY Zenon, <1>1, <1>2, <1>3 DEF OrchOrderInv

\* A versioned write that keeps the version of every connection it touches
\* takes none back.
LEMMA PutSameVersion ==
  ASSUME NEW v, NEW keys \in SUBSET Conns, NEW w,
         appl \in [Conns -> App],
         \A c \in keys : w[c].ver = appl[c].ver,
         appl' = PutVersioned(appl, v, keys, w)
  PROVE  ApplGrows
<1>1. \A c \in Conns : appl'[c].ver = appl[c].ver /\ appl[c].ver \in Nat
  BY Zenon DEF PutVersioned, App
<1>2. QED
  BY <1>1 DEF ApplGrows

-----------------------------------------------------------------------------
(* The handlers of orch *)

\* Each phase of processConfigOne keeps the order: APPL_DB is written first.
LEMMA ConfigOrder ==
  ASSUME OrchInv, OrchInv', OrchOrderInv,
         \/ ConfigIdle \/ ConfigSkip \/ ConfigPrepare \/ ConfigApplication
         \/ ConfigDevice \/ ConfigPublish \/ ConfigAck
  PROVE  OrchOrderInv' /\ ApplGrows
<1>a. OrchTypeOK /\ OrchTypeOK' /\ PhaseOK
  BY Zenon DEF OrchInv
<1>b. /\ StreamOrder /\ DeviceOrder /\ PreparedOrder /\ PhaseOrder
      /\ \A c \in Conns : appl[c].ver \in Nat
  BY Zenon, <1>a DEF OrchOrderInv, OrchTypeOK, ApplOK, App
<1>c. configEvents # <<>> =>
        /\ event.ver \in Nat
        /\ \A c \in Conns : event.ops[c] \in Operation \cup {"NONE"}
  <2>1. configEvents # <<>> => event \in ConfigEvent
    BY Zenon, <1>a, HeadTail DEF event, OrchTypeOK, StreamsOK
  <2>2. QED
    BY Zenon, <2>1 DEF ConfigEvent
<1>d. ASSUME UNCHANGED streams
      PROVE  UNCHANGED <<configEvents, commands, results, retries>> /\ event' = event
  BY Zenon, <1>d DEF streams, event
<1>1. CASE ConfigIdle \/ ConfigSkip \/ ConfigAck
  <2>1. /\ UNCHANGED <<appl, applMarks, prepared, device, commands, results, retries>>
        /\ pc' = "result"
    BY Zenon, <1>1 DEF ConfigIdle, ConfigSkip, ConfigAck, streams, applVars, deviceVars
  <2>2. PhaseOrder'
    BY Zenon, <2>1 DEF PhaseOrder, StagedPhase
  <2>3. QED
    BY Zenon, <1>a, <1>b, <2>1, <2>2, OrderQuiet DEF StreamOrder
<1>2. CASE ConfigPrepare
  <2>1. /\ UNCHANGED <<appl, applMarks, device, commands, results, retries>>
        /\ configEvents # <<>> /\ pc' = "configApplication"
        /\ \/ UNCHANGED prepared
           \/ /\ event.ver \notin DOMAIN prepared
              /\ prepared' = Put(prepared, event.ver, PreparedBatch(event))
    BY Zenon, <1>2 DEF ConfigPrepare, ConfigClaimed, streams, applVars
  <2>2. PhaseOrder'
    BY Zenon, <2>1 DEF PhaseOrder, StagedPhase
  <2>3. CASE UNCHANGED prepared
    BY Zenon, <1>a, <1>b, <2>1, <2>2, <2>3, OrderQuiet DEF StreamOrder
  <2>4. CASE /\ event.ver \notin DOMAIN prepared
             /\ prepared' = Put(prepared, event.ver, PreparedBatch(event))
    <3> DEFINE b == PreparedBatch(event)
    <3>1. \A c \in Conns : b[c].ver = IF c \in Members(b) THEN event.ver ELSE 0
      BY Zenon, <1>c, <2>1 DEF PreparedBatch, Members, NotMember, Operation
    <3> HIDE DEF b
    <3>2. /\ DOMAIN prepared' = DOMAIN prepared \cup {event.ver}
          /\ prepared'[event.ver] = b
          /\ \A v \in DOMAIN prepared : prepared'[v] = prepared[v]
      BY Zenon, <2>4 DEF Put, b
    <3>3. PreparedOrder'
      <4>1. \A v \in DOMAIN prepared' : \A c \in Conns :
              prepared'[v][c].ver = IF c \in Members(prepared'[v]) THEN v ELSE 0
        <5>1. \A v \in DOMAIN prepared : \A c \in Conns :
                prepared[v][c].ver = IF c \in Members(prepared[v]) THEN v ELSE 0
          BY Zenon, <1>b DEF PreparedOrder
        <5>2. ASSUME NEW v \in DOMAIN prepared', NEW c \in Conns
              PROVE  prepared'[v][c].ver = IF c \in Members(prepared'[v]) THEN v ELSE 0
          <6>1. CASE v = event.ver
            BY Zenon, <3>1, <3>2, <6>1
          <6>2. CASE v \in DOMAIN prepared
            <7>1. prepared'[v] = prepared[v]
              BY Zenon, <3>2, <6>2
            <7>2. QED
              BY Zenon, <5>1, <6>2, <7>1
          <6>3. QED
            BY Zenon, <3>2, <6>1, <6>2
        <5>3. QED
          BY Zenon, <5>2
      <4>2. \A v \in Nat : <<"application", v>> \in applMarks' =>
              v \in DOMAIN prepared' /\ Known(prepared'[v])
        BY Zenon, <1>b, <2>1, <2>4, <3>2 DEF PreparedOrder
      <4>3. QED
        BY Zenon, <4>1, <4>2, <2>1 DEF PreparedOrder, Known, Members
    <3>4. StreamOrder' /\ DeviceOrder'
      BY Zenon, <1>b, <2>1 DEF StreamOrder, DeviceOrder, KnownCommands, KnownResults,
         KnownRetries, Known
    <3>5. ApplGrows
      BY <1>b, <2>1 DEF ApplGrows
    <3>6. QED
      BY Zenon, <2>2, <3>3, <3>4, <3>5 DEF OrchOrderInv
  <2>5. QED
    BY Zenon, <2>1, <2>3, <2>4
<1>3. CASE ConfigApplication
  <2> DEFINE b == prepared[event.ver]
             m == <<"application", event.ver>>
  <2>1. pc = "configApplication" /\ configEvents # <<>> /\ event.ver \in DOMAIN prepared
    BY Zenon, <1>a, <1>3 DEF ConfigApplication, PhaseOK, ConfigPhaseOK, ConfigPhase
  <2>2. /\ UNCHANGED <<device, prepared, commands, results, retries>>
        /\ event' = event
        /\ \/ /\ UNCHANGED <<appl, applMarks>>
              /\ pc' = "configExit" \/ m \in applMarks
           \/ /\ appl' = PutVersioned(appl, event.ver, Members(b), Staged(event.ver, b))
              /\ applMarks' = applMarks \cup {m}
    BY Zenon, <1>3, <1>d DEF ConfigApplication, streams, deviceVars
  <2>3. PhaseOrder'
    BY Zenon, <2>2 DEF PhaseOrder, StagedPhase
  <2>4. CASE UNCHANGED <<appl, applMarks>>
    BY Zenon, <1>a, <1>b, <2>2, <2>3, <2>4, OrderQuiet DEF StreamOrder
  <2>5. CASE /\ appl' = PutVersioned(appl, event.ver, Members(b), Staged(event.ver, b))
             /\ applMarks' = applMarks \cup {m}
    <3>1. \A c \in Conns : b[c].ver = IF c \in Members(b) THEN event.ver ELSE 0
      BY Zenon, <1>b, <2>1 DEF PreparedOrder
    <3> HIDE DEF b
    <3>2. \A c \in Conns :
            appl'[c].ver = IF c \in Members(b) /\ appl[c].ver <= event.ver
                           THEN event.ver ELSE appl[c].ver
      BY Zenon, <2>5, <3>1 DEF PutVersioned, Staged
    <3>3. ApplGrows
      BY <1>b, <1>c, <2>1, <3>2 DEF ApplGrows
    <3>4. Known(b)'
      <4>1. \A c \in Conns : b[c].ver <= appl'[c].ver
        BY <1>b, <1>c, <2>1, <3>1, <3>2
      <4>2. b' = b
        BY Zenon, <2>2 DEF b
      <4>3. QED
        BY Zenon, <4>1, <4>2 DEF Known
    <3>5. \A v \in Nat : <<"application", v>> \in applMarks' =>
            \/ <<"application", v>> \in applMarks
            \/ v \in DOMAIN prepared /\ Known(prepared[v])'
      <4>1. ASSUME NEW v \in Nat, <<"application", v>> \in applMarks',
                   <<"application", v>> \notin applMarks
            PROVE  v = event.ver
        BY Zenon, <2>5, <4>1
      <4>2. Known(prepared[event.ver])'
        BY Zenon, <3>4 DEF b
      <4>3. QED
        BY Zenon, <2>1, <2>2, <4>1, <4>2
    <3>6. QED
      BY Zenon, <1>a, <2>2, <2>3, <3>3, <3>5, OrderGrown
  <2>6. QED
    BY Zenon, <2>2, <2>4, <2>5
<1>4. ASSUME pc \in StagedPhase
      PROVE  /\ configEvents # <<>> /\ event.ver \in DOMAIN prepared
             /\ Known(prepared[event.ver])
             /\ \A c \in Members(prepared[event.ver]) :
                  prepared[event.ver][c].ver <= appl[c].ver
  <2>1. configEvents # <<>> /\ event.ver \in DOMAIN prepared
    BY Zenon, <1>a, <1>4 DEF PhaseOK, ConfigPhaseOK, ConfigPhase, StagedPhase
  <2>2. Known(prepared[event.ver])
    BY Zenon, <1>b, <1>c, <1>4, <2>1 DEF PhaseOrder, PreparedOrder
  <2>3. QED
    BY Zenon, <2>1, <2>2 DEF Known, Members
<1>5. CASE ConfigDevice
  <2> DEFINE b == prepared[event.ver]
  <2>1. /\ pc \in StagedPhase
        /\ UNCHANGED <<appl, applMarks, prepared, commands, results, retries>>
        /\ event' = event
        /\ \/ UNCHANGED device
           \/ device' = PutVersioned(device, event.ver, Members(b), Staged(event.ver, b))
    BY Zenon, <1>5, <1>d DEF ConfigDevice, streams, applVars, StagedPhase
  <2>2. \A c \in Conns : device'[c].ver <= appl[c].ver
    BY <1>b, <1>4, <2>1 DEF PutVersioned, Staged, DeviceOrder
  <2>3. PhaseOrder'
    BY Zenon, <1>b, <2>1 DEF PhaseOrder
  <2>4. QED
    BY Zenon, <1>a, <1>b, <2>1, <2>2, <2>3, OrderKept DEF StreamOrder
<1>6. CASE ConfigPublish
  <2> DEFINE k == [id |-> ConfigCommand(event.ver), batch |-> prepared[event.ver]]
  <2>1. /\ pc \in StagedPhase /\ pc' = "configAck"
        /\ UNCHANGED <<appl, applMarks, prepared, device, results, retries>>
        /\ commands' = commands \/ commands' = Append(commands, k)
    BY Zenon, <1>6 DEF ConfigPublish, PublishOnce, applVars, StagedPhase
  <2>2. k \in KnownCommands
    <3>1. event.ver \in Nat /\ prepared[event.ver] \in Batch
      BY Zenon, <1>a, <1>c, <1>4, <2>1 DEF OrchTypeOK, DeviceOK, Keyed
    <3>2. QED
      BY Zenon, <1>4, <2>1, <3>1 DEF KnownCommands, Command, ConfigCommand, CommandId
  <2> HIDE DEF k
  <2>3. commands' \in Seq(KnownCommands)
    BY <1>b, <2>1, <2>2, AppendKeepsHead, Zenon DEF StreamOrder
  <2>4. PhaseOrder'
    BY Zenon, <2>1 DEF PhaseOrder, StagedPhase
  <2>5. QED
    BY Zenon, <1>a, <1>b, <2>1, <2>3, <2>4, OrderQuiet DEF StreamOrder
<1>7. QED
  BY Zenon, <1>1, <1>2, <1>3, <1>5, <1>6

\* Each phase of processResultOne keeps the order: a result writes snapshots
\* at the version APPL_DB holds.
LEMMA ResultOrder ==
  ASSUME OrchInv, OrchInv', OrchOrderInv,
         \/ ResultIdle \/ ResultSkip \/ ResultResume \/ ResultDevice
         \/ ResultApplication \/ ResultClear \/ ResultClearCount \/ ResultAck
  PROVE  OrchOrderInv' /\ ApplGrows
<1>a. OrchTypeOK /\ OrchTypeOK' /\ PhaseOK
  BY Zenon DEF OrchInv
<1>b. /\ StreamOrder /\ DeviceOrder
      /\ \A c \in Conns : appl[c].ver \in Nat
  BY Zenon, <1>a DEF OrchOrderInv, OrchTypeOK, ApplOK, App
<1>c. results # <<>> => /\ result \in KnownResults /\ result.conn \in Conns
                        /\ Tail(results) \in Seq(KnownResults)
  <2>1. results # <<>> => result \in KnownResults /\ Tail(results) \in Seq(KnownResults)
    BY Zenon, <1>b, HeadTail DEF result, StreamOrder
  <2>2. QED
    BY Zenon, <2>1 DEF KnownResults, Result
<1>d. pc \in ResultPhase => results # <<>>
  BY Zenon, <1>a DEF PhaseOK, ResultPhaseOK
<1>1. CASE \/ ResultIdle \/ ResultResume \/ ResultClear \/ ResultClearCount
  <2>1. /\ UNCHANGED <<appl, applMarks, prepared, device, commands, results, retries>>
        /\ pc' \in {"retry", "resultClear", "resultClearCount", "resultAck"}
    BY Zenon, <1>1 DEF ResultIdle, ResultResume, ResultClear, ResultClearCount,
       AfterResult, streams, applVars, deviceVars
  <2>2. PhaseOrder'
    BY Zenon, <2>1 DEF PhaseOrder, StagedPhase
  <2>3. QED
    BY Zenon, <1>a, <1>b, <2>1, <2>2, OrderQuiet DEF StreamOrder
<1>2. CASE ResultSkip \/ ResultAck
  <2>1. /\ UNCHANGED <<appl, applMarks, prepared, device, commands, retries>>
        /\ results # <<>> /\ results' = Tail(results) /\ pc' = "retry"
    BY Zenon, <1>2, <1>d
       DEF ResultSkip, ResultAck, ResultClaimed, ResultPhase, applVars,
       deviceVars
  <2>2. PhaseOrder'
    BY Zenon, <2>1 DEF PhaseOrder, StagedPhase
  <2>3. QED
    BY Zenon, <1>a, <1>b, <1>c, <2>1, <2>2, OrderQuiet DEF StreamOrder
<1>3. CASE ResultDevice
  <2> DEFINE r == result
             a == appl[r.conn]
             w == IF NextStatus(a, r) = "ABSENT" THEN NoApp ELSE Resolved(a, r)
  <2>1. /\ UNCHANGED <<appl, applMarks, prepared, commands, results, retries>>
        /\ results # <<>> /\ pc' \in {"resultExit", "resultApplication"}
        /\ \/ UNCHANGED device
           \/ device' = PutVersioned(device, r.ver, {r.conn}, [c \in {r.conn} |-> w])
    BY Zenon, <1>3 DEF ResultDevice, ResultClaimed, streams, applVars
  <2>2. w.ver <= a.ver
    <3>1. a \in App
      BY Zenon, <1>a, <1>c, <2>1 DEF OrchTypeOK, ApplOK
    <3>2. w.ver = 0 \/ w.ver = a.ver
      BY Zenon, <3>1 DEF Resolved, NoApp, App
    <3>3. QED
      BY <3>1, <3>2 DEF App
  <2> HIDE DEF w
  <2>3. \A c \in Conns : device'[c].ver <= appl[c].ver
    BY Zenon, <1>b, <2>1, <2>2 DEF PutVersioned, DeviceOrder
  <2>4. PhaseOrder'
    BY Zenon, <2>1 DEF PhaseOrder, StagedPhase
  <2>5. QED
    BY Zenon, <1>a, <1>b, <2>1, <2>3, <2>4, OrderKept DEF StreamOrder
<1>4. CASE ResultApplication
  <2> DEFINE w == [c \in {result.conn} |-> Resolved(appl[c], result)]
             m == ResultMark(result)
  <2>1. /\ UNCHANGED <<prepared, device, commands, results, retries>>
        /\ results # <<>> /\ pc' \in {"resultClear", "resultAck"}
        /\ appl' = PutVersioned(appl, result.ver, {result.conn}, w)
        /\ applMarks' = applMarks \cup {m}
    BY Zenon, <1>4, <1>d
       DEF ResultApplication, AfterResult, ResultPhase, streams, deviceVars
  <2>2. appl \in [Conns -> App] /\ result.conn \in Conns
    BY Zenon, <1>a, <1>c, <2>1 DEF OrchTypeOK, ApplOK
  <2>3. \A c \in {result.conn} : w[c].ver = appl[c].ver
    BY Zenon, <2>2 DEF Resolved, App
  <2>4. \A v \in Nat : m # <<"application", v>>
    BY Zenon DEF ResultMark
  <2> HIDE DEF w, m
  <2>5. ApplGrows
    BY <2>1, <2>2, <2>3, PutSameVersion
  <2>6. PhaseOrder'
    BY Zenon, <2>1 DEF PhaseOrder, StagedPhase
  <2>7. QED
    BY Zenon, <1>a, <2>1, <2>4, <2>5, <2>6, OrderGrown
<1>5. QED
  BY Zenon, <1>1, <1>2, <1>3, <1>4

\* Each phase of handleTimeoutResult keeps the order: a retry repeats the batch
\* of the command that timed out.
LEMMA TimeoutOrder ==
  ASSUME OrchInv, OrchInv', OrchOrderInv,
         \/ TimeoutDevice \/ TimeoutApplication
         \/ \E c \in Conns : TimeoutAlarm(c) \/ TimeoutCount(c)
         \/ TimeoutRetry
  PROVE  OrchOrderInv' /\ ApplGrows
<1>a. OrchTypeOK /\ OrchTypeOK' /\ PhaseOK
  BY Zenon DEF OrchInv
<1>b. /\ StreamOrder /\ DeviceOrder
      /\ appl \in [Conns -> App] /\ \A c \in Conns : appl[c].ver \in Nat
  BY Zenon, <1>a DEF OrchOrderInv, OrchTypeOK, ApplOK, App
<1>c. results # <<>> => result \in KnownResults /\ result \in Result
  BY Zenon, <1>b, HeadTail DEF result, StreamOrder, KnownResults
<1>d. pc \in ResultPhase => results # <<>>
  BY Zenon, <1>a DEF PhaseOK, ResultPhaseOK
<1>e. ASSUME NEW b, NEW d
      PROVE  \A c \in Members(b) : TimedOut(b, d)[c].ver = appl[c].ver
  BY <1>b, Zenon DEF TimedOut, App, Members
<1>1. CASE TimeoutDevice
  <2>1. /\ UNCHANGED <<appl, applMarks, prepared, commands, results, retries>>
        /\ pc' \in {"resultAck", "timeoutApplication"}
    <3>1. UNCHANGED streams /\ UNCHANGED applVars /\ UNCHANGED prepared
      BY Zenon, <1>1 DEF TimeoutDevice
    <3>2. pc' = "resultAck" \/ pc' = "timeoutApplication"
      BY <1>1, Zenon DEF TimeoutDevice
    <3>3. QED
      BY Zenon, <3>1, <3>2 DEF streams, applVars
  <2>2. \A c \in Conns : device'[c].ver <= appl[c].ver
    <3>1. CASE UNCHANGED device
      BY Zenon, <1>b, <3>1 DEF DeviceOrder
    <3>2. CASE \E d : device' = PutVersioned(device, result.ver,
                        Members(result.batch), TimedOut(result.batch, d))
      BY <1>b, <1>e, <3>2 DEF PutVersioned, DeviceOrder
    <3>3. QED
      BY Zenon, <1>1, <3>1, <3>2 DEF TimeoutDevice
  <2>3. PhaseOrder'
    BY Zenon, <2>1 DEF PhaseOrder, StagedPhase
  <2>4. QED
    BY Zenon, <1>a, <1>b, <2>1, <2>2, <2>3, OrderKept DEF StreamOrder
<1>2. CASE TimeoutApplication
  <2>1. /\ UNCHANGED <<applMarks, prepared, device, commands, results, retries>>
        /\ pc' = "timeoutAlarm"
        /\ \/ UNCHANGED appl
           \/ appl' = PutVersioned(appl, result.ver, Members(result.batch),
                        TimedOut(result.batch, StoredDecision(result.id)))
    BY Zenon, <1>2 DEF TimeoutApplication, streams, deviceVars
  <2>2. PhaseOrder'
    BY Zenon, <2>1 DEF PhaseOrder, StagedPhase
  <2>3. ApplGrows
    <3>1. CASE UNCHANGED appl
      BY <1>b, <3>1 DEF ApplGrows
    <3>2. CASE appl' = PutVersioned(appl, result.ver, Members(result.batch),
                         TimedOut(result.batch, StoredDecision(result.id)))
      <4>1. Members(result.batch) \in SUBSET Conns
        BY Zenon DEF Members
      <4>2. QED
        BY <1>b, <1>e, <3>2, <4>1, PutSameVersion
    <3>3. QED
      BY Zenon, <2>1, <3>1, <3>2
  <2>4. QED
    BY Zenon, <1>a, <2>1, <2>2, <2>3, OrderGrown
<1>3. ASSUME NEW c \in Conns, TimeoutAlarm(c) \/ TimeoutCount(c)
      PROVE  OrchOrderInv' /\ ApplGrows
  <2>1. /\ UNCHANGED <<appl, applMarks, prepared, device, commands, results, retries>>
        /\ pc' \in {"timeoutAlarm", "timeoutCount", "timeoutRetry"}
    BY Zenon, <1>3 DEF TimeoutAlarm, TimeoutCount, streams, applVars, deviceVars
  <2>2. PhaseOrder'
    BY Zenon, <2>1 DEF PhaseOrder, StagedPhase
  <2>3. QED
    BY Zenon, <1>a, <1>b, <2>1, <2>2, OrderQuiet DEF StreamOrder
<1>4. CASE TimeoutRetry
  <2> DEFINE d == StoredDecision(result.id)
             q == [id |-> result.id, att |-> d.att, ver |-> result.ver,
                   batch |-> result.batch]
  <2>1. /\ UNCHANGED <<appl, applMarks, prepared, device, commands, results>>
        /\ results # <<>> /\ pc' = "resultAck" /\ TimeoutDecided(result.id)
        /\ retries' = retries \/ retries' = Append(retries, q)
    <3>1. pc = "timeoutRetry"
      BY Zenon, <1>4 DEF TimeoutRetry
    <3>2. results # <<>> /\ TimeoutDecided(result.id)
      BY Zenon, <1>a, <1>d, <3>1 DEF ResultPhase, PhaseOK, ResultPhaseOK, TimeoutPhase
    <3>3. QED
      BY Zenon, <1>4, <3>2 DEF TimeoutRetry, applVars
  <2>2. q \in KnownRetries
    <3>1. d \in Decision
      BY Zenon, <1>a, <2>1, StoredDecisionType DEF OrchTypeOK, ApplOK, DeviceOK
    <3>2. d.att \in Nat
      BY Zenon, <3>1 DEF Decision
    <3> HIDE DEF d
    <3>3. QED
      BY Zenon, <1>c, <2>1, <3>2 DEF KnownRetries, KnownResults, Retry, Result
  <2> HIDE DEF q
  <2>3. retries' \in Seq(KnownRetries)
    BY <1>b, <2>1, <2>2, AppendKeepsHead, Zenon DEF StreamOrder
  <2>4. PhaseOrder'
    BY Zenon, <2>1 DEF PhaseOrder, StagedPhase
  <2>5. QED
    BY Zenon, <1>a, <1>b, <2>1, <2>3, <2>4, OrderQuiet DEF StreamOrder
<1>5. QED
  BY Zenon, <1>1, <1>2, <1>3, <1>4

\* Each phase of processRetryOne keeps the order: it writes at the version
\* APPL_DB holds and repeats a batch APPL_DB has reached.
LEMMA RetryOrder ==
  ASSUME OrchInv, OrchInv', OrchOrderInv,
         \/ RetryIdle \/ RetrySkip \/ RetryApplication \/ RetryDevice
         \/ RetryPublish \/ RetryAck
  PROVE  OrchOrderInv' /\ ApplGrows
<1>a. OrchTypeOK /\ OrchTypeOK' /\ PhaseOK
  BY Zenon DEF OrchInv
<1>b. /\ StreamOrder /\ DeviceOrder
      /\ appl \in [Conns -> App] /\ \A c \in Conns : appl[c].ver \in Nat
  BY Zenon, <1>a DEF OrchOrderInv, OrchTypeOK, ApplOK, App
<1>c. retries # <<>> => /\ retry \in KnownRetries /\ retry \in Retry
                        /\ Tail(retries) \in Seq(KnownRetries)
  BY Zenon, <1>b, HeadTail DEF retry, StreamOrder, KnownRetries
<1>d. pc \in RetryPhase => retries # <<>>
  BY Zenon, <1>a DEF PhaseOK, RetryPhaseOK
<1>e. \A c \in Members(retry.batch) : Retried(retry)[c].ver = appl[c].ver
  BY <1>b, Zenon DEF Retried, App, Members
<1>1. CASE RetryIdle
  <2>1. /\ UNCHANGED <<appl, applMarks, prepared, device, commands, results, retries>>
        /\ pc' = "config"
    BY Zenon, <1>1 DEF RetryIdle, streams, applVars, deviceVars
  <2>2. PhaseOrder'
    BY Zenon, <2>1 DEF PhaseOrder, StagedPhase
  <2>3. QED
    BY Zenon, <1>a, <1>b, <2>1, <2>2, OrderQuiet DEF StreamOrder
<1>2. CASE RetrySkip \/ RetryAck
  <2>1. /\ UNCHANGED <<appl, applMarks, prepared, device, commands, results>>
        /\ retries # <<>> /\ retries' = Tail(retries) /\ pc' = "config"
    BY Zenon, <1>2, <1>d DEF RetrySkip, RetryAck, RetryPhase, applVars, deviceVars
  <2>2. PhaseOrder'
    BY Zenon, <2>1 DEF PhaseOrder, StagedPhase
  <2>3. QED
    BY Zenon, <1>a, <1>b, <1>c, <2>1, <2>2, OrderQuiet DEF StreamOrder
<1>3. CASE RetryApplication
  <2> DEFINE m == <<"retryApplication", retry.id>>
  <2>1. /\ UNCHANGED <<prepared, device, commands, results, retries>>
        /\ pc' = "retryDevice"
        /\ \/ UNCHANGED <<appl, applMarks>>
           \/ /\ appl' = PutVersioned(appl, retry.ver, Members(retry.batch),
                                      Retried(retry))
              /\ applMarks' = applMarks \cup {m}
    BY Zenon, <1>3 DEF RetryApplication, streams, deviceVars
  <2>2. PhaseOrder'
    BY Zenon, <2>1 DEF PhaseOrder, StagedPhase
  <2>3. \A v \in Nat : m # <<"application", v>>
    BY Zenon
  <2> HIDE DEF m
  <2>4. ApplGrows
    <3>1. Members(retry.batch) \in SUBSET Conns
      BY Zenon DEF Members
    <3>2. CASE UNCHANGED appl
      BY <1>b, <3>2 DEF ApplGrows
    <3>3. QED
      BY Zenon, <1>b, <1>e, <2>1, <3>1, <3>2, PutSameVersion
  <2>5. QED
    BY Zenon, <1>a, <2>1, <2>2, <2>3, <2>4, OrderGrown
<1>4. CASE RetryDevice
  <2>1. /\ UNCHANGED <<appl, applMarks, prepared, commands, results, retries>>
        /\ pc' = "retryCommand"
        /\ \/ UNCHANGED device
           \/ device' = PutVersioned(device, retry.ver, Members(retry.batch),
                                     Retried(retry))
    BY Zenon, <1>4 DEF RetryDevice, streams, applVars
  <2>2. \A c \in Conns : device'[c].ver <= appl[c].ver
    BY <1>b, <1>e, <2>1 DEF PutVersioned, DeviceOrder
  <2>3. PhaseOrder'
    BY Zenon, <2>1 DEF PhaseOrder, StagedPhase
  <2>4. QED
    BY Zenon, <1>a, <1>b, <2>1, <2>2, <2>3, OrderKept DEF StreamOrder
<1>5. CASE RetryPublish
  <2> DEFINE k == [id |-> RetryCommand(retry.id), batch |-> retry.batch]
  <2>1. /\ UNCHANGED <<appl, applMarks, prepared, device, results, retries>>
        /\ retries # <<>> /\ pc' = "retryAck"
        /\ commands' = commands \/ commands' = Append(commands, k)
    BY Zenon, <1>5, <1>d DEF RetryPublish, PublishOnce, RetryPhase, applVars
  <2>2. k \in KnownCommands
    <3>1. RetryCommand(retry.id) \in CommandId
      BY Zenon, <1>c, <2>1, RetryCommandType DEF Retry
    <3>2. QED
      BY Zenon, <1>c, <2>1, <3>1 DEF KnownCommands, KnownRetries, Command, Retry
  <2> HIDE DEF k
  <2>3. commands' \in Seq(KnownCommands)
    BY <1>b, <2>1, <2>2, AppendKeepsHead, Zenon DEF StreamOrder
  <2>4. PhaseOrder'
    BY Zenon, <2>1 DEF PhaseOrder, StagedPhase
  <2>5. QED
    BY Zenon, <1>a, <1>b, <2>1, <2>3, <2>4, OrderQuiet DEF StreamOrder
<1>6. QED
  BY Zenon, <1>1, <1>2, <1>3, <1>4, <1>5

\* A restart of orch, and the passing of time, keep the order.
LEMMA ProcessOrder ==
  ASSUME OrchInv, OrchOrderInv,
         \/ Restart \/ BackoffElapses
         \/ \E s \in {"config", "result"} : IdleTimeElapses(s)
  PROVE  OrchOrderInv' /\ ApplGrows
<1>a. OrchTypeOK
  BY Zenon DEF OrchInv
<1>b. StreamOrder /\ PhaseOrder
  BY Zenon DEF OrchOrderInv
<1>1. /\ UNCHANGED <<configEvents, commands, results, retries, appl, applMarks,
                     prepared, device>>
      /\ pc' = "config" \/ UNCHANGED pc
  <2>1. CASE Restart
    BY Zenon, <2>1 DEF Restart, streams, applVars, deviceVars
  <2>2. CASE BackoffElapses
    BY Zenon, <2>2 DEF BackoffElapses, streams, applVars, deviceVars
  <2>3. ASSUME NEW s, IdleTimeElapses(s)
        PROVE  /\ UNCHANGED <<configEvents, commands, results, retries, appl,
                              applMarks, prepared, device>>
               /\ UNCHANGED pc
    BY Zenon, <2>3 DEF IdleTimeElapses, streams, applVars, deviceVars
  <2>4. QED
    BY Zenon, <2>1, <2>2, <2>3
<1>2. PhaseOrder'
  BY Zenon, <1>b, <1>1 DEF PhaseOrder, StagedPhase, event
<1>3. QED
  BY Zenon, <1>a, <1>b, <1>1, <1>2, OrderQuiet DEF StreamOrder

-----------------------------------------------------------------------------
\* The command whose retry id is.
Before(id) == [id EXCEPT !.try = @ - 1]

\* The marker with which orch publishes command id is set.
Marked(id) ==
  \/ IsRecovery(id)
  \/ id.try = 0 /\ <<"command", id.n>> \in deviceMarks
  \/ id.try # 0 /\ <<"retryCommand", Before(id)>> \in deviceMarks

\* A command of orch is for the batch prepared under its version.
OfBatch(id, b) == ~IsRecovery(id) => id.n \in DOMAIN prepared /\ b = prepared[id.n]

SentCommands ==
  {k \in Command : Marked(k.id) /\ OfBatch(k.id, k.batch) /\ k.id.try <= MaxRetries}
SentResults ==
  {r \in Result : /\ Marked(r.id) /\ OfBatch(r.id, r.batch)
                  /\ r.conn \in Members(r.batch) /\ r.ver = r.batch[r.conn].ver}
SentRetries ==
  {q \in Retry : /\ ~IsRecovery(q.id) /\ Marked(q.id) /\ OfBatch(q.id, q.batch)
                 /\ q.ver = q.id.n /\ q.id.try < q.att /\ q.att <= MaxRetries}

StreamSent ==
  /\ commands \in Seq(SentCommands) /\ results \in Seq(SentResults)
  /\ retries \in Seq(SentRetries)

\* A snapshot of connection c: its command is of its version, and retried at
\* most as often as it has been attempted.
Snapshot(c, a) ==
  /\ ~IsRecovery(a.cmd) /\ a.cmd.n = a.ver
  /\ a.ver # 0 => a.ver \in DOMAIN prepared /\ c \in Members(prepared[a.ver])
  /\ a.att <= MaxRetries /\ a.cmd.try <= MaxRetries
  /\ a.st \in InFlight => a.cmd.try <= a.att

ApplSent == \A c \in Conns : Snapshot(c, appl[c])

TimeoutWithin(id, d) ==
  ~IsRecovery(id) /\ Marked(id) /\ d.att <= MaxRetries /\ (d.retry => id.try < d.att)

TimeoutSent ==
  /\ \A id \in DOMAIN applTimeout : TimeoutWithin(id, applTimeout[id])
  /\ \A id \in DOMAIN deviceTimeout : TimeoutWithin(id, deviceTimeout[id])

\* APPL_DB is written before the command is published.
CommandMarks ==
  \A v \in Nat : <<"command", v>> \in deviceMarks => <<"application", v>> \in applMarks

\* A command that was retried is the current one of no connection.
RetryMarks ==
  \A id \in CommandId : <<"retryApplication", id>> \in applMarks =>
    ~IsRecovery(id) /\ Marked(id) /\ \A c \in Conns : appl[c].cmd # id

\* A batch that is in APPL_DB and not yet published is that of the first
\* event, and the current one of all its members.
StagedMarks ==
  \A v \in Nat : (<<"application", v>> \in applMarks /\ <<"command", v>> \notin deviceMarks) =>
    /\ configEvents # <<>> /\ event.ver = v
    /\ \A c \in Members(prepared[v]) : Runs(c, ConfigCommand(v), v)

\* Events come in the order of their versions, and none is behind APPL_DB.
EventSent ==
  /\ \A i \in 1 .. Len(configEvents) :
       configEvents[i].ver # 0 /\ \A c \in Conns : appl[c].ver <= configEvents[i].ver
  /\ \A i, j \in 1 .. Len(configEvents) :
       i < j => configEvents[i].ver < configEvents[j].ver
  /\ 0 \notin DOMAIN prepared

\* What the phases in progress rely on.
RetryingPhase == {"retryDevice", "retryCommand"}
PhaseSent ==
  /\ pc = "configAck" => <<"command", event.ver>> \in deviceMarks
  /\ pc \in RetryingPhase =>
       \A c \in Members(retry.batch) : Runs(c, RetryCommand(retry.id), retry.batch[c].ver)

SentInv ==
  /\ StreamSent /\ ApplSent /\ TimeoutSent
  /\ CommandMarks /\ RetryMarks /\ StagedMarks /\ EventSent /\ PhaseSent

-----------------------------------------------------------------------------
(* What a step of orch does for the others to see. *)

\* Markers and prepared batches stay.
MarksGrow ==
  /\ deviceMarks \subseteq deviceMarks'
  /\ \A v \in DOMAIN prepared : v \in DOMAIN prepared' /\ prepared'[v] = prepared[v]

\* A command that is published was not marked before, and is the current one
\* of every member of its batch.
PublishesCurrent ==
  \/ commands' = commands
  \/ \E k \in Command :
       /\ commands' = Append(commands, k)
       /\ ~IsRecovery(k.id) /\ ~Marked(k.id)
       /\ \A c \in Members(k.batch) : Runs(c, k.id, k.batch[c].ver)

\* APPL_DB takes its versions from the first event.
FollowsEvents ==
  /\ configEvents' = configEvents \/ (configEvents # <<>> /\ configEvents' = Tail(configEvents))
  /\ \A c \in Conns : \/ appl'[c].ver = appl[c].ver
                      \/ configEvents # <<>> /\ appl'[c].ver = event.ver

SentStep == MarksGrow /\ PublishesCurrent /\ FollowsEvents

-----------------------------------------------------------------------------
(* Lemmas *)

\* A retry is told from the command it retries, and from a first attempt.
LEMMA RetryIds ==
  ASSUME NEW id \in CommandId
  PROVE  /\ RetryCommand(id) \in CommandId /\ Before(RetryCommand(id)) = id
         /\ RetryCommand(id).try # 0 /\ RetryCommand(id).n = id.n
         /\ RetryCommand(id).try = id.try + 1
         /\ IsRecovery(RetryCommand(id)) <=> IsRecovery(id)
         /\ RetryCommand(id) # id
         /\ Marked(RetryCommand(id)) <=>
              IsRecovery(id) \/ <<"retryCommand", id>> \in deviceMarks
<1>1. /\ RetryCommand(id) \in CommandId
      /\ RetryCommand(id).src = id.src /\ RetryCommand(id).n = id.n
      /\ RetryCommand(id).try = id.try + 1
  BY Zenon, RetryCommandType
<1>2. id.try \in Nat /\ id = [src |-> id.src, n |-> id.n, try |-> id.try]
  BY Zenon DEF CommandId
<1>3. Before(RetryCommand(id)) = id
  <2> DEFINE r == RetryCommand(id)
  <2>1. r = [src |-> r.src, n |-> r.n, try |-> r.try]
    BY Zenon, <1>1 DEF CommandId
  <2> HIDE DEF r
  <2>2. Before(r) = [src |-> r.src, n |-> r.n, try |-> r.try - 1]
    BY <2>1 DEF Before
  <2>3. r.try - 1 = id.try
    BY <1>1, <1>2 DEF r
  <2>4. Before(r) = [src |-> id.src, n |-> id.n, try |-> id.try]
    BY Zenon, <1>1, <2>2, <2>3 DEF r
  <2> QED BY Zenon, <1>2, <2>4 DEF r
<1>4. RetryCommand(id).try # 0 /\ RetryCommand(id) # id
  BY <1>1, <1>2
<1>5. IsRecovery(RetryCommand(id)) <=> IsRecovery(id)
  BY Zenon, <1>1 DEF IsRecovery
<1>6. Marked(RetryCommand(id)) <=> IsRecovery(id) \/ <<"retryCommand", id>> \in deviceMarks
  BY Zenon, <1>3, <1>4, <1>5 DEF Marked
<1>7. QED
  BY Zenon, <1>1, <1>3, <1>4, <1>5, <1>6

\* A first attempt is marked by its version.
LEMMA ConfigIds ==
  ASSUME NEW v \in Nat
  PROVE  /\ ConfigCommand(v) \in CommandId /\ ~IsRecovery(ConfigCommand(v))
         /\ ConfigCommand(v).n = v /\ ConfigCommand(v).try = 0
         /\ Marked(ConfigCommand(v)) <=> <<"command", v>> \in deviceMarks
         /\ \A id \in CommandId : RetryCommand(id) # ConfigCommand(v)
<1>1. /\ ConfigCommand(v) \in CommandId /\ ~IsRecovery(ConfigCommand(v))
      /\ ConfigCommand(v).n = v /\ ConfigCommand(v).try = 0
  BY Zenon DEF ConfigCommand, CommandId, IsRecovery
<1>2. QED
  BY Zenon, <1>1, RetryIds DEF Marked

\* A marker that is set stays set.
LEMMA MarkedGrows ==
  ASSUME MarksGrow, NEW id, Marked(id)
  PROVE  Marked(id)'
  BY Zenon DEF MarksGrow, Marked

\* So a stream entry that was sent stays one.
LEMMA StreamsStaySent ==
  ASSUME MarksGrow, StreamSent
  PROVE  /\ commands \in Seq(SentCommands') /\ results \in Seq(SentResults')
         /\ retries \in Seq(SentRetries')
<1>1. \A id, b : OfBatch(id, b) => OfBatch(id, b)'
  BY Zenon DEF MarksGrow, OfBatch
<1>2. SentCommands \subseteq SentCommands'
  BY Zenon, <1>1, MarkedGrows DEF SentCommands
<1>3. SentResults \subseteq SentResults'
  BY Zenon, <1>1, MarkedGrows DEF SentResults
<1>4. SentRetries \subseteq SentRetries'
  BY Zenon, <1>1, MarkedGrows DEF SentRetries
<1>5. QED
  BY Zenon, <1>2, <1>3, <1>4, SeqMono DEF StreamSent

\* And so does a decision.
LEMMA TimeoutStays ==
  ASSUME MarksGrow, NEW id, NEW d, TimeoutWithin(id, d)
  PROVE  TimeoutWithin(id, d)'
  BY Zenon, MarkedGrows DEF TimeoutWithin

\* A step that leaves APPL_DB, the events and the prepared batches alone, and
\* publishes no first attempt.
LEMMA SentQuiet ==
  ASSUME SentInv, MarksGrow, UNCHANGED <<appl, applMarks, prepared, configEvents>>,
         \A v \in Nat : <<"command", v>> \in deviceMarks' => <<"command", v>> \in deviceMarks,
         StreamSent', TimeoutSent', PhaseSent'
  PROVE  SentInv' /\ FollowsEvents
<1>1. ApplSent'
  BY Zenon DEF SentInv, ApplSent, Snapshot, Members
<1>2. CommandMarks'
  BY Zenon DEF SentInv, CommandMarks
<1>3. RetryMarks'
  BY Zenon, MarkedGrows DEF SentInv, RetryMarks
<1>4. StagedMarks'
  <2>1. event' = event
    BY Zenon DEF event
  <2> SUFFICES ASSUME NEW v \in Nat, <<"application", v>> \in applMarks,
                      <<"command", v>> \notin deviceMarks'
               PROVE  /\ configEvents # <<>> /\ event.ver = v
                      /\ \A c \in Members(prepared[v]) : Runs(c, ConfigCommand(v), v)'
    BY Zenon, <2>1 DEF StagedMarks, Members
  <2>2. <<"command", v>> \notin deviceMarks
    BY Zenon DEF MarksGrow
  <2> QED BY Zenon, <2>2 DEF SentInv, StagedMarks, Runs
<1>5. EventSent'
  BY Zenon DEF SentInv, EventSent
<1>6. FollowsEvents
  BY Zenon DEF FollowsEvents
<1>7. QED
  BY Zenon, <1>1, <1>2, <1>3, <1>4, <1>5, <1>6 DEF SentInv

\* A step that moves only orch's own place.
LEMMA SentRest ==
  ASSUME SentInv, UNCHANGED <<appl, applMarks, applTimeout, deviceMarks, deviceTimeout,
                              prepared, configEvents, commands, results, retries>>,
         pc' = pc \/ (pc' # "configAck" /\ pc' \notin RetryingPhase)
  PROVE  SentInv' /\ SentStep
<1>1. MarksGrow
  BY Zenon DEF MarksGrow
<1>2. StreamSent'
  BY Zenon, <1>1, StreamsStaySent DEF SentInv, StreamSent
<1>3. TimeoutSent'
  BY Zenon DEF SentInv, TimeoutSent, TimeoutWithin, Marked
<1>4. PhaseSent'
  BY Zenon DEF SentInv, PhaseSent, event, retry, Members, Runs
<1>5. SentInv' /\ FollowsEvents
  BY Zenon, <1>1, <1>2, <1>3, <1>4, SentQuiet
<1>6. QED
  BY Zenon, <1>1, <1>5 DEF SentStep, PublishesCurrent

\* A write of APPL_DB that moves no version and no command.
LEMMA SentSettled ==
  ASSUME OrchTypeOK, OrchTypeOK', SentInv,
         UNCHANGED <<deviceMarks, deviceTimeout, prepared, configEvents, commands,
                     results, retries>>,
         \A c \in Conns : appl'[c].ver = appl[c].ver /\ appl'[c].cmd = appl[c].cmd,
         \A c \in Conns : appl'[c].att <= MaxRetries,
         \A c \in Conns : appl'[c].st \in InFlight => appl'[c].cmd.try <= appl'[c].att,
         \A v \in Nat : <<"application", v>> \in applMarks' <=> <<"application", v>> \in applMarks,
         \A id \in CommandId : <<"retryApplication", id>> \in applMarks' =>
                               <<"retryApplication", id>> \in applMarks,
         TimeoutSent', pc' # "configAck" /\ pc' \notin RetryingPhase
  PROVE  SentInv' /\ SentStep
<1>1. MarksGrow
  BY Zenon DEF MarksGrow
<1>2. StreamSent'
  BY Zenon, <1>1, StreamsStaySent DEF SentInv, StreamSent
<1>3. PhaseSent'
  BY Zenon DEF PhaseSent
<1>4. ApplSent'
  BY Zenon DEF SentInv, ApplSent, Snapshot, Members
<1>5. CommandMarks'
  BY Zenon DEF SentInv, CommandMarks
<1>6. RetryMarks'
  BY Zenon, <1>1, MarkedGrows DEF SentInv, RetryMarks
<1>7. StagedMarks'
  BY DEF SentInv, StagedMarks, event, Members, Runs
<1>8. EventSent'
  BY Zenon DEF SentInv, EventSent
<1>9. FollowsEvents
  BY Zenon DEF FollowsEvents
<1>10. QED
  BY Zenon, <1>1, <1>2, <1>3, <1>4, <1>5, <1>6, <1>7, <1>8, <1>9
     DEF SentInv, SentStep, PublishesCurrent
\* The first event: its version is known to be positive, and to be behind no
\* snapshot and no other event.
LEMMA FirstEvent ==
  ASSUME OrchTypeOK, EventSent, configEvents # <<>>
  PROVE  /\ event \in ConfigEvent /\ event.ver \in Nat \ {0}
         /\ \A c \in Conns : appl[c].ver <= event.ver
         /\ \A i \in 1 .. Len(configEvents) : event.ver <= configEvents[i].ver
<1>1. configEvents \in Seq(ConfigEvent)
  BY Zenon DEF OrchTypeOK, StreamsOK
<1>2. event = configEvents[1] /\ 1 \in 1 .. Len(configEvents) /\ event \in ConfigEvent
  BY <1>1 DEF event
<1>3. \A i \in 1 .. Len(configEvents) : configEvents[i].ver \in Nat
  <2>1. \A i \in 1 .. Len(configEvents) : configEvents[i] \in ConfigEvent
    BY <1>1
  <2> QED BY Zenon, <2>1 DEF ConfigEvent
<1>4. QED
  BY <1>2, <1>3 DEF EventSent

\* Acknowledging the first event, once it is published or was never staged.
LEMMA SentAcknowledged ==
  ASSUME OrchTypeOK, SentInv, configEvents # <<>>, configEvents' = Tail(configEvents),
         <<"application", event.ver>> \in applMarks => <<"command", event.ver>> \in deviceMarks,
         UNCHANGED <<appl, applMarks, applTimeout, deviceMarks, deviceTimeout,
                     prepared, commands, results, retries>>,
         pc' = "result"
  PROVE  SentInv' /\ SentStep
<1>1. MarksGrow
  BY Zenon DEF MarksGrow
<1>2. StreamSent'
  BY Zenon, <1>1, StreamsStaySent DEF SentInv, StreamSent
<1>3. TimeoutSent'
  BY Zenon DEF SentInv, TimeoutSent, TimeoutWithin, Marked
<1>4. PhaseSent'
  BY Zenon DEF PhaseSent, RetryingPhase
<1>5. ApplSent'
  BY Zenon DEF SentInv, ApplSent, Snapshot, Members
<1>6. CommandMarks' /\ RetryMarks'
  BY Zenon, <1>1, MarkedGrows DEF SentInv, CommandMarks, RetryMarks
<1>7. StagedMarks'
  BY Zenon DEF SentInv, StagedMarks
<1>8. EventSent'
  <2>1. configEvents \in Seq(ConfigEvent)
    BY Zenon DEF OrchTypeOK, StreamsOK
  <2>2. /\ Len(configEvents') = Len(configEvents) - 1 /\ Len(configEvents) \in Nat
        /\ \A i \in 1 .. Len(configEvents') :
             i + 1 \in 1 .. Len(configEvents) /\ configEvents'[i] = configEvents[i + 1]
    BY <2>1
  <2>3. \A i \in 1 .. Len(configEvents') :
          configEvents'[i].ver # 0 /\ \A c \in Conns : appl'[c].ver <= configEvents'[i].ver
    BY Zenon, <2>2 DEF SentInv, EventSent
  <2>4. ASSUME NEW i \in 1 .. Len(configEvents'), NEW j \in 1 .. Len(configEvents'), i < j
        PROVE  configEvents'[i].ver < configEvents'[j].ver
    <3>1. i + 1 < j + 1
      BY <2>4
    <3> QED BY Zenon, <2>2, <3>1 DEF SentInv, EventSent
  <2> QED BY Zenon, <2>3, <2>4 DEF SentInv, EventSent
<1>9. FollowsEvents
  BY Zenon DEF FollowsEvents
<1>10. QED
  BY Zenon, <1>1, <1>2, <1>3, <1>4, <1>5, <1>6, <1>7, <1>8, <1>9
     DEF SentInv, SentStep, PublishesCurrent

\* Preparing the batch of the first event.
LEMMA PrepareSent ==
  ASSUME OrchInv, OrchOrderInv, SentInv, ConfigPrepare
  PROVE  SentInv' /\ SentStep
<1>a. OrchTypeOK /\ PreparedOrder /\ EventSent
  BY Zenon DEF OrchInv, OrchOrderInv, SentInv
<1>1. /\ UNCHANGED <<appl, applMarks, applTimeout, deviceMarks, deviceTimeout, configEvents,
                     commands, results, retries>>
      /\ configEvents # <<>> /\ pc' = "configApplication"
      /\ \/ UNCHANGED prepared
         \/ /\ event.ver \notin DOMAIN prepared
            /\ prepared' = Put(prepared, event.ver, PreparedBatch(event))
  BY Zenon DEF ConfigPrepare, ConfigClaimed, streams, applVars
<1>2. CASE UNCHANGED prepared
  BY Zenon, <1>1, <1>2, SentRest DEF RetryingPhase
<1>3. CASE /\ event.ver \notin DOMAIN prepared
           /\ prepared' = Put(prepared, event.ver, PreparedBatch(event))
  <2>1. /\ DOMAIN prepared' = DOMAIN prepared \cup {event.ver}
        /\ \A v \in DOMAIN prepared : prepared'[v] = prepared[v]
    BY Zenon, <1>3 DEF Put
  <2>2. MarksGrow
    BY Zenon, <1>1, <2>1 DEF MarksGrow
  <2>3. StreamSent'
    BY Zenon, <1>1, <2>2, StreamsStaySent DEF SentInv, StreamSent
  <2>4. TimeoutSent'
    BY Zenon, <1>1 DEF SentInv, TimeoutSent, TimeoutWithin, Marked
  <2>5. PhaseSent'
    BY Zenon, <1>1 DEF PhaseSent, RetryingPhase
  <2>6. ApplSent'
    BY Zenon, <1>1, <2>1 DEF SentInv, ApplSent, Snapshot, Members
  <2>7. CommandMarks' /\ RetryMarks'
    BY Zenon, <1>1, <2>2, MarkedGrows DEF SentInv, CommandMarks, RetryMarks
  <2>8. StagedMarks'
    <3>1. event' = event
      BY Zenon, <1>1 DEF event
    <3> SUFFICES ASSUME NEW v \in Nat, <<"application", v>> \in applMarks,
                        <<"command", v>> \notin deviceMarks
                 PROVE  /\ configEvents # <<>> /\ event.ver = v
                        /\ \A c \in Members(prepared'[v]) : Runs(c, ConfigCommand(v), v)'
      BY Zenon, <1>1, <3>1 DEF StagedMarks, Members
    <3>2. prepared'[v] = prepared[v]
      BY Zenon, <1>a, <2>1 DEF PreparedOrder
    <3> QED BY Zenon, <1>1, <3>2 DEF SentInv, StagedMarks, Runs
  <2>9. EventSent'
    <3>1. event.ver # 0
      BY Zenon, <1>a, <1>1, FirstEvent
    <3> QED BY Zenon, <1>1, <2>1, <3>1 DEF SentInv, EventSent
  <2>10. FollowsEvents /\ PublishesCurrent
    BY Zenon, <1>1 DEF FollowsEvents, PublishesCurrent
  <2> QED
    BY Zenon, <2>2, <2>3, <2>4, <2>5, <2>6, <2>7, <2>8, <2>9, <2>10 DEF SentInv, SentStep
<1>4. QED
  BY Zenon, <1>1, <1>2, <1>3

\* Staging a batch in APPL_DB: since no snapshot is ahead of the first event,
\* every member takes its version and its command.
LEMMA ApplicationSent ==
  ASSUME OrchInv, OrchInv', OrchOrderInv, SentInv, ConfigApplication
  PROVE  SentInv' /\ SentStep
<1> DEFINE v == event.ver
           b == prepared[event.ver]
           m == <<"application", event.ver>>
<1>a. OrchTypeOK /\ OrchTypeOK' /\ PhaseOK /\ PreparedOrder /\ EventSent
  BY Zenon DEF OrchInv, OrchOrderInv, SentInv
<1>1. configEvents # <<>> /\ v \in DOMAIN prepared
  BY Zenon, <1>a DEF ConfigApplication, PhaseOK, ConfigPhaseOK, ConfigPhase
<1>2. /\ v \in Nat \ {0} /\ \A c \in Conns : appl[c].ver <= v
      /\ \A i \in 1 .. Len(configEvents) : v <= configEvents[i].ver
  BY Zenon, <1>a, <1>1, FirstEvent
<1>3. /\ UNCHANGED <<applTimeout, deviceMarks, deviceTimeout, prepared, configEvents,
                     commands, results, retries>>
      /\ pc' \in {"configExit", "configDevice"}
      /\ \/ UNCHANGED <<appl, applMarks>>
         \/ /\ m \notin applMarks /\ applMarks' = applMarks \cup {m}
            /\ appl' = PutVersioned(appl, v, Members(b), Staged(v, b))
  BY Zenon DEF ConfigApplication, streams, deviceVars
<1>4. CASE UNCHANGED <<appl, applMarks>>
  BY Zenon, <1>3, <1>4, SentRest DEF RetryingPhase
<1>5. CASE /\ m \notin applMarks /\ applMarks' = applMarks \cup {m}
           /\ appl' = PutVersioned(appl, v, Members(b), Staged(v, b))
  <2>1. \A c \in Members(b) : b[c].ver = v
    BY Zenon, <1>a, <1>1 DEF PreparedOrder, Members
  <2>2. ASSUME NEW c \in Conns
        PROVE  IF c \in Members(b)
               THEN /\ appl'[c].ver = v /\ appl'[c].cmd = ConfigCommand(v) /\ appl'[c].att = 0
               ELSE appl'[c] = appl[c]
    <3>1. CASE c \in Members(b)
      <4>1. appl'[c] = Staged(v, b)[c]
        BY Zenon, <1>2, <1>5, <3>1 DEF PutVersioned
      <4> QED BY <2>1, <3>1, <4>1 DEF Staged
    <3>2. CASE c \notin Members(b)
      BY Zenon, <1>5, <3>2 DEF PutVersioned
    <3> QED BY Zenon, <3>1, <3>2
  <2>3. MarksGrow
    BY Zenon, <1>3 DEF MarksGrow
  <2> HIDE DEF v, b, m
  <2>4. StreamSent'
    BY Zenon, <1>3, <2>3, StreamsStaySent DEF SentInv, StreamSent
  <2>5. TimeoutSent'
    BY Zenon, <1>3 DEF SentInv, TimeoutSent, TimeoutWithin, Marked
  <2>6. PhaseSent'
    BY Zenon, <1>3 DEF PhaseSent, RetryingPhase
  <2>7. ASSUME NEW c \in Conns PROVE Snapshot(c, appl[c])'
    <3>1. CASE c \in Members(b)
      <4>1. /\ ~IsRecovery(appl'[c].cmd) /\ appl'[c].cmd.n = v /\ appl'[c].cmd.try = 0
        BY Zenon, <1>2, <2>2, <3>1, ConfigIds
      <4>2. v \in DOMAIN prepared' /\ c \in Members(prepared'[v])
        BY Zenon, <1>1, <1>3, <3>1 DEF b, v
      <4> QED BY <2>2, <3>1, <4>1, <4>2, MaxRetriesAssumption DEF Snapshot, Members
    <3>2. CASE c \notin Members(b)
      BY Zenon, <1>3, <2>2, <3>2 DEF SentInv, ApplSent, Snapshot, Members
    <3> QED BY Zenon, <3>1, <3>2
  <2>8. ApplSent'
    BY Zenon, <2>7 DEF ApplSent
  <2>9. CommandMarks'
    BY Zenon, <1>3, <1>5 DEF SentInv, CommandMarks
  <2>10. RetryMarks'
    <3> SUFFICES ASSUME NEW id \in CommandId, <<"retryApplication", id>> \in applMarks'
                 PROVE  ~IsRecovery(id) /\ Marked(id)' /\ \A c \in Conns : appl'[c].cmd # id
      BY Zenon DEF RetryMarks
    <3>1. <<"retryApplication", id>> \in applMarks
      BY Zenon, <1>5 DEF m
    <3>2. ~IsRecovery(id) /\ Marked(id) /\ \A c \in Conns : appl[c].cmd # id
      BY Zenon, <3>1 DEF SentInv, RetryMarks
    <3>3. ConfigCommand(v) # id
      BY Zenon, <1>2, <1>5, <3>2, ConfigIds DEF SentInv, CommandMarks, m, v
    <3> QED BY Zenon, <2>2, <2>3, <3>2, <3>3, MarkedGrows
  <2>11. StagedMarks'
    <3>1. event' = event
      BY Zenon, <1>3 DEF event
    <3> SUFFICES ASSUME NEW w \in Nat, <<"application", w>> \in applMarks',
                        <<"command", w>> \notin deviceMarks
                 PROVE  /\ configEvents # <<>> /\ event.ver = w
                        /\ \A c \in Members(prepared[w]) : Runs(c, ConfigCommand(w), w)'
      BY Zenon, <1>3, <3>1 DEF StagedMarks, Members
    <3>2. w = v
      BY Zenon, <1>5 DEF SentInv, StagedMarks, m, v
    <3>3. \A c \in Members(b) : c \in Conns
      BY Zenon DEF Members
    <3> QED BY Zenon, <1>1, <1>2, <2>2, <3>2, <3>3 DEF Runs, b, v
  <2>12. EventSent'
    <3>1. \A c \in Conns : appl'[c].ver = v \/ appl'[c].ver = appl[c].ver
      BY Zenon, <2>2
    <3> QED BY Zenon, <1>2, <1>3, <3>1 DEF SentInv, EventSent
  <2>13. FollowsEvents /\ PublishesCurrent
    BY Zenon, <1>1, <1>3, <2>2 DEF FollowsEvents, PublishesCurrent, v
  <2> QED
    BY Zenon, <2>3, <2>4, <2>5, <2>6, <2>8, <2>9, <2>10, <2>11, <2>12, <2>13 DEF SentInv, SentStep
<1>6. QED
  BY Zenon, <1>3, <1>4, <1>5
\* A step that sets no marker of a first attempt and publishes nothing.
LEMMA SentMarked ==
  ASSUME SentInv,
         UNCHANGED <<appl, applMarks, applTimeout, prepared, configEvents, commands>>,
         deviceMarks \subseteq deviceMarks',
         \A v \in Nat : <<"command", v>> \in deviceMarks' => <<"command", v>> \in deviceMarks,
         results' \in Seq(SentResults'), retries' \in Seq(SentRetries'),
         (\A id \in DOMAIN deviceTimeout : TimeoutWithin(id, deviceTimeout[id]))',
         PhaseSent'
  PROVE  SentInv' /\ SentStep
<1>1. MarksGrow
  BY Zenon DEF MarksGrow
<1>2. StreamSent'
  BY Zenon, <1>1, StreamsStaySent DEF SentInv, StreamSent
<1>3. TimeoutSent'
  <2>1. \A id \in DOMAIN applTimeout : TimeoutWithin(id, applTimeout[id])
    BY Zenon DEF SentInv, TimeoutSent
  <2>2. \A id \in DOMAIN applTimeout' : TimeoutWithin(id, applTimeout'[id])
    BY Zenon, <2>1
  <2>3. \A id \in DOMAIN applTimeout' : Marked(id) => Marked(id)'
    BY Zenon, <1>1, MarkedGrows
  <2> QED BY Zenon, <2>2, <2>3 DEF TimeoutSent, TimeoutWithin
<1>4. SentInv' /\ FollowsEvents
  BY Zenon, <1>1, <1>2, <1>3, SentQuiet
<1>5. QED
  BY Zenon, <1>1, <1>4 DEF SentStep, PublishesCurrent

\* Publishing a first attempt: no marker of it was set, and every member of
\* the batch runs it.
LEMMA PublishSent ==
  ASSUME OrchInv, OrchInv', OrchOrderInv, SentInv, ConfigPublish
  PROVE  SentInv' /\ SentStep
<1> DEFINE v == event.ver
           m == <<"command", event.ver>>
           k == [id |-> ConfigCommand(event.ver), batch |-> prepared[event.ver]]
<1>a. OrchTypeOK /\ OrchTypeOK' /\ PhaseOK /\ PreparedOrder /\ EventSent /\ PhaseOrder
  BY Zenon DEF OrchInv, OrchOrderInv, SentInv
<1>1. /\ configEvents # <<>> /\ v \in DOMAIN prepared /\ <<"application", v>> \in applMarks
  BY Zenon, <1>a
     DEF ConfigPublish, PhaseOK, ConfigPhaseOK, ConfigPhase, PhaseOrder, StagedPhase
<1>2. v \in Nat \ {0} /\ prepared[v] \in Batch
  BY Zenon, <1>a, <1>1, FirstEvent DEF OrchTypeOK, DeviceOK, Keyed
<1>3. /\ UNCHANGED <<appl, applMarks, applTimeout, deviceTimeout, prepared, configEvents,
                     results, retries>>
      /\ pc' = "configAck"
      /\ \/ m \in deviceMarks /\ UNCHANGED <<commands, deviceMarks>>
         \/ /\ m \notin deviceMarks /\ deviceMarks' = deviceMarks \cup {m}
            /\ commands' = Append(commands, k)
  BY Zenon DEF ConfigPublish, PublishOnce, applVars
<1>4. /\ event' = event /\ m \in deviceMarks' /\ deviceMarks \subseteq deviceMarks'
  BY Zenon, <1>3 DEF event
<1>5. PhaseSent'
  BY Zenon, <1>3, <1>4 DEF PhaseSent, RetryingPhase
<1>6. MarksGrow
  BY Zenon, <1>3, <1>4 DEF MarksGrow
<1>7. TimeoutSent'
  BY Zenon, <1>3, <1>6, MarkedGrows DEF SentInv, TimeoutSent, TimeoutWithin
<1>8. /\ commands \in Seq(SentCommands') /\ results' \in Seq(SentResults')
      /\ retries' \in Seq(SentRetries')
  BY Zenon, <1>3, <1>6, StreamsStaySent DEF SentInv
<1>9. CASE m \in deviceMarks /\ UNCHANGED <<commands, deviceMarks>>
  <2>1. StreamSent'
    BY Zenon, <1>8, <1>9 DEF StreamSent
  <2> QED
    BY Zenon, <1>3, <1>5, <1>6, <1>7, <1>9, <2>1, SentQuiet DEF SentStep, PublishesCurrent
<1>10. CASE /\ m \notin deviceMarks /\ deviceMarks' = deviceMarks \cup {m}
            /\ commands' = Append(commands, k)
  <2>1. k \in Command /\ k.id = ConfigCommand(v) /\ k.batch = prepared[v]
    BY Zenon, <1>2, ConfigIds DEF Command
  <2>2. ~IsRecovery(k.id) /\ ~Marked(k.id) /\ k.id.n = v /\ k.id.try = 0
    BY Zenon, <1>2, <1>10, <2>1, ConfigIds
  <2>3. \A id : id = k.id => Marked(id)'
    BY Zenon, <1>4, <2>1, <2>2 DEF Marked
  <2> HIDE DEF k
  <2>4. k \in SentCommands'
    BY <1>1, <1>3, <2>1, <2>2, <2>3, MaxRetriesAssumption DEF SentCommands, OfBatch
  <2>5. commands' \in Seq(SentCommands')
    BY <1>8, <1>10, <2>4, AppendKeepsHead, Zenon
  <2>6. StreamSent'
    BY Zenon, <1>8, <2>5 DEF StreamSent
  <2>7. ApplSent' /\ EventSent'
    BY Zenon, <1>3 DEF SentInv, ApplSent, Snapshot, Members, EventSent
  <2>8. CommandMarks'
    BY Zenon, <1>1, <1>3, <1>10 DEF SentInv, CommandMarks
  <2>9. RetryMarks'
    BY Zenon, <1>3, <1>6, MarkedGrows DEF SentInv, RetryMarks
  <2>10. StagedMarks'
    BY Zenon, <1>3, <1>4 DEF SentInv, StagedMarks
  <2>11. \A c \in Members(k.batch) : Runs(c, k.id, k.batch[c].ver)
    <3>1. \A c \in Members(prepared[v]) : prepared[v][c].ver = v
      BY Zenon, <1>a, <1>1 DEF PreparedOrder, Members
    <3>2. \A c \in Members(prepared[v]) : Runs(c, ConfigCommand(v), v)
      BY Zenon, <1>1, <1>2, <1>10 DEF SentInv, StagedMarks
    <3> QED BY Zenon, <2>1, <3>1, <3>2
  <2>12. PublishesCurrent /\ FollowsEvents
    BY Zenon, <1>3, <1>10, <2>1, <2>2, <2>11 DEF PublishesCurrent, FollowsEvents
  <2> QED
    BY Zenon, <1>5, <1>6, <1>7, <2>6, <2>7, <2>8, <2>9, <2>10, <2>12 DEF SentInv, SentStep
<1>11. QED
  BY Zenon, <1>3, <1>9, <1>10

\* Each phase of processConfigOne.
LEMMA ConfigSent ==
  ASSUME OrchInv, OrchInv', OrchOrderInv, SentInv,
         \/ ConfigIdle \/ ConfigSkip \/ ConfigPrepare \/ ConfigApplication
         \/ ConfigDevice \/ ConfigPublish \/ ConfigAck
  PROVE  SentInv' /\ SentStep
<1>a. OrchTypeOK /\ PhaseOK /\ PreparedOrder /\ EventSent /\ StreamSent
  BY Zenon DEF OrchInv, OrchOrderInv, SentInv
<1>1. CASE ConfigIdle
  <2>1. /\ UNCHANGED <<appl, applMarks, applTimeout, deviceMarks, deviceTimeout,
                       prepared, configEvents, commands, results, retries>>
        /\ pc' = "result"
    BY Zenon, <1>1 DEF ConfigIdle, streams, applVars, deviceVars
  <2> QED BY Zenon, <2>1, SentRest DEF RetryingPhase
<1>2. CASE ConfigSkip \/ ConfigAck
  <2>1. /\ configEvents # <<>> /\ configEvents' = Tail(configEvents)
        /\ UNCHANGED <<appl, applMarks, applTimeout, deviceMarks, deviceTimeout,
                       prepared, commands, results, retries>>
        /\ pc' = "result"
        /\ <<"command", event.ver>> \in deviceMarks \/ event.ver \notin DOMAIN prepared
    BY Zenon, <1>a, <1>2
       DEF ConfigSkip, ConfigAck, ConfigClaimed, applVars, deviceVars, SentInv,
           PhaseSent, PhaseOK, ConfigPhaseOK, ConfigPhase
  <2>2. event.ver \in Nat
    BY Zenon, <1>a, <2>1, FirstEvent
  <2>3. <<"application", event.ver>> \in applMarks => <<"command", event.ver>> \in deviceMarks
    BY Zenon, <1>a, <2>1, <2>2 DEF PreparedOrder
  <2> QED BY Zenon, <1>a, <2>1, <2>3, SentAcknowledged
<1>3. CASE ConfigDevice
  <2>1. /\ UNCHANGED <<appl, applMarks, applTimeout, prepared, deviceTimeout, configEvents,
                       commands, results, retries>>
        /\ pc' = "configCommand"
        /\ \/ UNCHANGED deviceMarks
           \/ deviceMarks' = deviceMarks \cup {<<"deviceState", event.ver>>}
    BY Zenon, <1>3 DEF ConfigDevice, streams, applVars
  <2>2. /\ deviceMarks \subseteq deviceMarks'
        /\ \A v \in Nat : <<"command", v>> \in deviceMarks' => <<"command", v>> \in deviceMarks
    BY Zenon, <2>1
  <2>3. MarksGrow
    BY Zenon, <2>1, <2>2 DEF MarksGrow
  <2>4. results' \in Seq(SentResults') /\ retries' \in Seq(SentRetries')
    BY Zenon, <1>a, <2>1, <2>3, StreamsStaySent
  <2>5. (\A id \in DOMAIN deviceTimeout : TimeoutWithin(id, deviceTimeout[id]))'
    BY Zenon, <2>1, <2>3, MarkedGrows DEF SentInv, TimeoutSent, TimeoutWithin
  <2>6. PhaseSent'
    BY Zenon, <2>1 DEF PhaseSent, RetryingPhase
  <2> QED BY Zenon, <2>1, <2>2, <2>4, <2>5, <2>6, SentMarked
<1>4. QED
  BY Zenon, <1>1, <1>2, <1>3, PrepareSent, ApplicationSent, PublishSent
\* Each phase of processResultOne: a snapshot is settled under its command.
LEMMA ResultSent ==
  ASSUME OrchInv, OrchInv', OrchOrderInv, SentInv,
         \/ ResultIdle \/ ResultSkip \/ ResultResume \/ ResultDevice
         \/ ResultApplication \/ ResultClear \/ ResultClearCount \/ ResultAck
  PROVE  SentInv' /\ SentStep
<1>a. OrchTypeOK /\ OrchTypeOK' /\ PhaseOK /\ StreamSent
  BY Zenon DEF OrchInv, SentInv
<1>b. pc \in ResultPhase => results # <<>>
  BY Zenon, <1>a DEF PhaseOK, ResultPhaseOK
<1>c. results # <<>> =>
        /\ result \in Result /\ result.conn \in Conns /\ Tail(results) \in Seq(SentResults)
  <2>1. results # <<>> => result \in SentResults /\ Tail(results) \in Seq(SentResults)
    BY Zenon, <1>a, HeadTail DEF result, StreamSent
  <2> QED BY Zenon, <2>1 DEF SentResults, Result
<1>1. CASE ResultIdle \/ ResultResume \/ ResultClear \/ ResultClearCount
  <2>1. /\ UNCHANGED <<appl, applMarks, applTimeout, deviceMarks, deviceTimeout,
                       prepared, configEvents, commands, results, retries>>
        /\ pc' \in {"retry", "resultClear", "resultClearCount", "resultAck"}
    BY Zenon, <1>1 DEF ResultIdle, ResultResume, ResultClear, ResultClearCount,
       AfterResult, streams, applVars, deviceVars
  <2> QED BY Zenon, <2>1, SentRest DEF RetryingPhase
<1>2. CASE ResultSkip \/ ResultAck \/ ResultDevice
  <2>1. /\ UNCHANGED <<appl, applMarks, applTimeout, prepared, deviceTimeout, configEvents,
                       commands, retries>>
        /\ pc' \in {"retry", "resultExit", "resultApplication"}
        /\ \/ results # <<>> /\ results' = Tail(results) /\ UNCHANGED deviceMarks
           \/ UNCHANGED <<results, deviceMarks>>
           \/ /\ UNCHANGED results
              /\ deviceMarks' = deviceMarks \cup {ResultMark(result)}
    BY Zenon, <1>b, <1>2
       DEF ResultSkip, ResultAck, ResultDevice, ResultClaimed, ResultPhase, streams,
           applVars, deviceVars
  <2>2. /\ deviceMarks \subseteq deviceMarks'
        /\ \A v \in Nat : <<"command", v>> \in deviceMarks' => <<"command", v>> \in deviceMarks
    BY Zenon, <2>1 DEF ResultMark
  <2>3. MarksGrow
    BY Zenon, <2>1, <2>2 DEF MarksGrow
  <2>4. results \in Seq(SentResults') /\ retries' \in Seq(SentRetries')
    BY Zenon, <1>a, <2>1, <2>3, StreamsStaySent
  <2>5. results' \in Seq(SentResults')
    <3>1. results # <<>> => Tail(results) \in Seq(SentResults')
      BY Zenon, <2>4, HeadTail
    <3> QED BY Zenon, <2>1, <2>4, <3>1
  <2>6. (\A id \in DOMAIN deviceTimeout : TimeoutWithin(id, deviceTimeout[id]))'
    BY Zenon, <2>1, <2>3, MarkedGrows DEF SentInv, TimeoutSent, TimeoutWithin
  <2>7. PhaseSent'
    BY Zenon, <2>1 DEF PhaseSent, RetryingPhase
  <2> QED BY Zenon, <2>1, <2>2, <2>4, <2>5, <2>6, <2>7, SentMarked
<1>3. CASE ResultApplication
  <2> DEFINE r == result
             m == ResultMark(result)
  <2>1. /\ UNCHANGED <<applTimeout, deviceMarks, deviceTimeout, prepared, configEvents,
                       commands, results, retries>>
        /\ results # <<>> /\ pc' \in {"resultClear", "resultAck"}
        /\ appl' = PutVersioned(appl, r.ver, {r.conn}, [c \in {r.conn} |-> Resolved(appl[c], r)])
        /\ applMarks' = applMarks \cup {m}
    BY Zenon, <1>3, <1>b
       DEF ResultApplication, AfterResult, ResultPhase, streams, deviceVars
  <2>2. /\ \A v \in Nat : m # <<"application", v>>
        /\ \A id \in CommandId : m # <<"retryApplication", id>>
    BY Zenon DEF ResultMark
  <2>3. ASSUME NEW c \in Conns
        PROVE  /\ appl'[c].ver = appl[c].ver /\ appl'[c].cmd = appl[c].cmd
               /\ appl'[c].att <= MaxRetries
               /\ appl'[c].st \in InFlight => appl'[c].cmd.try <= appl'[c].att
    <3>1. appl[c] \in App /\ Snapshot(c, appl[c])
      BY Zenon, <1>a DEF OrchTypeOK, ApplOK, SentInv, ApplSent
    <3>2. CASE appl'[c] = appl[c]
      BY Zenon, <3>1, <3>2 DEF Snapshot
    <3>3. CASE appl'[c] = Resolved(appl[c], r)
      <4>1. NextStatus(appl[c], r) \notin InFlight
        BY Zenon DEF NextStatus, InFlight
      <4>2. /\ appl'[c].ver = appl[c].ver /\ appl'[c].cmd = appl[c].cmd
            /\ appl'[c].st = NextStatus(appl[c], r)
            /\ appl'[c].att = 0 \/ appl'[c].att = appl[c].att
        BY Zenon, <3>1, <3>3 DEF Resolved, App
      <4> QED BY <3>1, <4>1, <4>2, MaxRetriesAssumption DEF Snapshot
    <3>4. appl'[c] = appl[c] \/ appl'[c] = Resolved(appl[c], r)
      BY Zenon, <2>1 DEF PutVersioned
    <3> QED BY Zenon, <3>2, <3>3, <3>4
  <2> HIDE DEF m
  <2>4. TimeoutSent'
    BY Zenon, <2>1 DEF SentInv, TimeoutSent, TimeoutWithin, Marked
  <2>5. /\ \A v \in Nat : <<"application", v>> \in applMarks' <=> <<"application", v>> \in applMarks
        /\ \A id \in CommandId : <<"retryApplication", id>> \in applMarks' =>
                                 <<"retryApplication", id>> \in applMarks
    BY Zenon, <2>1, <2>2
  <2>6. pc' # "configAck" /\ pc' \notin RetryingPhase
    BY Zenon, <2>1 DEF RetryingPhase
  <2> QED BY Zenon, <1>a, <2>1, <2>3, <2>4, <2>5, <2>6, SentSettled
<1>4. QED
  BY Zenon, <1>1, <1>2, <1>3

\* What handleTimeoutResult decides is within the limit, and is about a
\* command of orch.
LEMMA DecisionSent ==
  ASSUME OrchTypeOK, SentInv, NEW r \in SentResults, NEW first \in Members(r.batch),
         TimeoutApplies(r, first)
  PROVE  TimeoutWithin(r.id, DecisionFor(r, first))
<1>1. CASE TimeoutDecided(r.id)
  BY Zenon, <1>1
     DEF DecisionFor, StoredDecision, TimeoutDecided, SentInv, TimeoutSent
<1>2. CASE ~TimeoutDecided(r.id)
  <2>1. Runs(first, r.id, r.ver) /\ appl[first].st \in InFlight
    BY Zenon, <1>2 DEF TimeoutApplies
  <2>2. first \in Conns /\ appl[first] \in App /\ Snapshot(first, appl[first])
    BY Zenon DEF Members, OrchTypeOK, ApplOK, SentInv, ApplSent
  <2>3. /\ ~IsRecovery(r.id) /\ r.id.try <= appl[first].att /\ appl[first].att <= MaxRetries
    BY Zenon, <2>1, <2>2 DEF Snapshot, Runs
  <2>4. Marked(r.id)
    BY Zenon DEF SentResults
  <2>5. appl[first].att \in Nat /\ r.id.try \in Nat
    BY Zenon, <2>1, <2>2 DEF App, Runs, CommandId
  <2>6. /\ TimeoutDecision(appl[first]).att <= MaxRetries
        /\ TimeoutDecision(appl[first]).retry => r.id.try < TimeoutDecision(appl[first]).att
    BY <2>3, <2>5, MaxRetriesAssumption DEF TimeoutDecision
  <2> QED BY Zenon, <1>2, <2>3, <2>4, <2>6 DEF DecisionFor, TimeoutWithin
<1>3. QED
  BY Zenon, <1>1, <1>2

\* Each phase of handleTimeoutResult: the decision, and the retry, are within
\* the limit, and about the batch of the command that timed out.
LEMMA TimeoutsSent ==
  ASSUME OrchInv, OrchInv', OrchOrderInv, SentInv,
         \/ TimeoutDevice \/ TimeoutApplication
         \/ \E c \in Conns : TimeoutAlarm(c) \/ TimeoutCount(c)
         \/ TimeoutRetry
  PROVE  SentInv' /\ SentStep
<1>a. OrchTypeOK /\ OrchTypeOK' /\ PhaseOK /\ StreamSent /\ PreparedOrder
  BY Zenon DEF OrchInv, SentInv, OrchOrderInv
<1>b. results # <<>> => result \in SentResults
  BY Zenon, <1>a, HeadTail DEF result, StreamSent
<1>c. pc \in ResultPhase => results # <<>>
  BY Zenon, <1>a DEF PhaseOK, ResultPhaseOK
<1>d. TimeoutDecided(result.id) => TimeoutWithin(result.id, StoredDecision(result.id))
  BY Zenon DEF StoredDecision, TimeoutDecided, SentInv, TimeoutSent
<1>1. CASE TimeoutDevice
  <2>1. /\ UNCHANGED <<appl, applMarks, applTimeout, prepared, deviceMarks, configEvents,
                       commands, results, retries>>
        /\ results # <<>>
        /\ pc' = "resultAck" \/ pc' = "timeoutApplication"
    <3>1. UNCHANGED streams /\ UNCHANGED applVars /\ UNCHANGED <<prepared, deviceMarks>>
      BY Zenon, <1>1 DEF TimeoutDevice
    <3>2. pc' = "resultAck" \/ pc' = "timeoutApplication"
      BY <1>1, Zenon DEF TimeoutDevice
    <3>3. results # <<>>
      BY Zenon, <1>1 DEF TimeoutDevice, ResultClaimed
    <3> QED BY Zenon, <3>1, <3>2, <3>3 DEF streams, applVars
  <2>2. MarksGrow
    BY Zenon, <2>1 DEF MarksGrow
  <2>3. results' \in Seq(SentResults') /\ retries' \in Seq(SentRetries')
    BY Zenon, <1>a, <2>1, <2>2, StreamsStaySent
  <2>4. \A id \in DOMAIN deviceTimeout' : TimeoutWithin(id, deviceTimeout'[id])
    <3>1. CASE UNCHANGED deviceTimeout
      BY Zenon, <3>1 DEF SentInv, TimeoutSent
    <3>2. CASE \E first \in Members(result.batch) :
                 /\ TimeoutApplies(result, first)
                 /\ deviceTimeout' = Put(deviceTimeout, result.id, DecisionFor(result, first))
      <4>1. PICK first \in Members(result.batch) :
                 /\ TimeoutApplies(result, first)
                 /\ deviceTimeout' = Put(deviceTimeout, result.id, DecisionFor(result, first))
        BY Zenon, <3>2
      <4>2. TimeoutWithin(result.id, DecisionFor(result, first))
        BY Zenon, <1>a, <1>b, <2>1, <4>1, DecisionSent
      <4>3. \A id \in DOMAIN deviceTimeout : TimeoutWithin(id, deviceTimeout[id])
        BY Zenon DEF SentInv, TimeoutSent
      <4> QED BY Zenon, <4>1, <4>2, <4>3 DEF Put
    <3> QED BY Zenon, <1>1, <3>1, <3>2 DEF TimeoutDevice
  <2>5. (\A id \in DOMAIN deviceTimeout : TimeoutWithin(id, deviceTimeout[id]))'
    BY Zenon, <2>1, <2>4 DEF TimeoutWithin, Marked
  <2>6. PhaseSent'
    BY Zenon, <2>1 DEF PhaseSent, RetryingPhase
  <2> QED BY Zenon, <2>1, <2>3, <2>5, <2>6, SentMarked
<1>2. CASE TimeoutApplication
  <2> DEFINE d == StoredDecision(result.id)
  <2>1. /\ results # <<>> /\ TimeoutDecided(result.id)
        /\ UNCHANGED <<applMarks, deviceMarks, deviceTimeout, prepared, configEvents,
                       commands, results, retries>>
        /\ pc' = "timeoutAlarm"
        /\ \/ UNCHANGED <<appl, applTimeout>>
           \/ /\ appl' = PutVersioned(appl, result.ver, Members(result.batch),
                                      TimedOut(result.batch, d))
              /\ applTimeout' = Put(applTimeout, result.id, d)
    <3>1. pc = "timeoutApplication"
      BY Zenon, <1>2 DEF TimeoutApplication
    <3>2. results # <<>> /\ TimeoutDecided(result.id)
      BY Zenon, <1>a, <1>c, <3>1 DEF ResultPhase, PhaseOK, ResultPhaseOK, TimeoutPhase
    <3> QED BY Zenon, <1>2, <3>2 DEF TimeoutApplication, streams, deviceVars
  <2>2. d \in Decision
    BY Zenon, <1>a, <2>1, StoredDecisionType DEF OrchTypeOK, ApplOK, DeviceOK
  <2>3. TimeoutWithin(result.id, d)
    BY Zenon, <1>d, <2>1
  <2> HIDE DEF d
  <2>4. ASSUME NEW c \in Conns
        PROVE  /\ appl'[c].ver = appl[c].ver /\ appl'[c].cmd = appl[c].cmd
               /\ appl'[c].att <= MaxRetries
               /\ appl'[c].st \in InFlight => appl'[c].cmd.try <= appl'[c].att
    <3>1. appl[c] \in App /\ Snapshot(c, appl[c])
      BY Zenon, <1>a DEF OrchTypeOK, ApplOK, SentInv, ApplSent
    <3>2. CASE appl'[c] = appl[c]
      BY Zenon, <3>1, <3>2 DEF Snapshot
    <3>3. CASE appl'[c] = [appl[c] EXCEPT !.st = d.st, !.att = d.att]
      <4>1. d.st \notin InFlight /\ d.att <= MaxRetries
        BY Zenon, <2>2, <2>3 DEF Decision, InFlight, TimeoutWithin
      <4>2. /\ appl'[c].ver = appl[c].ver /\ appl'[c].cmd = appl[c].cmd
            /\ appl'[c].st = d.st /\ appl'[c].att = d.att
        BY Zenon, <3>1, <3>3 DEF App
      <4> QED BY Zenon, <4>1, <4>2
    <3>4. \/ appl'[c] = appl[c]
          \/ appl'[c] = [appl[c] EXCEPT !.st = d.st, !.att = d.att]
      BY Zenon, <2>1 DEF PutVersioned, TimedOut
    <3> QED BY Zenon, <3>2, <3>3, <3>4
  <2>5. TimeoutSent'
    <3>1. \A id \in DOMAIN applTimeout' : TimeoutWithin(id, applTimeout'[id])
      <4>1. \A id \in DOMAIN applTimeout : TimeoutWithin(id, applTimeout[id])
        BY Zenon DEF SentInv, TimeoutSent
      <4> QED BY <2>1, <2>3, <4>1 DEF Put
    <3> QED BY Zenon, <2>1, <3>1 DEF SentInv, TimeoutSent, TimeoutWithin, Marked
  <2>6. pc' # "configAck" /\ pc' \notin RetryingPhase
    BY Zenon, <2>1 DEF RetryingPhase
  <2> QED BY Zenon, <1>a, <2>1, <2>4, <2>5, <2>6, SentSettled
<1>3. ASSUME NEW c \in Conns, TimeoutAlarm(c) \/ TimeoutCount(c)
      PROVE  SentInv' /\ SentStep
  <2>1. /\ UNCHANGED <<appl, applMarks, applTimeout, deviceMarks, deviceTimeout,
                       prepared, configEvents, commands, results, retries>>
        /\ pc' \in {"timeoutAlarm", "timeoutCount", "timeoutRetry"}
    BY Zenon, <1>3 DEF TimeoutAlarm, TimeoutCount, streams, applVars, deviceVars
  <2> QED BY Zenon, <2>1, SentRest DEF RetryingPhase
<1>4. CASE TimeoutRetry
  <2> DEFINE d == StoredDecision(result.id)
             q == [id |-> result.id, att |-> d.att, ver |-> result.ver,
                   batch |-> result.batch]
  <2>1. /\ UNCHANGED <<appl, applMarks, applTimeout, prepared, deviceTimeout, configEvents,
                       commands, results>>
        /\ results # <<>> /\ pc' = "resultAck" /\ TimeoutDecided(result.id)
        /\ \/ UNCHANGED <<retries, deviceMarks>>
           \/ /\ d.retry /\ retries' = Append(retries, q)
              /\ deviceMarks' = deviceMarks \cup {<<"retry", result.id>>}
    <3>1. pc = "timeoutRetry"
      BY Zenon, <1>4 DEF TimeoutRetry
    <3>2. results # <<>> /\ TimeoutDecided(result.id)
      BY Zenon, <1>a, <1>c, <3>1 DEF ResultPhase, PhaseOK, ResultPhaseOK, TimeoutPhase
    <3> QED BY Zenon, <1>4, <3>2 DEF TimeoutRetry, applVars
  <2>2. /\ deviceMarks \subseteq deviceMarks'
        /\ \A v \in Nat : <<"command", v>> \in deviceMarks' => <<"command", v>> \in deviceMarks
    BY Zenon, <2>1
  <2>3. MarksGrow
    BY Zenon, <2>1, <2>2 DEF MarksGrow
  <2>4. results' \in Seq(SentResults') /\ retries \in Seq(SentRetries')
    BY Zenon, <1>a, <2>1, <2>3, StreamsStaySent
  <2>5. d.retry => q \in SentRetries
    <3>1. d \in Decision /\ TimeoutWithin(result.id, d)
      BY Zenon, <1>a, <1>d, <2>1, StoredDecisionType DEF OrchTypeOK, ApplOK, DeviceOK
    <3>2. /\ result \in Result /\ result.id \in CommandId /\ result.ver \in Nat
          /\ result.batch \in Batch /\ OfBatch(result.id, result.batch)
          /\ result.conn \in Members(result.batch) /\ result.ver = result.batch[result.conn].ver
      BY Zenon, <1>b, <2>1 DEF SentResults, Result
    <3> HIDE DEF d
    <3>3. ~IsRecovery(result.id) /\ Marked(result.id)
      BY Zenon, <3>1 DEF TimeoutWithin
    <3>4. result.ver = result.id.n
      <4>1. \A v \in DOMAIN prepared : \A c \in Conns :
              prepared[v][c].ver = IF c \in Members(prepared[v]) THEN v ELSE 0
        BY Zenon, <1>a DEF PreparedOrder
      <4>2. result.id.n \in DOMAIN prepared /\ result.batch = prepared[result.id.n]
        BY Zenon, <3>2, <3>3 DEF OfBatch
      <4>3. result.conn \in Conns
        BY Zenon, <3>2 DEF Members
      <4>4. QED
        BY Zenon, <3>2, <4>1, <4>2, <4>3
    <3>5. d.att \in Nat /\ d.att <= MaxRetries /\ (d.retry => result.id.try < d.att)
      BY Zenon, <3>1 DEF Decision, TimeoutWithin
    <3> QED BY Zenon, <3>2, <3>3, <3>4, <3>5 DEF SentRetries, Retry
  <2>6. retries' \in Seq(SentRetries')
    <3>1. CASE UNCHANGED <<retries, deviceMarks>>
      BY Zenon, <2>4, <3>1
    <3>2. CASE d.retry /\ retries' = Append(retries, q)
      <4>1. retries \in Seq(SentRetries)
        BY Zenon, <1>a DEF StreamSent
      <4>2. SentRetries \subseteq SentRetries'
        BY Zenon, <2>1, <2>3, MarkedGrows DEF SentRetries, OfBatch
      <4>3. Append(retries, q) \in Seq(SentRetries)
        <5> HIDE DEF q
        <5> QED BY Zenon, <2>5, <3>2, <4>1, AppendKeepsHead
      <4> QED BY Zenon, <3>2, <4>2, <4>3, SeqMono
    <3> QED BY Zenon, <2>1, <3>1, <3>2
  <2>7. (\A id \in DOMAIN deviceTimeout : TimeoutWithin(id, deviceTimeout[id]))'
    BY Zenon, <2>1, <2>3, MarkedGrows DEF SentInv, TimeoutSent, TimeoutWithin
  <2>8. PhaseSent'
    BY Zenon, <2>1 DEF PhaseSent, RetryingPhase
  <2> QED BY Zenon, <2>1, <2>2, <2>4, <2>6, <2>7, <2>8, SentMarked
<1>5. QED
  BY Zenon, <1>1, <1>2, <1>3, <1>4

\* The claimed retry: it is of a batch that orch prepared, whose members carry
\* its version, and no other connection runs the command that timed out.
LEMMA FirstRetry ==
  ASSUME OrchInv, OrchOrderInv, SentInv, retries # <<>>
  PROVE  /\ retry \in SentRetries /\ Tail(retries) \in Seq(SentRetries)
         /\ retry.id \in CommandId /\ retry.batch \in Batch /\ retry.ver \in Nat
         /\ \A c \in Members(retry.batch) : retry.batch[c].ver = retry.ver
         /\ \A c \in Conns : appl[c].cmd = retry.id => c \in Members(retry.batch)
<1>1. retry \in SentRetries /\ Tail(retries) \in Seq(SentRetries)
  BY Zenon, HeadTail DEF retry, SentInv, StreamSent
<1>2. retry.id \in CommandId /\ retry.batch \in Batch /\ retry.ver \in Nat
  BY Zenon, <1>1 DEF SentRetries, Retry
<1>3. /\ retry.id.n \in DOMAIN prepared /\ retry.batch = prepared[retry.id.n]
      /\ retry.ver = retry.id.n
  BY Zenon, <1>1 DEF SentRetries, OfBatch
<1>4. \A c \in Members(retry.batch) : retry.batch[c].ver = retry.ver
  <2>1. \A v \in DOMAIN prepared : \A c \in Conns :
          prepared[v][c].ver = IF c \in Members(prepared[v]) THEN v ELSE 0
    BY Zenon DEF OrchOrderInv, PreparedOrder
  <2>2. \A c \in Members(retry.batch) : c \in Conns
    BY Zenon DEF Members
  <2>3. QED
    BY Zenon, <1>3, <2>1, <2>2
<1>5. ASSUME NEW c \in Conns, appl[c].cmd = retry.id PROVE c \in Members(retry.batch)
  <2>1. Snapshot(c, appl[c]) /\ retry.id.n # 0
    BY Zenon, <1>3 DEF SentInv, ApplSent, EventSent
  <2> QED BY Zenon, <1>3, <1>5, <2>1 DEF Snapshot
<1>6. QED
  BY Zenon, <1>1, <1>2, <1>4, <1>5

\* Moving APPL_DB to the retry: every member takes the new command at its own
\* version, so that nothing runs the command that timed out.
LEMMA RetryApplicationSent ==
  ASSUME OrchInv, OrchInv', OrchOrderInv, SentInv, RetryApplication
  PROVE  SentInv' /\ SentStep
<1> DEFINE q == retry
           b == retry.batch
           n == RetryCommand(retry.id)
           m == <<"retryApplication", retry.id>>
<1>1. /\ UNCHANGED <<applTimeout, deviceMarks, deviceTimeout, prepared, configEvents,
                     commands, results, retries>>
      /\ retries # <<>> /\ pc' = "retryDevice"
      /\ <<"retryCommand", q.id>> \notin deviceMarks
      /\ \A c \in Members(b) : StillCurrent(c, q)
      /\ \/ m \in applMarks /\ UNCHANGED <<appl, applMarks>>
         \/ /\ m \notin applMarks /\ applMarks' = applMarks \cup {m}
            /\ appl' = PutVersioned(appl, q.ver, Members(b), Retried(q))
  BY Zenon DEF RetryApplication, streams, deviceVars
<1>2. /\ q \in SentRetries /\ q.id \in CommandId /\ b \in Batch /\ q.ver \in Nat
      /\ \A c \in Members(b) : b[c].ver = q.ver
      /\ \A c \in Conns : appl[c].cmd = q.id => c \in Members(b)
  BY Zenon, <1>1, FirstRetry
<1>3. /\ ~IsRecovery(q.id) /\ Marked(q.id) /\ OfBatch(q.id, b)
      /\ q.ver = q.id.n /\ q.id.try < q.att /\ q.att <= MaxRetries
      /\ q.att \in Nat /\ q.id.try \in Nat
  BY Zenon, <1>2 DEF SentRetries, Retry, CommandId
<1>4. /\ n \in CommandId /\ n.n = q.ver /\ n.try = q.id.try + 1 /\ ~IsRecovery(n)
      /\ n # q.id /\ ~Marked(n) /\ \A v \in Nat : n # ConfigCommand(v)
  BY Zenon, <1>1, <1>2, <1>3, RetryIds, ConfigIds
<1>5. /\ \A c \in Members(b) : /\ c \in Conns /\ appl[c].ver = q.ver /\ q.ver # 0
                               /\ appl[c].cmd = q.id \/ appl[c].cmd = n
  BY Zenon, <1>1, <1>2 DEF StillCurrent, Runs, Members
<1>6. MarksGrow
  BY Zenon, <1>1 DEF MarksGrow
<1>7. StreamSent'
  BY Zenon, <1>1, <1>6, StreamsStaySent DEF SentInv, StreamSent
<1>8. TimeoutSent'
  BY Zenon, <1>1 DEF SentInv, TimeoutSent, TimeoutWithin, Marked
<1>9. ASSUME \A c \in Members(b) : appl'[c].ver = q.ver /\ appl'[c].cmd = n
      PROVE  PhaseSent'
  <2>1. retry' = retry
    BY Zenon, <1>1 DEF retry
  <2> QED BY Zenon, <1>1, <1>2, <1>5, <1>9, <2>1 DEF PhaseSent, Runs, Members
<1>10. CASE m \in applMarks /\ UNCHANGED <<appl, applMarks>>
  <2>1. \A c \in Members(b) : appl[c].cmd # q.id
    BY Zenon, <1>2, <1>10 DEF SentInv, RetryMarks, Members
  <2>2. PhaseSent'
    BY Zenon, <1>5, <1>9, <1>10, <2>1
  <2>3. SentInv' /\ FollowsEvents
    BY Zenon, <1>1, <1>6, <1>7, <1>8, <1>10, <2>2, SentQuiet
  <2> QED BY Zenon, <1>1, <1>6, <2>3 DEF SentStep, PublishesCurrent
<1>11. CASE /\ m \notin applMarks /\ applMarks' = applMarks \cup {m}
            /\ appl' = PutVersioned(appl, q.ver, Members(b), Retried(q))
  <2>1. ASSUME NEW c \in Conns
        PROVE  IF c \in Members(b)
               THEN appl'[c].ver = q.ver /\ appl'[c].cmd = n /\ appl'[c].att = q.att
               ELSE appl'[c] = appl[c]
    <3>1. CASE c \in Members(b)
      <4>1. appl'[c] = Retried(q)[c] /\ appl[c] \in App
        BY <1>2, <1>5, <1>11, <3>1 DEF PutVersioned, OrchInv, OrchTypeOK, ApplOK
      <4> QED BY Zenon, <1>5, <3>1, <4>1 DEF Retried, App
    <3>2. CASE c \notin Members(b)
      BY Zenon, <1>11, <3>2 DEF PutVersioned
    <3> QED BY Zenon, <3>1, <3>2
  <2>2. \A c \in Conns : appl'[c].ver = appl[c].ver
    BY Zenon, <1>5, <2>1
  <2>3. PhaseSent'
    BY Zenon, <1>5, <1>9, <2>1
  <2>4. ASSUME NEW c \in Conns PROVE Snapshot(c, appl[c])'
    <3>1. CASE c \in Members(b)
      <4>1. n.try <= q.att /\ n.try <= MaxRetries
        BY <1>3, <1>4, MaxRetriesAssumption
      <4>2. q.ver \in DOMAIN prepared' /\ c \in Members(prepared'[q.ver])
        BY Zenon, <1>1, <1>3, <3>1 DEF OfBatch
      <4>3. /\ appl'[c].ver = q.ver /\ appl'[c].cmd = n /\ appl'[c].att = q.att
        BY Zenon, <2>1, <3>1
      <4> HIDE DEF n, q, b
      <4> QED BY Zenon, <1>3, <1>4, <4>1, <4>2, <4>3 DEF Snapshot, Members
    <3>2. CASE c \notin Members(b)
      BY Zenon, <1>1, <2>1, <3>2 DEF SentInv, ApplSent, Snapshot, Members
    <3> QED BY Zenon, <3>1, <3>2
  <2>5. ApplSent'
    BY Zenon, <2>4 DEF ApplSent
  <2>6. CommandMarks'
    BY Zenon, <1>1, <1>11 DEF SentInv, CommandMarks
  <2>7. RetryMarks'
    <3> SUFFICES ASSUME NEW id \in CommandId, <<"retryApplication", id>> \in applMarks'
                 PROVE  ~IsRecovery(id) /\ Marked(id) /\ \A c \in Conns : appl'[c].cmd # id
      BY Zenon, <1>6, MarkedGrows DEF RetryMarks
    <3>1. CASE id = q.id
      BY Zenon, <1>2, <1>3, <1>4, <2>1, <3>1
    <3>2. CASE <<"retryApplication", id>> \in applMarks
      <4>1. ~IsRecovery(id) /\ Marked(id) /\ \A c \in Conns : appl[c].cmd # id
        BY Zenon, <3>2 DEF SentInv, RetryMarks
      <4>2. n # id
        BY Zenon, <1>4, <4>1
      <4> QED BY Zenon, <2>1, <4>1, <4>2
    <3> QED BY Zenon, <1>11, <3>1, <3>2
  <2>8. StagedMarks'
    <3>1. event' = event
      BY Zenon, <1>1 DEF event
    <3> SUFFICES ASSUME NEW v \in Nat, <<"application", v>> \in applMarks,
                        <<"command", v>> \notin deviceMarks
                 PROVE  /\ configEvents # <<>> /\ event.ver = v
                        /\ \A c \in Members(prepared[v]) : Runs(c, ConfigCommand(v), v)'
      BY Zenon, <1>1, <1>11, <3>1 DEF StagedMarks, Members
    <3>2. /\ configEvents # <<>> /\ event.ver = v
          /\ \A c \in Members(prepared[v]) : Runs(c, ConfigCommand(v), v)
      BY Zenon DEF SentInv, StagedMarks
    <3>3. q.id # ConfigCommand(v)
      BY Zenon, <1>3, ConfigIds
    <3>4. ASSUME NEW c \in Members(prepared[v]) PROVE appl'[c] = appl[c]
      <4>1. c \in Conns /\ appl[c].cmd = ConfigCommand(v)
        BY Zenon, <3>2 DEF Members, Runs
      <4>2. c \notin Members(b)
        BY Zenon, <1>4, <1>5, <3>3, <4>1
      <4> QED BY Zenon, <2>1, <4>1, <4>2
    <3> QED BY Zenon, <3>2, <3>4 DEF Runs
  <2>9. EventSent'
    BY Zenon, <1>1, <2>2 DEF SentInv, EventSent
  <2>10. FollowsEvents /\ PublishesCurrent
    BY Zenon, <1>1, <2>2 DEF FollowsEvents, PublishesCurrent
  <2> QED
    BY Zenon, <1>6, <1>7, <1>8, <2>3, <2>5, <2>6, <2>7, <2>8, <2>9, <2>10 DEF SentInv, SentStep
<1>12. QED
  BY Zenon, <1>1, <1>10, <1>11

\* Publishing the retry: no marker of it was set, and every member runs it.
LEMMA RetryPublishSent ==
  ASSUME OrchInv, OrchInv', OrchOrderInv, SentInv, RetryPublish
  PROVE  SentInv' /\ SentStep
<1> DEFINE q == retry
           m == <<"retryCommand", retry.id>>
           k == [id |-> RetryCommand(retry.id), batch |-> retry.batch]
<1>1. retries # <<>>
  BY Zenon DEF OrchInv, PhaseOK, RetryPhaseOK, RetryPublish, RetryPhase
<1>2. /\ UNCHANGED <<appl, applMarks, applTimeout, deviceTimeout, prepared, configEvents,
                     results, retries>>
      /\ pc = "retryCommand" /\ pc' = "retryAck"
      /\ \/ m \in deviceMarks /\ UNCHANGED <<commands, deviceMarks>>
         \/ /\ m \notin deviceMarks /\ deviceMarks' = deviceMarks \cup {m}
            /\ commands' = Append(commands, k)
  BY Zenon DEF RetryPublish, PublishOnce, applVars
<1>3. /\ q.id \in CommandId /\ q.batch \in Batch
      /\ ~IsRecovery(q.id) /\ OfBatch(q.id, q.batch)
      /\ q.id.try < q.att /\ q.att <= MaxRetries /\ q.att \in Nat /\ q.id.try \in Nat
  BY Zenon, <1>1, FirstRetry DEF SentRetries, Retry, CommandId
<1>4. m \in deviceMarks' /\ deviceMarks \subseteq deviceMarks'
  BY Zenon, <1>2
<1>5. MarksGrow
  BY Zenon, <1>2, <1>4 DEF MarksGrow
<1>6. PhaseSent'
  BY Zenon, <1>2 DEF PhaseSent, RetryingPhase
<1>7. TimeoutSent'
  BY Zenon, <1>2, <1>5, MarkedGrows DEF SentInv, TimeoutSent, TimeoutWithin
<1>8. /\ commands \in Seq(SentCommands') /\ results' \in Seq(SentResults')
      /\ retries' \in Seq(SentRetries')
  BY Zenon, <1>2, <1>5, StreamsStaySent DEF SentInv
<1>9. /\ k \in Command /\ k.id = RetryCommand(q.id) /\ k.batch = q.batch
      /\ ~IsRecovery(k.id) /\ k.id.n = q.id.n /\ k.id.try = q.id.try + 1
      /\ k.id.try # 0 /\ Before(k.id) = q.id
      /\ Marked(k.id) <=> m \in deviceMarks
  BY Zenon, <1>3, RetryIds DEF Command
<1>10. \A id : id = k.id => Marked(id)'
  BY Zenon, <1>4, <1>9 DEF Marked
<1>11. \A c \in Members(k.batch) : Runs(c, k.id, k.batch[c].ver)
  BY Zenon, <1>2 DEF SentInv, PhaseSent, RetryingPhase
<1> HIDE DEF k
<1>12. k \in SentCommands'
  <2>1. k.id.try <= MaxRetries
    BY <1>3, <1>9, MaxRetriesAssumption
  <2>2. \A id, b : OfBatch(id, b)' <=> OfBatch(id, b)
    BY Zenon, <1>2 DEF OfBatch
  <2>3. OfBatch(k.id, k.batch)
    BY Zenon, <1>3, <1>9 DEF OfBatch
  <2> QED BY Zenon, <1>9, <1>10, <2>1, <2>2, <2>3 DEF SentCommands
<1>13. commands' \in Seq(SentCommands')
  BY <1>2, <1>8, <1>12, AppendKeepsHead, Zenon
<1>14. StreamSent'
  BY Zenon, <1>8, <1>13 DEF StreamSent
<1>15. \A v \in Nat : <<"command", v>> \in deviceMarks' => <<"command", v>> \in deviceMarks
  BY <1>2
<1>16. SentInv' /\ FollowsEvents
  BY Zenon, <1>2, <1>5, <1>6, <1>7, <1>14, <1>15, SentQuiet
<1>17. PublishesCurrent
  BY Zenon, <1>2, <1>9, <1>11 DEF PublishesCurrent
<1>18. QED
  BY Zenon, <1>5, <1>16, <1>17 DEF SentStep

\* Each phase of processRetryOne.
LEMMA RetrySent ==
  ASSUME OrchInv, OrchInv', OrchOrderInv, SentInv,
         \/ RetryIdle \/ RetrySkip \/ RetryApplication \/ RetryDevice
         \/ RetryPublish \/ RetryAck
  PROVE  SentInv' /\ SentStep
<1>a. StreamSent
  BY Zenon DEF SentInv
<1>1. CASE RetryIdle
  <2>1. /\ UNCHANGED <<appl, applMarks, applTimeout, deviceMarks, deviceTimeout,
                       prepared, configEvents, commands, results, retries>>
        /\ pc' = "config"
    BY Zenon, <1>1 DEF RetryIdle, streams, applVars, deviceVars
  <2> QED BY Zenon, <2>1, SentRest DEF RetryingPhase
<1>2. CASE RetrySkip \/ RetryAck \/ RetryDevice
  <2>1. /\ UNCHANGED <<appl, applMarks, applTimeout, prepared, deviceTimeout, configEvents,
                       commands, results>>
        /\ retries # <<>>
        /\ \/ pc' = "config" /\ retries' = Tail(retries) /\ UNCHANGED deviceMarks
           \/ /\ pc = "retryDevice" /\ pc' = "retryCommand" /\ UNCHANGED retries
              /\ \/ UNCHANGED deviceMarks
                 \/ deviceMarks' = deviceMarks \cup {<<"retryDevice", retry.id>>}
    BY Zenon, <1>2
       DEF RetrySkip, RetryAck, RetryDevice, streams, applVars, deviceVars, OrchInv,
           PhaseOK, RetryPhaseOK, RetryPhase
  <2>2. /\ deviceMarks \subseteq deviceMarks'
        /\ \A v \in Nat : <<"command", v>> \in deviceMarks' => <<"command", v>> \in deviceMarks
    BY Zenon, <2>1
  <2>3. MarksGrow
    BY Zenon, <2>1, <2>2 DEF MarksGrow
  <2>4. results' \in Seq(SentResults') /\ retries \in Seq(SentRetries')
    BY Zenon, <1>a, <2>1, <2>3, StreamsStaySent
  <2>5. retries' \in Seq(SentRetries')
    BY Zenon, <2>1, <2>4, HeadTail
  <2>6. (\A id \in DOMAIN deviceTimeout : TimeoutWithin(id, deviceTimeout[id]))'
    BY Zenon, <2>1, <2>3, MarkedGrows DEF SentInv, TimeoutSent, TimeoutWithin
  <2>7. PhaseSent'
    BY Zenon, <2>1 DEF SentInv, PhaseSent, RetryingPhase, retry, Members, Runs
  <2> QED BY Zenon, <2>1, <2>2, <2>4, <2>5, <2>6, <2>7, SentMarked
<1>3. QED
  BY Zenon, <1>1, <1>2, RetryApplicationSent, RetryPublishSent

\* A restart and the passing of time send nothing.
LEMMA ProcessSent ==
  ASSUME SentInv,
         \/ Restart \/ BackoffElapses \/ \E s \in {"config", "result"} : IdleTimeElapses(s)
  PROVE  SentInv' /\ SentStep
<1>1. /\ UNCHANGED <<appl, applMarks, applTimeout, deviceMarks, deviceTimeout,
                     prepared, configEvents, commands, results, retries>>
      /\ pc' = pc \/ pc' = "config"
  BY Zenon DEF Restart, BackoffElapses, IdleTimeElapses, streams, applVars, deviceVars
<1>2. QED
  BY Zenon, <1>1, SentRest DEF RetryingPhase

\* SentInv is kept by every step of orch, which publishes only what is current.
LEMMA OrchSends ==
  ASSUME OrchInv, OrchInv', OrchOrderInv, SentInv,
         \/ OrchStep \/ Restart \/ BackoffElapses
         \/ \E s \in {"config", "result"} : IdleTimeElapses(s)
  PROVE  SentInv' /\ SentStep
  BY ConfigSent, ResultSent, TimeoutsSent, RetrySent, ProcessSent, Zenon
     DEF OrchStep, ExitOnError

-----------------------------------------------------------------------------
(* What the others do to the streams of orch *)

\* syncd takes commands and appends results, and leaves the rest to orch.
LEMMA SentBySyncd ==
  ASSUME SentInv, UNCHANGED <<configEvents, retries, applVars, deviceVars, procVars>>,
         commands' \in Seq(SentCommands), results' \in Seq(SentResults)
  PROVE  SentInv'
<1>1. UNCHANGED <<appl, applMarks, applTimeout, deviceMarks, deviceTimeout, prepared, pc>>
  BY Zenon DEF applVars, deviceVars, procVars
<1>2. MarksGrow
  BY Zenon, <1>1 DEF MarksGrow
<1>3. SentCommands \subseteq SentCommands' /\ SentResults \subseteq SentResults'
      /\ SentRetries \subseteq SentRetries'
  <2>1. \A id : Marked(id) => Marked(id)'
    BY Zenon, <1>2, MarkedGrows
  <2>2. \A id, b : OfBatch(id, b) => OfBatch(id, b)'
    BY Zenon, <1>1 DEF OfBatch
  <2> QED BY Zenon, <2>1, <2>2 DEF SentCommands, SentResults, SentRetries
<1>4. StreamSent'
  BY Zenon, <1>3, SeqMono DEF SentInv, StreamSent
<1>5. TimeoutSent'
  BY Zenon, <1>1 DEF SentInv, TimeoutSent, TimeoutWithin, Marked
<1>6. PhaseSent'
  BY Zenon, <1>1 DEF SentInv, PhaseSent, event, retry, Members, Runs
<1>7. QED
  BY Zenon, <1>1, <1>2, <1>4, <1>5, <1>6, SentQuiet

\* A committed Set appends an event with a version that is new.
LEMMA SentBySet ==
  ASSUME OrchInv, SentInv, NEW e \in ConfigEvent, configEvents' = Append(configEvents, e),
         UNCHANGED <<commands, results, retries, applVars, deviceVars, procVars>>,
         e.ver # 0, \A c \in Conns : appl[c].ver <= e.ver,
         \A i \in 1 .. Len(configEvents) : configEvents[i].ver < e.ver
  PROVE  SentInv'
<1>1. UNCHANGED <<appl, applMarks, applTimeout, deviceMarks, deviceTimeout, prepared, pc>>
  BY Zenon DEF applVars, deviceVars, procVars
<1>2. configEvents \in Seq(ConfigEvent)
  BY Zenon DEF OrchInv, OrchTypeOK, StreamsOK
<1>3. configEvents' # <<>> /\ (configEvents # <<>> => event' = event)
  BY Zenon, <1>2, AppendKeepsHead DEF event
<1>4. MarksGrow
  BY Zenon, <1>1 DEF MarksGrow
<1>5. StreamSent'
  BY Zenon, <1>4, StreamsStaySent DEF SentInv, StreamSent
<1>6. TimeoutSent'
  BY Zenon, <1>1 DEF SentInv, TimeoutSent, TimeoutWithin, Marked
<1>7. PhaseSent'
  BY Zenon, <1>1, <1>3
     DEF SentInv, PhaseSent, retry, Members, Runs, OrchInv, PhaseOK, ConfigPhaseOK, ConfigPhase
<1>8. ApplSent' /\ CommandMarks'
  BY Zenon, <1>1 DEF SentInv, ApplSent, Snapshot, Members, CommandMarks
<1>9. RetryMarks'
  BY Zenon, <1>1, <1>4, MarkedGrows DEF SentInv, RetryMarks
<1>10. StagedMarks'
  BY Zenon, <1>1, <1>3 DEF SentInv, StagedMarks, Members, Runs
<1>11. EventSent'
  <2>1. /\ Len(configEvents) \in Nat /\ Len(configEvents') = Len(configEvents) + 1
        /\ \A i \in 1 .. Len(configEvents) : configEvents'[i] = configEvents[i]
        /\ configEvents'[Len(configEvents) + 1] = e
    BY <1>2, AppendPlaces
  <2>2. \A i \in 1 .. Len(configEvents') :
          i \in 1 .. Len(configEvents) \/ i = Len(configEvents) + 1
    BY <2>1
  <2>3. \A i \in 1 .. Len(configEvents') :
          configEvents'[i].ver # 0 /\ \A c \in Conns : appl'[c].ver <= configEvents'[i].ver
    BY Zenon, <1>1, <2>1, <2>2 DEF SentInv, EventSent
  <2>4. ASSUME NEW i \in 1 .. Len(configEvents'), NEW j \in 1 .. Len(configEvents'), i < j
        PROVE  configEvents'[i].ver < configEvents'[j].ver
    <3>1. i \in 1 .. Len(configEvents) /\ configEvents'[i] = configEvents[i]
      BY <2>1, <2>4
    <3>2. CASE j \in 1 .. Len(configEvents)
      BY Zenon, <2>1, <2>4, <3>1, <3>2 DEF SentInv, EventSent
    <3>3. CASE j = Len(configEvents) + 1
      BY Zenon, <2>1, <3>1, <3>3
    <3> QED BY Zenon, <2>2, <3>2, <3>3
  <2> QED BY Zenon, <1>1, <2>3, <2>4 DEF SentInv, EventSent
<1>12. QED
  BY Zenon, <1>5, <1>6, <1>7, <1>8, <1>9, <1>10, <1>11 DEF SentInv
=============================================================================
