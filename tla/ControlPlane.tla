---------------------------- MODULE ControlPlane ----------------------------
(***************************************************************************)
(* The control loop: gNMI Set transactions, ocs-orch with its crash points *)
(* (Orch) and the device side (DevicePlane).                               *)
(***************************************************************************)
EXTENDS DevicePlane, FiniteSets

CONSTANTS
  MaxBatch,     \* connections one Set changes at most
  MaxRevision,  \* Set transactions
  Troubles      \* the crashes of ocs-orch, device faults and restarts of
                \* ocs-hwsim that may come together

ASSUME BoundsAssumption ==
  /\ MaxBatch \in Nat /\ MaxRevision \in Nat
  /\ Troubles \subseteq [crashes : Nat, faults : Nat, restarts : Nat]

VARIABLES
  revision,    \* CONFIG_DB revision of the device
  configured,  \* CONFIG_DB: the connections with a desired snapshot
  crashes      \* crashes of ocs-orch so far

vars == <<orchVars, planeVars, revision, configured, crashes>>

Init ==
  /\ OrchInit /\ DevicePlaneInit
  /\ revision = 0 /\ configured = {} /\ crashes = 0

\* One committed Set: the snapshots, the revision and the event in one
\* MULTI/EXEC.  Only a configured connection can be removed.
CommitSet(ops) ==
  /\ revision < MaxRevision
  /\ \A c \in Conns : ops[c] = "REMOVE" => c \in configured
  /\ revision' = revision + 1
  /\ configured' = {c \in Conns : \/ ops[c] = "UPSERT"
                                  \/ ops[c] = "NONE" /\ c \in configured}
  /\ configEvents' = Append(configEvents, [ver |-> revision + 1, ops |-> ops])
  /\ UNCHANGED <<commands, results, retries, applVars, deviceVars, alarmVars,
                 procVars, planeVars, crashes>>

SetOps ==
  {ops \in [Conns -> Operation \cup {"NONE"}] :
     Cardinality({c \in Conns : ops[c] # "NONE"}) \in 1..MaxBatch}

Within(c, f, r) ==
  \E t \in Troubles : c <= t.crashes /\ f <= t.faults /\ r <= t.restarts

OrchCrash ==
  /\ Within(crashes + 1, faults, restarts) /\ crashes' = crashes + 1
  /\ Crash
  /\ UNCHANGED <<planeVars, revision, configured>>

OrchRuns ==
  OrchStep /\ UNCHANGED <<planeVars, revision, configured, crashes>>

IdleTime(s) ==
  IdleTimeElapses(s) /\ UNCHANGED <<planeVars, revision, configured, crashes>>

Backoff ==
  BackoffElapses /\ UNCHANGED <<planeVars, revision, configured, crashes>>

SyncdRuns ==
  SyncdStep /\ UNCHANGED <<revision, configured, crashes>>

DeviceFault ==
  /\ Within(crashes, faults + 1, restarts)
  /\ \/ \E out \in {"fail", "timeout"} : ApplyFaults(out)
     \/ \E out \in {"fail", "timeout"}, applied \in BOOLEAN :
          ApplyUnconfirmed(out, applied)
  /\ UNCHANGED <<revision, configured, crashes>>

DeviceRestart ==
  /\ Within(crashes, faults, restarts + 1)
  /\ HwsimRestart
  /\ UNCHANGED <<revision, configured, crashes>>

Next ==
  \/ \E ops \in SetOps : CommitSet(ops)
  \/ OrchRuns \/ OrchCrash
  \/ \E s \in {"config", "result"} : IdleTime(s)
  \/ Backoff
  \/ SyncdRuns \/ DeviceFault \/ DeviceRestart

Spec == Init /\ [][Next]_vars

Fairness ==
  /\ WF_vars(OrchRuns)
  /\ \A s \in {"config", "result"} : WF_vars(IdleTime(s))
  /\ WF_vars(Backoff)
  /\ WF_vars(SyncdRuns)

FairSpec == Spec /\ Fairness

-----------------------------------------------------------------------------
(* Safety *)

\* Every stream entry, snapshot, marker and process variable has its type; in
\* particular orch only ever stores apply_status values it can decode again.
TypeOK ==
  /\ OrchTypeOK /\ PlaneTypeOK
  /\ revision \in Nat /\ configured \subseteq Conns /\ crashes \in Nat

\* APPL_DB is ahead of everything downstream of it: no DEVICE_DB snapshot,
\* device command, device result, retry or matrix entry carries a version of a
\* connection newer than APPL_DB's.  For results this is why the exception
\* "device result is newer than application state" in processResultOne is
\* never thrown, whatever orch crashes and device restarts come between.
NothingNewer ==
  /\ \A c \in Conns : device[c].ver <= appl[c].ver /\ actual[c] <= appl[c].ver
  /\ \A i \in 1..Len(commands) : \A c \in Conns :
       commands[i].batch[c].ver <= appl[c].ver
  /\ \A i \in 1..Len(results) : results[i].ver <= appl[results[i].conn].ver
  /\ \A i \in 1..Len(retries) : \A c \in Conns :
       retries[i].batch[c].ver <= appl[c].ver

\* A device command is published once: no two commands in the stream share an
\* id, and none is published again after syncd has processed it, although
\* orch resumes processConfigOne and processRetryOne from any phase.
NoDuplicateCommand ==
  \A i, j \in 1..Len(commands) :
    /\ commands[i].id \notin processed
    /\ commands[i].id = commands[j].id => i = j

\* The retry limit bounds what is sent: no connection and no command gets
\* beyond max_retries attempts, over crashes, resumed timeouts and restarts.
RetryBound ==
  /\ \A c \in Conns : appl[c].att <= MaxRetries /\ appl[c].cmd.try <= MaxRetries
  /\ \A i \in 1..Len(commands) : commands[i].id.try <= MaxRetries

\* A connection reported ACTIVE is in the matrix at its version, and one
\* reported ABSENT is not in it: a late, lost or superseded result never makes
\* processResultOne report what the device did not confirm.
TruthfulStatus ==
  \A c \in Conns :
    /\ appl[c].st = "ACTIVE" => actual[c] = appl[c].ver
    /\ appl[c].st = "ABSENT" => actual[c] = 0

\* The members of a batch wait for its retry together: if one of them is in
\* RETRY_WAIT under a command, so is every other that still runs it.
RetryWholeBatch ==
  \A c, d \in Conns :
    /\ appl[c].st = "RETRY_WAIT"
    /\ appl[d].ver = appl[c].ver /\ appl[d].cmd = appl[c].cmd
    => appl[d].st = "RETRY_WAIT"

\* Nothing is left to do: every stream is acknowledged and no phase is open.
Quiet ==
  /\ configEvents = <<>> /\ commands = <<>> /\ results = <<>> /\ retries = <<>>
  /\ pc \in {"config", "result", "retry"} /\ spc = "idle" /\ gen = seenGen

\* CONFIG_DB, APPL_DB and DEVICE_DB agree once the streams are empty: no
\* committed Set is dropped, and although each handler writes the snapshots in
\* two transactions, resuming after a crash completes whichever is missing.
\* A batch that times out is the exception: if orch crashes between the two
\* transactions of the timeout, or of the retry, and a newer Set takes over
\* another member, the handler gives up what one database already shows.
HalfMoved(c) ==
  LET id == device[c].cmd IN
  /\ crashes > 0
  /\ \/ id \in DOMAIN deviceTimeout \ DOMAIN applTimeout
     \/ <<"retryApplication", id>> \in applMarks /\ <<"retryDevice", id>> \notin deviceMarks
  /\ \E d \in Conns : appl[d].ver > appl[c].ver
Agreement ==
  Quiet => \A c \in Conns :
    /\ c \in configured <=> appl[c].ver # 0 /\ appl[c].op = "UPSERT"
    /\ IF appl[c].st = "ABSENT" THEN device[c].ver = 0
       ELSE /\ device[c].ver = appl[c].ver
            /\ device[c].st = appl[c].st \/ HalfMoved(c)

\* Raising or clearing an apply-timeout alarm counts each activation once:
\* active_alarms and the changes whose marker shows them not yet counted add
\* up to the active alarms, and once the streams are empty no more are left
\* uncounted than orch crashed between the two transactions.
UncountedRaises ==
  {k \in DOMAIN raiseMarks :
     raiseMarks[k].activated /\ <<"raise", raiseMarks[k].act, k[2]>> \notin countMarks}
UncountedClears ==
  {k \in DOMAIN clearMarks : <<"clear", clearMarks[k], k[2]>> \notin countMarks}
AlarmsCounted ==
  /\ activeAlarms + Cardinality(UncountedRaises) - Cardinality(UncountedClears)
       = Cardinality({c \in Conns : alarm[c] # {}})
  /\ Quiet => Cardinality(UncountedRaises \cup UncountedClears) <= crashes

\* A success clears the alarm: once the streams are empty, no connection that
\* is ACTIVE or ABSENT still has an apply-timeout alarm.
SuccessClearsAlarm ==
  Quiet => \A c \in Conns : appl[c].st \in {"ACTIVE", "ABSENT"} => alarm[c] = {}

\* A connection waiting for a retry will get it: with no result left to
\* handle and no phase open, RETRY_WAIT comes with an active alarm and with
\* the retry event of the command that timed out.
WaitHasRetry ==
  results = <<>> /\ pc \in {"config", "result", "retry"} =>
    \A c \in Conns : appl[c].st = "RETRY_WAIT" =>
      /\ alarm[c] # {}
      /\ \E i \in 1..Len(retries) : retries[i].id = appl[c].cmd

-----------------------------------------------------------------------------
(* Action properties *)

\* The matrix never goes back: until the device restarts, an entry is replaced
\* by the same or a newer version, or removed, however late a retry arrives.
MatrixNeverBack ==
  [][gen' = gen => \A c \in Conns : actual'[c] = 0 \/ actual'[c] >= actual[c]]_vars

\* Newer desired versions fence late work: when orch publishes a command, it
\* is at that moment the current command of every member of its batch.
PublishedIsCurrent ==
  [][\A k \in {commands'[i] : i \in Len(commands) + 1..Len(commands')} :
       IsRecovery(k.id) \/ \A c \in Members(k.batch) :
                             Runs(c, k.id, k.batch[c].ver)]_vars

-----------------------------------------------------------------------------
(* Liveness, under FairSpec *)

\* Every committed Set is acknowledged by orch.
EventsAcknowledged == configEvents # <<>> ~> configEvents = <<>>

\* No connection stays in flight or waiting: it becomes ACTIVE, ABSENT or
\* visibly FAILED, although orch may crash and device commands may time out.
Settles ==
  \A c \in Conns :
    appl[c].st \in InFlight \cup {"RETRY_WAIT"}
      ~> appl[c].st \in {"ACTIVE", "ABSENT", "FAILED"}

=============================================================================
