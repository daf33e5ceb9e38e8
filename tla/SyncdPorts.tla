----------------------------- MODULE SyncdPorts -----------------------------
(***************************************************************************)
(* The start of a poll: device information, the matrix, then every port.   *)
(* pollPortStates reads a port, publishes its state, and opens or closes   *)
(* its fault cycle with its alarm; each Redis write is a step.             *)
(***************************************************************************)
EXTENDS SyncdData

portFrame == <<deviceVars, intent, cmds, acked, answers, applied, stateDb, devState,
               cycle, driftDb, code, sum, plan>>

FirstPort(S) ==
  CHOOSE p \in S : \A q \in S : IF p[1] = q[1] THEN p[2] <= q[2] ELSE p[1] = "in"
port == FirstPort(todo)
fault == portFault[port]
NextPort == todo' = todo \ {port} /\ pc' = "ports"

\* pollDevice and initialize call getDeviceInfo; initialize takes the
\* generation over at once.
PollInfo ==
  /\ pc \in {"idle", "boot"}
  /\ polled' = [NoPoll EXCEPT !.boot = (pc = "boot"), !.gen = generation]
  /\ cached' = IF pc = "boot" THEN generation ELSE cached
  /\ pc' = "connections"
  /\ UNCHANGED <<portFrame, once, portDb, alarms, todo, used>>

PollConnections ==
  /\ pc = "connections"
  /\ polled' = [polled EXCEPT !.actual = matrix]
  /\ pc' = "ports" /\ todo' = Watched
  /\ UNCHANGED <<portFrame, once, portDb, alarms, cached, used>>

\* The port is read and its snapshot replaced.
PollPort ==
  LET up == port \notin down IN
  /\ pc = "ports" /\ todo # {}
  /\ portState' = [portState EXCEPT ![port] = up]
  /\ polled' = IF up THEN polled ELSE [polled EXCEPT !.bad = @ \cup {port}]
  /\ \/ up /\ fault.status \in {"NONE", "RECOVERED"} /\ NextPort
     \/ /\ up /\ fault.status \notin {"NONE", "RECOVERED"}
        /\ pc' = "clearPort" /\ UNCHANGED todo
     \/ ~up /\ pc' = "openFault" /\ UNCHANGED todo
  /\ UNCHANGED <<portFrame, once, portFault, portAlarm, portDowns, alarms, cached, used>>

\* A down port without an open fault gets a new activation.
\* Mutant: the alarm is raised by the poll that opens the fault only.
OpenFaultAlone ==
  /\ pc = "openFault"
  /\ \/ /\ fault.status \in {"NONE", "RECOVERED"}
        /\ portFault' = [portFault EXCEPT ![port] =
                           [status |-> "ACTIVE", act |-> @.act + 1, cmd |-> NoId]]
        /\ pc' = "raisePort" /\ UNCHANGED todo
     \/ fault.status \notin {"NONE", "RECOVERED"} /\ NextPort /\ UNCHANGED portFault
  /\ UNCHANGED <<portFrame, once, portState, portAlarm, portDowns, alarms, cached, polled,
                 used>>

OpenFault ==
  /\ pc = "openFault"
  /\ portFault' = IF fault.status \in {"NONE", "RECOVERED"}
                  THEN [portFault EXCEPT ![port] =
                          [status |-> "ACTIVE", act |-> @.act + 1, cmd |-> NoId]]
                  ELSE portFault
  /\ pc' = "raisePort"
  /\ UNCHANGED <<portFrame, once, portState, portAlarm, portDowns, alarms, cached, todo,
                 polled, used>>

\* publishPortAlarm: the alarm once per activation, then its counters.
RaisePortAlarm ==
  LET mark == <<"portRaise", port, fault.act>> IN
  /\ pc = "raisePort"
  /\ portAlarm' = IF mark \in once THEN portAlarm
                  ELSE [portAlarm EXCEPT ![port] = fault.act]
  /\ once' = once \cup {mark}
  /\ pc' = "countPort"
  /\ UNCHANGED <<portFrame, portState, portFault, portDowns, alarms, cached, todo, polled,
                 used>>

CountPortAlarm ==
  LET mark == <<"portUp", port, fault.act>> IN
  /\ pc = "countPort"
  /\ AlarmOnce(mark, 1)
  /\ portDowns' = [portDowns EXCEPT ![port] = @ + (IF mark \in once THEN 0 ELSE 1)]
  /\ NextPort
  /\ UNCHANGED <<portFrame, portState, portFault, portAlarm, cached, polled, used>>

\* clearPortAlarm: nothing when there is neither marker nor alarm.
ClearPortAlarm ==
  LET mark == <<"portClear", port, fault.act>> IN
  /\ pc = "clearPort"
  /\ \/ /\ mark \notin once /\ portAlarm[port] = 0
        /\ pc' = "closeFault" /\ UNCHANGED <<portAlarm, once>>
     \/ /\ mark \in once \/ portAlarm[port] # 0
        /\ portAlarm' = IF mark \in once THEN portAlarm
                        ELSE [portAlarm EXCEPT ![port] = 0]
        /\ once' = once \cup {mark}
        /\ pc' = "uncountPort"
  /\ UNCHANGED <<portFrame, portState, portFault, portDowns, alarms, cached, todo, polled,
                 used>>

\* Mutant: the cleared alarm is not counted down.
UncountNothing ==
  /\ pc = "uncountPort"
  /\ pc' = "closeFault"
  /\ UNCHANGED <<portFrame, portDb, alarms, once, cached, todo, polled, used>>

UncountPortAlarm ==
  /\ pc = "uncountPort"
  /\ AlarmOnce(<<"portDown", port, fault.act>>, -1)
  /\ pc' = "closeFault"
  /\ UNCHANGED <<portFrame, portDb, cached, todo, polled, used>>

\* An up port's fault waits for the command it was published with.
ClearedStatus(f) ==
  IF f.status = "ACTIVE" THEN "CLEARED"
  ELSE IF f.status = "RECOVERY_PUBLISHED" /\ f.cmd \in DOMAIN processed
       THEN IF processed[f.cmd] THEN "RECOVERED" ELSE "CLEARED"
  ELSE f.status

CloseFault ==
  /\ pc = "closeFault"
  /\ portFault' = [portFault EXCEPT ![port].status = ClearedStatus(fault)]
  /\ NextPort
  /\ UNCHANGED <<portFrame, once, portState, portAlarm, portDowns, alarms, cached, polled,
                 used>>

PollPorts ==
  \/ PollConnections \/ PollPort \/ OpenFault \/ RaisePortAlarm \/ CountPortAlarm
  \/ ClearPortAlarm \/ UncountPortAlarm \/ CloseFault
=============================================================================
