--------------------------- MODULE FaultCommands ----------------------------
(***************************************************************************)
(* The managed faults: the gNMI server appends a command to                *)
(* OCS_FAULT_COMMANDS and polls for its result until a deadline; ocs-syncd *)
(* (processFaultOne) takes the commands in order, calls the device, stores *)
(* the result once, and acknowledges last.  What the same thread applies   *)
(* between two commands, using up one-shot faults, is left to SyncdPlane.  *)
(***************************************************************************)
EXTENDS Device, FiniteSetsExt

CONSTANTS
  Requests,     \* the fault commands clients may issue
  MaxCommands,  \* how many of them they issue
  MaxCrashes, MaxLosses

Idle == [r \in DOMAIN Requests |-> "none"]

VARIABLES
  queue,          \* OCS_FAULT_COMMANDS
  acked,          \* the positions acknowledged
  result,         \* OCS_FAULT_RESULT
  client,         \* what the caller was told
  pc, at, code,   \* where syncd is; the position and the result in hand
  late,           \* requests syncd gave up: "may" run still, or "ran"
  performed,      \* requests the device has run
  crashes, losses

faultVars == <<queue, acked, result, client, pc, at, code, late, performed>>
vars == <<deviceVars, faultVars, crashes, losses>>

Init ==
  /\ DeviceInit
  /\ queue = <<>> /\ acked = {} /\ result = Idle /\ client = Idle
  /\ pc = "idle" /\ at = 0 /\ code = "ok" /\ late = Idle /\ performed = {}
  /\ crashes = 0 /\ losses = 0

-----------------------------------------------------------------------------
(* RedisFaultRepository.execute: append, then poll for the result. *)

Issue(r) ==
  /\ client[r] = "none" /\ Len(queue) < MaxCommands
  /\ client' = [client EXCEPT ![r] = "waiting"]
  /\ queue' = Append(queue, r)
  /\ UNCHANGED <<deviceVars, acked, result, pc, at, code, late, performed, crashes, losses>>

PollResult(r) ==
  /\ client[r] = "waiting" /\ result[r] # "none"
  /\ client' = [client EXCEPT ![r] = result[r]]
  /\ UNCHANGED <<deviceVars, queue, acked, result, pc, at, code, late, performed, crashes, losses>>

Deadline(r) ==
  /\ client[r] = "waiting"
  /\ client' = [client EXCEPT ![r] = "deadline"]
  /\ UNCHANGED <<deviceVars, queue, acked, result, pc, at, code, late, performed, crashes, losses>>

-----------------------------------------------------------------------------
(* processFaultOne. *)

command == queue[at]
Left == DOMAIN queue \ acked

\* Mutant: new entries are read although one is pending.
TakePassing ==
  /\ pc = "idle" /\ at' \in Left
  /\ pc' = IF result[queue[at']] = "none" THEN "device" ELSE "ack"
  /\ UNCHANGED <<deviceVars, queue, acked, result, client, code, late, performed, crashes, losses>>

\* Mutant: a command with a result is done and left alone.
TakeUnanswered ==
  /\ pc = "idle" /\ at' \in Left /\ \A i \in Left : at' <= i
  /\ result[queue[at']] = "none"
  /\ pc' = "device"
  /\ UNCHANGED <<deviceVars, queue, acked, result, client, code, late, performed, crashes, losses>>

\* The pending entry is claimed, or the next one read when none is pending;
\* one with a result is only acknowledged.
Take ==
  /\ pc = "idle" /\ at' \in Left /\ \A i \in Left : at' <= i
  /\ pc' = IF result[queue[at']] = "none" THEN "device" ELSE "ack"
  /\ UNCHANGED <<deviceVars, queue, acked, result, client, code, late, performed, crashes, losses>>

\* managedFaultType and the checks after it, and the device's of the port.
Known(f) ==
  /\ f.op \in {"INJECT", "CLEAR"} /\ f.kind \in {"ERROR", "TIMEOUT", "PORT", "ALL"}
  /\ f.kind = "PORT" => f.port \in Ports
  /\ f.kind = "ALL" => f.op = "CLEAR"

\* The device's part of a command.
Perform(f) ==
  CASE f.kind \in {"ERROR", "TIMEOUT"} ->
         IF f.op = "INJECT" THEN InjectNext(f.kind = "ERROR", f.kind = "TIMEOUT")
         ELSE ClearNext(f.kind = "ERROR", f.kind = "TIMEOUT")
    [] f.kind = "PORT" ->
         IF f.op = "INJECT" THEN InjectPortDown(f.port) ELSE ClearPort(f.port)
    [] f.kind = "ALL" -> ClearAll

CallDevice ==
  /\ pc = "device"
  /\ IF Known(Requests[command]) THEN Perform(Requests[command]) /\ code' = "ok"
     ELSE UNCHANGED deviceVars /\ code' = "error"
  /\ performed' = performed \cup {command}
  /\ pc' = "store"
  /\ UNCHANGED <<queue, acked, at, result, client, late, crashes, losses>>

\* No reply: an error is recorded, and the request may run late or never.
\* Mutant: it is recorded as done.
CallLostOk ==
  /\ pc = "device" /\ losses < MaxLosses
  /\ losses' = losses + 1
  /\ late' = [late EXCEPT ![command] = "may"]
  /\ code' = "ok" /\ pc' = "store"
  /\ UNCHANGED <<deviceVars, queue, acked, at, result, client, performed,
                 crashes>>

CallLost ==
  /\ pc = "device" /\ losses < MaxLosses
  /\ losses' = losses + 1
  /\ late' = [late EXCEPT ![command] = "may"]
  /\ code' = "error" /\ pc' = "store"
  /\ UNCHANGED <<deviceVars, queue, acked, at, result, client, performed,
                 crashes>>

RunLate(r) ==
  /\ late[r] = "may" /\ Known(Requests[r])
  /\ Perform(Requests[r])
  /\ late' = [late EXCEPT ![r] = "ran"] /\ performed' = performed \cup {r}
  /\ UNCHANGED <<queue, acked, result, client, pc, at, code, crashes, losses>>

StoreResult ==
  /\ pc = "store"
  /\ result' = [result EXCEPT ![command] = IF @ = "none" THEN code ELSE @]
  /\ pc' = "ack" /\ code' = "ok"
  /\ UNCHANGED <<deviceVars, queue, acked, at, client, late, performed,
                 crashes, losses>>

Acknowledge ==
  /\ pc = "ack"
  /\ acked' = acked \cup {at} /\ pc' = "idle" /\ at' = 0
  /\ UNCHANGED <<deviceVars, queue, result, client, code, late, performed, crashes, losses>>

Crash ==
  /\ pc # "idle" /\ crashes < MaxCrashes
  /\ crashes' = crashes + 1
  /\ pc' = "idle" /\ at' = 0 /\ code' = "ok"
  /\ UNCHANGED <<deviceVars, queue, acked, result, client, late, performed,
                 losses>>

ProcessFaultOne == Take \/ CallDevice \/ StoreResult \/ Acknowledge

Next ==
  \/ \E r \in DOMAIN Requests : Issue(r) \/ PollResult(r) \/ Deadline(r) \/ RunLate(r)
  \/ ProcessFaultOne \/ CallLost \/ Crash

Spec == Init /\ [][Next]_vars

\* The loop of ocs-syncd keeps calling processFaultOne.
FairSpec == Spec /\ WF_vars(ProcessFaultOne)

-----------------------------------------------------------------------------
(* Properties *)

Touches(r, p) ==
  Known(Requests[r]) /\ (Requests[r].kind = "ALL" \/ (Requests[r].kind = "PORT" /\ Requests[r].port = p))
Commands(p) == {i \in 1..Len(queue) : Touches(queue[i], p)}

\* When every command is done, a port is as the last command about it says,
\* unless one about it has failed or was given up once: a command repeated
\* after a crash never undoes a later one.
PortsAsCommanded ==
  (pc = "idle" /\ Left = {}) =>
    \A p \in Ports :
      (Commands(p) # {} /\ \A i \in Commands(p) : result[queue[i]] = "ok" /\ late[queue[i]] = "none") =>
        LET last == Max(Commands(p))
        IN  (p \in down) <=> Requests[queue[last]].op = "INJECT"

\* A caller is told of success only when the device has run the command: a
\* lost reply or a crash never becomes a false success.
NoFalseSuccess == \A r \in DOMAIN Requests : client[r] = "ok" => r \in performed

\* Every command gets its result and is acknowledged, whatever crashes or is
\* lost, so that the next one is read.
StreamDrains == <>[](Left = {} /\ \A i \in 1..Len(queue) : result[queue[i]] # "none")
=============================================================================
