---------------------------- MODULE FaultProofs -----------------------------
(***************************************************************************)
(* A caller is never told of a success that the device has not seen, and   *)
(* the ports end as the last commands say, for any number of fault         *)
(* commands, callers, ports, crashes and lost replies.                     *)
(***************************************************************************)
EXTENDS FaultCommands, WellFoundedInduction, TLAPS

Ids == DOMAIN Requests

\* What is on its way to a caller: the position in hand is one of the stream,
\* and an "ok" in hand, stored or reported is of a command that was run.
FaultInv ==
  /\ queue \in Seq(Ids) /\ DOMAIN result = Ids /\ DOMAIN client = Ids
  /\ pc # "idle" => at \in 1..Len(queue)
  /\ pc = "store" /\ code = "ok" => command \in performed
  /\ \A r \in Ids : result[r] = "ok" \/ client[r] = "ok" => r \in performed

\* Nothing has been issued yet.
LEMMA FaultInit == Init => FaultInv
  BY DEF Init, FaultInv, Idle, Ids

\* What execute does: a command is appended behind the one in hand, and only
\* what is stored is reported.
LEMMA CallerStep ==
  ASSUME FaultInv, NEW r \in Ids, Issue(r) \/ PollResult(r) \/ Deadline(r)
  PROVE  FaultInv'
  <1>1. CASE Issue(r)
    <2>1. queue' \in Seq(Ids) /\ \A i \in 1..Len(queue) : i \in 1..Len(queue') /\ queue'[i] = queue[i]
      BY <1>1 DEF Issue, FaultInv
    <2> QED BY Zenon, <1>1, <2>1 DEF Issue, FaultInv, command
  <1>2. CASE PollResult(r)
    BY Zenon, <1>2 DEF PollResult, FaultInv, command
  <1>3. CASE Deadline(r)
    BY Zenon, <1>3 DEF Deadline, FaultInv, command
  <1> QED BY Zenon, <1>1, <1>2, <1>3

\* What processFaultOne does: an "ok" comes from the device call only, and is
\* stored before it is acknowledged.
LEMMA SyncdStep ==
  ASSUME FaultInv, ProcessFaultOne \/ CallLost \/ Crash \/ \E r \in Ids : RunLate(r)
  PROVE  FaultInv'
  <1>1. CASE Take
    BY <1>1 DEF Take, Left, FaultInv, command
  <1>2. CASE CallDevice
    <2>1. performed \subseteq performed' /\ pc' = "store" /\ command \in performed' /\ command' = command
      BY Zenon, <1>2 DEF CallDevice, command
    <2> QED BY Zenon, <1>2, <2>1 DEF CallDevice, FaultInv
  <1>3. CASE StoreResult
    <2>1. command \in Ids
      BY <1>3 DEF StoreResult, FaultInv, command
    <2> QED BY Zenon, <1>3, <2>1 DEF StoreResult, FaultInv
  <1>4. CASE Acknowledge
    BY Zenon, <1>4 DEF Acknowledge, FaultInv
  <1>5. CASE CallLost
    BY Zenon, <1>5 DEF CallLost, FaultInv
  <1>6. CASE Crash
    BY Zenon, <1>6 DEF Crash, FaultInv
  <1>7. CASE \E r \in Ids : RunLate(r)
    BY Zenon, <1>7 DEF RunLate, FaultInv, command
  <1> QED BY Zenon, <1>1, <1>2, <1>3, <1>4, <1>5, <1>6, <1>7 DEF ProcessFaultOne

\* A caller of execute is told of success only when the device has run the
\* command: neither a lost reply, a crash of ocs-syncd between any two of its
\* calls nor a replay becomes a false success.
THEOREM SuccessIsNeverInvented == Spec => []NoFalseSuccess
  <1>1. FaultInv /\ [Next]_vars => FaultInv'
    <2> SUFFICES ASSUME FaultInv, [Next]_vars PROVE FaultInv'
      BY Zenon
    <2>1. CASE Next
      BY Zenon, <2>1, CallerStep, SyncdStep DEF Next, Ids
    <2>2. CASE UNCHANGED vars
      BY Zenon, <2>2 DEF FaultInv, command, vars, faultVars
    <2> QED BY Zenon, <2>1, <2>2
  <1>2. FaultInv => NoFalseSuccess
    BY Zenon DEF FaultInv, NoFalseSuccess, Ids
  <1> QED BY <1>1, <1>2, FaultInit, PTL DEF Spec

-----------------------------------------------------------------------------
(* The order of the commands. *)

\* The commands about a port that the device has run.
Ran(p) == {i \in Commands(p) : queue[i] \in performed}

\* Commands are acknowledged in the order of the stream, each is issued once,
\* and nothing behind the first one left was sent to the device.
StreamInv ==
  /\ DOMAIN late = Ids
  /\ acked \subseteq DOMAIN queue
  /\ \A i \in acked, j \in Left : i < j
  /\ pc # "idle" => at \in Left /\ \A j \in Left : at <= j
  /\ \A i, j \in DOMAIN queue : queue[i] = queue[j] => i = j
  /\ \A i \in DOMAIN queue : client[queue[i]] # "none"
  /\ \A r \in Ids : (r \in performed \/ late[r] # "none") =>
       \E i \in DOMAIN queue : queue[i] = r /\ \A j \in Left : i <= j

\* Unless a command about it was given up, a port is as the last command about
\* it that the device has run says.
PortInv ==
  \A p \in Ports :
    (\A i \in Commands(p) : late[queue[i]] = "none") =>
      \A i \in Ran(p) : (\A j \in Ran(p) : j <= i) =>
        ((p \in down) <=> Requests[queue[i]].op = "INJECT")

\* The device's part of a command sets the ports it is about, and no other.
LEMMA PerformSetsPorts ==
  ASSUME NEW r \in Ids, Known(Requests[r]), Perform(Requests[r]), NEW p \in Ports
  PROVE  /\ Touches(r, p)  => ((p \in down') <=> Requests[r].op = "INJECT")
         /\ ~Touches(r, p) => ((p \in down') <=> (p \in down))
  <1> DEFINE f == Requests[r]
  <1>1. f.op \in {"INJECT", "CLEAR"} /\ (f.kind = "ALL" => f.op = "CLEAR")
    BY Zenon DEF Known
  <1>2. CASE f.kind \in {"ERROR", "TIMEOUT"}
    <2>1. down' = down
      BY Zenon, <1>2 DEF Perform, InjectNext, ClearNext
    <2>2. ~Touches(r, p)
      BY Zenon, <1>2 DEF Touches
    <2> QED BY Zenon, <2>1, <2>2
  <1>3. CASE f.kind = "PORT"
    <2>1. IF f.op = "INJECT" THEN down' = down \cup {f.port} ELSE down' = down \ {f.port}
      BY Zenon, <1>3 DEF Perform, InjectPortDown, ClearPort
    <2>2. Touches(r, p) <=> f.port = p
      BY Zenon, <1>3 DEF Touches
    <2> QED BY Zenon, <2>1, <2>2
  <1>4. CASE f.kind = "ALL"
    <2>1. down' = {} /\ f.op # "INJECT"
      BY Zenon, <1>1, <1>4 DEF Perform, ClearAll
    <2>2. Touches(r, p)
      BY Zenon, <1>4 DEF Touches
    <2> QED BY Zenon, <2>1, <2>2
  <1> QED BY Zenon, <1>2, <1>3, <1>4 DEF Known

\* Nothing has been issued yet.
LEMMA StreamInit == Init => StreamInv /\ PortInv
  BY DEF Init, StreamInv, PortInv, Idle, Ids, Left, Ran, Commands

\* Issuing a command puts a new one behind all others.
LEMMA IssueKeepsOrder ==
  ASSUME FaultInv, StreamInv, PortInv, NEW r \in Ids, Issue(r)
  PROVE  StreamInv' /\ PortInv'
  <1> DEFINE n == Len(queue)
  <1>1. /\ n \in Nat /\ DOMAIN queue = 1 .. n /\ DOMAIN queue' = 1 .. (n + 1)
        /\ Len(queue') = n + 1
        /\ queue'[n + 1] = r /\ \A i \in 1 .. n : queue'[i] = queue[i]
    BY DEF Issue, FaultInv
  <1>2. \A i \in 1 .. n : queue[i] \in Ids /\ queue[i] # r
    BY <1>1 DEF Issue, FaultInv, StreamInv
  <1>3. r \notin performed /\ late[r] = "none"
    BY <1>1, <1>2 DEF StreamInv
  <1>4. /\ client' = [client EXCEPT ![r] = "waiting"]
        /\ UNCHANGED <<down, acked, pc, at, late, performed>>
    BY Zenon DEF Issue, deviceVars, faults
  <1>5. Left' = Left \cup {n + 1}
    BY <1>1, <1>4 DEF Left, StreamInv
  <1>6. ASSUME NEW s \in Ids, s \in performed \/ late[s] # "none"
        PROVE  \E i \in DOMAIN queue' : queue'[i] = s /\ \A j \in Left' : i <= j
    <2>1. PICK i \in DOMAIN queue : queue[i] = s /\ \A j \in Left : i <= j
      BY Zenon, <1>6 DEF StreamInv
    <2>2. \A j \in Left' : i <= j
      BY <1>1, <1>5, <2>1
    <2> QED BY <1>1, <2>1, <2>2
  <1>7. \A i \in DOMAIN queue' : client'[queue'[i]] # "none"
    BY <1>1, <1>2, <1>4 DEF FaultInv, StreamInv
  <1>8. \A i, j \in DOMAIN queue' : queue'[i] = queue'[j] => i = j
    BY <1>1, <1>2 DEF StreamInv
  <1>9. \A i \in acked', j \in Left' : i < j
    BY <1>1, <1>4, <1>5 DEF StreamInv
  <1>10. pc' # "idle" => at' \in Left' /\ \A j \in Left' : at' <= j
    BY <1>1, <1>4, <1>5 DEF StreamInv, Left
  <1>11. StreamInv'
    BY <1>1, <1>4, <1>6, <1>7, <1>8, <1>9, <1>10 DEF StreamInv
  <1>12. ASSUME NEW p \in Ports
         PROVE  /\ Commands(p) \subseteq Commands(p)' /\ Ran(p)' = Ran(p)
                /\ \A i \in Commands(p) : queue'[i] = queue[i]
    <2>1. \A i \in 1 .. n : i \in Commands(p)' <=> i \in Commands(p)
      BY <1>1 DEF Commands, Touches
    <2>2. \A i \in Commands(p) : i \in 1 .. n
      BY Zenon DEF Commands
    <2>3. \A i \in Commands(p)' : i \in 1 .. n \/ i = n + 1
      BY <1>1 DEF Commands
    <2> QED BY Zenon, <1>1, <1>3, <1>4, <2>1, <2>2, <2>3 DEF Ran
  <1>13. PortInv'
    <2> SUFFICES ASSUME NEW p \in Ports, \A i \in Commands(p)' : late'[queue'[i]] = "none",
                        NEW i \in Ran(p)', \A j \in Ran(p)' : j <= i
                 PROVE  (p \in down') <=> Requests[queue'[i]].op = "INJECT"
      BY Zenon DEF PortInv
    <2>1. \A k \in Commands(p) : late[queue[k]] = "none"
      BY Zenon, <1>4, <1>12
    <2>2. i \in Ran(p) /\ i \in Commands(p) /\ \A j \in Ran(p) : j <= i
      BY Zenon, <1>12 DEF Ran
    <2> QED BY Zenon, <1>4, <1>12, <2>1, <2>2 DEF PortInv
  <1> QED BY Zenon, <1>11, <1>13

\* A step that runs nothing and gives nothing up leaves the ports alone.
LEMMA PortFrame ==
  ASSUME PortInv, UNCHANGED <<queue, late, performed, down>>
  PROVE  PortInv'
  BY Zenon DEF PortInv, Ran, Commands

\* Running the command in hand: it is the last one run so far.
LEMMA CallDeviceSetsPorts ==
  ASSUME FaultInv, StreamInv, PortInv, CallDevice
  PROVE  StreamInv' /\ PortInv'
  <1>1. /\ at \in DOMAIN queue /\ at \in Left /\ \A j \in Left : at <= j
        /\ command \in Ids /\ DOMAIN queue = 1 .. Len(queue) /\ Len(queue) \in Nat
    BY DEF CallDevice, FaultInv, StreamInv, command, Left
  <1>2. /\ UNCHANGED <<queue, acked, at, client, late>> /\ pc' # "idle"
        /\ performed' = performed \cup {queue[at]}
    BY Zenon DEF CallDevice, command
  <1>3. Left' = Left
    BY Zenon, <1>2 DEF Left
  <1>4. StreamInv'
    BY <1>1, <1>2, <1>3 DEF StreamInv, command
  <1>5. ASSUME NEW i \in DOMAIN queue, queue[i] \in performed PROVE i <= at
    <2>1. queue[i] \in Ids
      BY <1>5 DEF FaultInv
    <2>2. PICK k \in DOMAIN queue : queue[k] = queue[i] /\ \A j \in Left : k <= j
      BY Zenon, <1>5, <2>1 DEF StreamInv
    <2>3. k = i
      BY Zenon, <2>2 DEF StreamInv
    <2> QED BY Zenon, <1>1, <2>2, <2>3
  <1>6. PortInv'
    <2> SUFFICES ASSUME NEW p \in Ports, \A i \in Commands(p)' : late'[queue'[i]] = "none",
                        NEW i \in Ran(p)', \A j \in Ran(p)' : j <= i
                 PROVE  (p \in down') <=> Requests[queue'[i]].op = "INJECT"
      BY Zenon DEF PortInv
    <2>1. Commands(p)' = Commands(p) /\ queue' = queue /\ late' = late
      BY Zenon, <1>2 DEF Commands
    <2>2. CASE Touches(queue[at], p)
      <3>1. at \in Commands(p)
        BY Zenon, <1>1, <2>2 DEF Commands
      <3>2. at \in Ran(p)'
        BY Zenon, <1>2, <2>1, <3>1 DEF Ran
      <3>3. i \in DOMAIN queue /\ (queue[i] \in performed \/ i = at)
        <4>1. i \in Commands(p) /\ queue[i] \in performed'
          BY Zenon, <2>1 DEF Ran
        <4>2. i \in DOMAIN queue
          BY Zenon, <1>1, <4>1 DEF Commands
        <4> QED BY Zenon, <1>1, <1>2, <4>1, <4>2 DEF StreamInv
      <3>4. i = at
        BY <1>1, <1>5, <3>2, <3>3
      <3>5. Known(Requests[queue[at]]) /\ Perform(Requests[queue[at]])
        BY Zenon, <2>2 DEF CallDevice, Touches, command
      <3> QED BY Zenon, <1>1, <2>1, <2>2, <3>4, <3>5, PerformSetsPorts DEF command
    <2>3. CASE ~Touches(queue[at], p)
      <3>1. at \notin Commands(p)
        BY Zenon, <2>3 DEF Commands
      <3>2. Ran(p)' = Ran(p)
        <4>1. \A k \in Commands(p) : k \in DOMAIN queue /\ queue[k] # queue[at]
          BY Zenon, <1>1, <3>1 DEF Commands, StreamInv
        <4> QED BY <1>2, <2>1, <4>1 DEF Ran
      <3>3. (p \in down') <=> (p \in down)
        <4>1. CASE Known(Requests[queue[at]])
          BY Zenon, <1>1, <2>3, <4>1, PerformSetsPorts DEF CallDevice, command
        <4>2. CASE ~Known(Requests[queue[at]])
          BY Zenon, <4>2 DEF CallDevice, command, deviceVars, faults
        <4> QED BY Zenon, <4>1, <4>2
      <3> QED BY Zenon, <2>1, <3>2, <3>3 DEF PortInv
    <2> QED BY Zenon, <2>2, <2>3
  <1> QED BY Zenon, <1>4, <1>6

\* A request that was given up runs late: it was issued, and the ports it is
\* about are no longer promised anything.
LEMMA RunLateKeepsOrder ==
  ASSUME FaultInv, StreamInv, PortInv, NEW r \in Ids, RunLate(r)
  PROVE  StreamInv' /\ PortInv'
  <1>1. PICK k \in DOMAIN queue : queue[k] = r /\ \A j \in Left : k <= j
    BY Zenon DEF RunLate, StreamInv
  <1>2. /\ UNCHANGED <<queue, acked, at, client, pc>>
        /\ late[r] = "may" /\ late' = [late EXCEPT ![r] = "ran"]
        /\ performed' = performed \cup {r}
    BY Zenon DEF RunLate
  <1>3. Left' = Left /\ DOMAIN late' = Ids /\ late'[r] = "ran"
        /\ \A s \in Ids \ {r} : late'[s] = late[s]
    BY Zenon, <1>2 DEF Left, StreamInv
  <1>4. StreamInv'
    BY Zenon, <1>1, <1>2, <1>3 DEF StreamInv
  <1>5. PortInv'
    <2> SUFFICES ASSUME NEW p \in Ports, \A i \in Commands(p)' : late'[queue'[i]] = "none",
                        NEW i \in Ran(p)', \A j \in Ran(p)' : j <= i
                 PROVE  (p \in down') <=> Requests[queue'[i]].op = "INJECT"
      BY Zenon DEF PortInv
    <2>1. Commands(p)' = Commands(p) /\ queue' = queue
      BY Zenon, <1>2 DEF Commands
    <2>2. DOMAIN queue = 1 .. Len(queue)
      BY DEF FaultInv
    <2>3. k \notin Commands(p)
      BY Zenon, <1>1, <1>3, <2>1
    <2>4. ~Touches(r, p)
      BY Zenon, <1>1, <2>2, <2>3 DEF Commands
    <2>5. \A j \in Commands(p) : queue[j] # r /\ queue[j] \in Ids
      BY <1>1, <2>2, <2>3 DEF Commands, StreamInv, FaultInv
    <2>6. Ran(p)' = Ran(p)
      BY Zenon, <1>2, <2>1, <2>5 DEF Ran
    <2>7. \A j \in Commands(p) : late[queue[j]] = "none"
      BY Zenon, <1>3, <2>1, <2>5
    <2>8. (p \in down') <=> (p \in down)
      BY Zenon, <2>4, PerformSetsPorts DEF RunLate
    <2> QED BY Zenon, <2>1, <2>6, <2>7, <2>8 DEF PortInv
  <1> QED BY Zenon, <1>4, <1>5

\* Giving up the command in hand.
LEMMA CallLostKeepsOrder ==
  ASSUME FaultInv, StreamInv, PortInv, CallLost
  PROVE  StreamInv' /\ PortInv'
  <1>1. /\ at \in DOMAIN queue /\ at \in Left /\ \A j \in Left : at <= j
        /\ queue[at] \in Ids /\ DOMAIN queue = 1 .. Len(queue)
    BY DEF CallLost, FaultInv, StreamInv, Left
  <1>2. /\ UNCHANGED <<queue, acked, at, client, performed, down>> /\ pc' # "idle"
        /\ late' = [late EXCEPT ![queue[at]] = "may"]
    BY Zenon DEF CallLost, command, deviceVars, faults
  <1>3. Left' = Left /\ DOMAIN late' = Ids /\ late'[queue[at]] = "may"
        /\ \A s \in Ids \ {queue[at]} : late'[s] = late[s]
    BY Zenon, <1>1, <1>2 DEF Left, StreamInv
  <1>4. StreamInv'
    BY Zenon, <1>1, <1>2, <1>3 DEF StreamInv
  <1>5. PortInv'
    <2> SUFFICES ASSUME NEW p \in Ports, \A i \in Commands(p)' : late'[queue'[i]] = "none",
                        NEW i \in Ran(p)', \A j \in Ran(p)' : j <= i
                 PROVE  (p \in down') <=> Requests[queue'[i]].op = "INJECT"
      BY Zenon DEF PortInv
    <2>1. Commands(p)' = Commands(p) /\ queue' = queue /\ Ran(p)' = Ran(p)
      BY Zenon, <1>2 DEF Commands, Ran
    <2>2. \A j \in Commands(p) : queue[j] \in Ids
      BY <1>1 DEF Commands, FaultInv
    <2>3. \A j \in Commands(p) : late[queue[j]] = "none"
      BY Zenon, <1>3, <2>1, <2>2
    <2> QED BY Zenon, <1>2, <2>1, <2>3 DEF PortInv
  <1> QED BY Zenon, <1>4, <1>5

\* The other steps run nothing: a command is taken, answered and acknowledged
\* in the order of the stream.
LEMMA OthersKeepOrder ==
  ASSUME FaultInv, StreamInv, PortInv,
         \/ Take \/ StoreResult \/ Acknowledge \/ Crash
         \/ \E r \in Ids : PollResult(r) \/ Deadline(r)
  PROVE  StreamInv' /\ PortInv'
  <1>1. UNCHANGED <<queue, late, performed, down>>
    BY Zenon DEF Take, StoreResult, Acknowledge, Crash, PollResult, Deadline, deviceVars, faults
  <1>2. PortInv'
    BY Zenon, <1>1, PortFrame
  <1>3. CASE Take \/ StoreResult \/ Crash
    <2>1. Left' = Left /\ acked' = acked /\ client' = client
      BY Zenon, <1>1, <1>3 DEF Take, StoreResult, Crash, Left
    <2>2. pc' # "idle" => at' \in Left /\ \A j \in Left : at' <= j
      BY <1>3 DEF Take, StoreResult, Crash, StreamInv
    <2> QED BY <1>1, <1>2, <2>1, <2>2 DEF StreamInv
  <1>4. CASE Acknowledge
    <2>1. at \in Left /\ (\A j \in Left : at <= j) /\ Left \subseteq Nat
      BY <1>4 DEF Acknowledge, StreamInv, Left, FaultInv
    <2>2. Left' = Left \ {at} /\ acked' = acked \cup {at} /\ pc' = "idle" /\ client' = client
      BY Zenon, <1>1, <1>4 DEF Acknowledge, Left
    <2>3. acked' \subseteq DOMAIN queue'
      BY Zenon, <1>1, <2>1, <2>2 DEF StreamInv, Left
    <2>4. \A i \in acked', j \in Left' : i < j
      BY <2>1, <2>2 DEF StreamInv
    <2> QED BY <1>1, <1>2, <2>2, <2>3, <2>4 DEF StreamInv
  <1>5. ASSUME NEW r \in Ids, PollResult(r) \/ Deadline(r) PROVE StreamInv'
    <2>1. Left' = Left /\ acked' = acked /\ pc' = pc /\ at' = at
      BY Zenon, <1>1, <1>5 DEF PollResult, Deadline, Left
    <2>2. \A s \in Ids : client[s] # "none" => client'[s] # "none"
      BY Zenon, <1>5 DEF PollResult, Deadline, FaultInv
    <2>3. \A i \in DOMAIN queue : client'[queue[i]] # "none"
      BY <2>2 DEF FaultInv, StreamInv
    <2> QED BY Zenon, <1>1, <2>1, <2>3 DEF StreamInv
  <1> QED BY Zenon, <1>2, <1>3, <1>4, <1>5

\* Max of a nonempty set of positions is its largest member.
LEMMA MaxPosition ==
  ASSUME NEW n \in Nat, NEW S \in SUBSET (1 .. n), S # {}
  PROVE  Max(S) \in S /\ \A j \in S : j <= Max(S)
  <1> DEFINE T == {n - i : i \in S}
             R == OpToRel(<, Nat)
  <1>1. T \subseteq Nat /\ T # {}
    <2>1. \A i \in S : n - i \in Nat
      OBVIOUS
    <2> QED BY Zenon, <2>1
  <1>2. IsWellFoundedOn(R, Nat)
    BY Zenon, NatLessThanWellFounded
  <1>3. \A x, y \in Nat : <<y, x>> \in R <=> y < x
    BY Zenon DEF OpToRel
  <1> HIDE DEF R
  <1>4. PICK x \in T : \A y \in T : ~(<<y, x>> \in R)
    <2> HIDE DEF T
    <2> QED BY Zenon, <1>1, <1>2, WFMin
  <1>5. PICK i \in S : x = n - i
    BY Zenon, <1>4
  <1>6. \A j \in S : ~(n - j < x)
    BY Zenon, <1>1, <1>3, <1>4
  <1>7. \A j \in S : i >= j
    BY <1>5, <1>6
  <1> QED BY Zenon, <1>7 DEF Max

\* When every command of OCS_FAULT_COMMANDS is acknowledged, a port is as the
\* last command about it says: a command that processFaultOne repeats after a
\* crash never undoes a later one.
THEOREM PortsEndAsCommanded == Spec => []PortsAsCommanded
  <1> DEFINE I == FaultInv /\ StreamInv /\ PortInv
  <1>1. I /\ [Next]_vars => I'
    <2> SUFFICES ASSUME FaultInv, StreamInv, PortInv, [Next]_vars PROVE I'
      BY Zenon
    <2>1. CASE Next
      <3>1. FaultInv'
        BY Zenon, <2>1, CallerStep, SyncdStep DEF Next, Ids
      <3>2. ASSUME NEW r \in Ids, Issue(r) \/ PollResult(r) \/ Deadline(r) \/ RunLate(r)
            PROVE  StreamInv' /\ PortInv'
        BY Zenon, <3>2, IssueKeepsOrder, OthersKeepOrder, RunLateKeepsOrder
      <3>3. ASSUME ProcessFaultOne \/ CallLost \/ Crash PROVE StreamInv' /\ PortInv'
        BY Zenon, <3>3, CallDeviceSetsPorts, CallLostKeepsOrder, OthersKeepOrder DEF ProcessFaultOne
      <3> QED BY Zenon, <2>1, <3>1, <3>2, <3>3 DEF Next, Ids
    <2>2. CASE UNCHANGED vars
      <3>1. FaultInv'
        BY Zenon, <2>2 DEF FaultInv, command, vars, faultVars
      <3>2. StreamInv'
        BY <2>2 DEF StreamInv, Left, vars, faultVars
      <3>3. PortInv'
        BY Zenon, <2>2, PortFrame DEF vars, faultVars, deviceVars, faults
      <3> QED BY Zenon, <3>1, <3>2, <3>3
    <2> QED BY Zenon, <2>1, <2>2
  <1>2. I => PortsAsCommanded
    <2> SUFFICES ASSUME FaultInv, StreamInv, PortInv, pc = "idle", Left = {}, NEW p \in Ports,
                        Commands(p) # {},
                        \A i \in Commands(p) : result[queue[i]] = "ok" /\ late[queue[i]] = "none"
                 PROVE  (p \in down) <=> Requests[queue[Max(Commands(p))]].op = "INJECT"
      BY Zenon DEF PortsAsCommanded
    <2>1. Len(queue) \in Nat /\ Commands(p) \in SUBSET (1 .. Len(queue))
      BY DEF FaultInv, Commands
    <2>2. Max(Commands(p)) \in Commands(p) /\ \A j \in Commands(p) : j <= Max(Commands(p))
      BY Zenon, <2>1, MaxPosition
    <2>3. Ran(p) = Commands(p)
      BY <2>1 DEF Ran, FaultInv
    <2> QED BY Zenon, <2>2, <2>3 DEF PortInv
  <1> QED BY <1>1, <1>2, FaultInit, StreamInit, PTL DEF Spec
=============================================================================
