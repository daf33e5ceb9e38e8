------------------------------- MODULE Device -------------------------------
(***************************************************************************)
(* ocs-hwsim's device, SimulatedOcsDevice: the matrix with its port maps,  *)
(* the version fence, ports, injected faults, and the bounded cache that   *)
(* answers a repeated operation id with its first result.  Every method    *)
(* holds the device mutex, so each is one step.  Error texts, optical      *)
(* power, and the calls no process makes (reset, setPortAdminState) are    *)
(* left out.                                                               *)
(***************************************************************************)
EXTENDS Naturals, Sequences, FiniteSets

CONSTANTS
  Conns,      \* connection ids, ordered as the commands of a batch are
  InPorts, OutPorts,
  OpIds,      \* operation ids
  CacheSize   \* kMaxCachedApplyResults

ASSUME DeviceAssumption ==
  /\ Conns \subseteq Nat
  /\ InPorts \subseteq Nat \ {0} /\ OutPorts \subseteq Nat \ {0}
  /\ CacheSize \in Nat \ {0}

VARIABLES
  matrix,       \* connections_
  inMap,        \* input_to_output_, 0 for no connection
  outMap,       \* output_to_input_
  lastVer,      \* last_versions_, 0 for none
  down,         \* the ports whose oper_status is not UP
  failNext,     \* fail_next_apply_
  timeoutNext,  \* timeout_next_apply_
  results,      \* apply_results_, "none" for an id that is not cached
  order,        \* apply_result_order_
  generation

fabric == <<matrix, inMap, outMap, lastVer>>
faults == <<down, failNext, timeoutNext>>
replay == <<results, order>>
deviceVars == <<fabric, faults, replay, generation>>

Command == [op : {"UPSERT", "REMOVE", "NONE"}, in : Nat, out : Nat, ver : Nat]
Gone == [in |-> 0, out |-> 0, ver |-> 0]

Codes == {"OK", "VERSION_STALE", "INVALID_PORT", "PORT_DOWN", "CONFLICT",
          "APPLY_FAILED", "APPLY_TIMEOUT"}

Ports == ({"in"} \X InPorts) \cup ({"out"} \X OutPorts)

Fresh(gen) ==
  /\ matrix' = [c \in Conns |-> Gone] /\ lastVer' = [c \in Conns |-> 0]
  /\ inMap' = [p \in InPorts |-> 0] /\ outMap' = [p \in OutPorts |-> 0]
  /\ down' = {} /\ failNext' = FALSE /\ timeoutNext' = FALSE
  /\ results' = [o \in OpIds |-> "none"] /\ order' = <<>>
  /\ generation' = gen

DeviceInit ==
  /\ matrix = [c \in Conns |-> Gone] /\ lastVer = [c \in Conns |-> 0]
  /\ inMap = [p \in InPorts |-> 0] /\ outMap = [p \in OutPorts |-> 0]
  /\ down = {} /\ failNext = FALSE /\ timeoutNext = FALSE
  /\ results = [o \in OpIds |-> "none"] /\ order = <<>>
  /\ generation = 1

\* The process restarts: everything is lost, the generation is new.
Restart == Fresh(generation + 1)

Present(m) == {c \in Conns : m[c] # Gone}

\* The version fence, over the whole batch before anything else.
\* Mutant: the fence is not consulted.
OvertakenNever(b) == FALSE

Overtaken(b) ==
  \E c \in Conns : b[c].op # "NONE" /\ b[c].ver # 0 /\ lastVer[c] > b[c].ver

PortError(cmd) ==
  IF cmd.op # "UPSERT" THEN "OK"
  ELSE IF cmd.in \notin InPorts THEN "INVALID_PORT"
  ELSE IF <<"in", cmd.in>> \in down THEN "PORT_DOWN"
  ELSE IF cmd.out \notin OutPorts THEN "INVALID_PORT"
  ELSE IF <<"out", cmd.out>> \in down THEN "PORT_DOWN"
  ELSE "OK"

\* The error of the first command with one.
FirstPortError(b) ==
  LET bad == {c \in Conns : PortError(b[c]) # "OK"} IN
  IF bad = {} THEN "OK"
  ELSE PortError(b[CHOOSE c \in bad : \A d \in bad : c <= d])

Candidate(b) ==
  [c \in Conns |->
     CASE b[c].op = "REMOVE" -> Gone
       [] b[c].op = "UPSERT" -> [in |-> b[c].in, out |-> b[c].out, ver |-> b[c].ver]
       [] b[c].op = "NONE"   -> matrix[c]]

Conflicts(m) ==
  \E c, d \in Present(m) : c # d /\ (m[c].in = m[d].in \/ m[c].out = m[d].out)

\* The checks of applyConnections in their order.
Verdict(b) ==
  IF Overtaken(b) THEN "VERSION_STALE"
  ELSE IF FirstPortError(b) # "OK" THEN FirstPortError(b)
  ELSE IF Conflicts(Candidate(b)) THEN "CONFLICT"
  ELSE IF failNext THEN "APPLY_FAILED"
  ELSE IF timeoutNext THEN "APPLY_TIMEOUT"
  ELSE "OK"

MapOf(m, from, to, ports) ==
  [p \in ports |-> IF \E c \in Present(m) : m[c][from] = p
                   THEN m[CHOOSE c \in Present(m) : m[c][from] = p][to] ELSE 0]

\* The swap: matrix, port maps and fence together, or nothing.
Install(b) ==
  /\ matrix' = Candidate(b)
  /\ inMap' = MapOf(Candidate(b), "in", "out", InPorts)
  /\ outMap' = MapOf(Candidate(b), "out", "in", OutPorts)
  /\ lastVer' = [c \in Conns |-> IF b[c].op # "NONE" /\ b[c].ver # 0
                                 THEN b[c].ver ELSE lastVer[c]]

\* `finish`: the result is cached; the oldest one goes when the cache is full.
\* Mutant: only a success is worth caching.
RememberSuccess(o, r) ==
  IF r = "OK"
  THEN /\ results' = [results EXCEPT ![o] = r]
       /\ order' = Append(order, o)
  ELSE UNCHANGED replay

Remember(o, r) ==
  LET full == Len(order) >= CacheSize
      out == IF full THEN {Head(order)} ELSE {} IN
  /\ results' = [p \in OpIds |-> IF p = o THEN r ELSE IF p \in out THEN "none"
                                 ELSE results[p]]
  /\ order' = Append(IF full THEN Tail(order) ELSE order, o)

\* What applyConnections answers.
Answer(o, b) == IF results[o] # "none" THEN results[o] ELSE Verdict(b)

\* applyConnections of a batch whose id is not cached.
Execute(o, b) ==
  LET v == Verdict(b) IN
  /\ IF v = "OK" THEN Install(b) ELSE UNCHANGED fabric
  /\ failNext' = (failNext /\ v # "APPLY_FAILED")
  /\ timeoutNext' = (timeoutNext /\ v # "APPLY_TIMEOUT")
  /\ Remember(o, v)
  /\ UNCHANGED <<down, generation>>

ApplyConnections(o, b) ==
  IF results[o] # "none" THEN UNCHANGED deviceVars ELSE Execute(o, b)

\* injectFault and clearFault.
InjectNext(error, timeout) ==
  /\ failNext' = (failNext \/ error) /\ timeoutNext' = (timeoutNext \/ timeout)
  /\ UNCHANGED <<fabric, down, replay, generation>>

InjectPortDown(p) ==
  down' = down \cup {p} /\ UNCHANGED <<fabric, failNext, timeoutNext, replay, generation>>

ClearPort(p) ==
  down' = down \ {p} /\ UNCHANGED <<fabric, failNext, timeoutNext, replay, generation>>

ClearNext(error, timeout) ==
  /\ failNext' = (failNext /\ ~error) /\ timeoutNext' = (timeoutNext /\ ~timeout)
  /\ UNCHANGED <<fabric, down, replay, generation>>

ClearAll ==
  /\ down' = {} /\ failNext' = FALSE /\ timeoutNext' = FALSE
  /\ UNCHANGED <<fabric, replay, generation>>

\* OUT_OF_BAND_DRIFT: the first connection vanishes, the fence stays.
\* Mutant: only the connection is erased, its ports stay mapped.
DriftKeepsMaps ==
  /\ Present(matrix) # {}
  /\ LET c == CHOOSE c \in Present(matrix) : \A d \in Present(matrix) : c <= d IN
     matrix' = [matrix EXCEPT ![c] = Gone]
  /\ UNCHANGED <<inMap, outMap, lastVer, faults, replay, generation>>

Drift ==
  /\ Present(matrix) # {}
  /\ LET c == CHOOSE c \in Present(matrix) : \A d \in Present(matrix) : c <= d IN
     /\ inMap' = [inMap EXCEPT ![matrix[c].in] = 0]
     /\ outMap' = [outMap EXCEPT ![matrix[c].out] = 0]
     /\ matrix' = [matrix EXCEPT ![c] = Gone]
  /\ UNCHANGED <<lastVer, faults, replay, generation>>
=============================================================================
