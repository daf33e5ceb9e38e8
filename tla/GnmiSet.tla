------------------------------ MODULE GnmiSet -------------------------------
(***************************************************************************)
(* Concurrent gNMI Set transactions (RedisConfigRepository.commit in       *)
(* python/gnmi_server/redis_repository.py): an optimistic WATCH, a read of *)
(* the configuration key by key, the candidate, and one MULTI/EXEC, with   *)
(* bounded retries, a deadline and a connection that can be lost.  Every   *)
(* await is a step of its own.                                             *)
(***************************************************************************)
EXTENDS ConfigStore

CONSTANTS
  Clients,          \* Set calls that can be in flight together
  MaxWatchRetries,  \* settings.max_watch_retries
  MaxInputs         \* bound: Set calls, administrative changes, lost connections

ASSUME SetAssumption ==
  /\ MaxWatchRetries \in Nat \ {0} /\ MaxInputs \in Nat
  /\ \A p \in Plans : p \in Seq(SetOperation) /\ p # <<>>

VARIABLES
  requests,   \* config_requests_total
  rejected,   \* config_rejected_total
  admin,      \* administrative changes so far
  losses,     \* connections lost so far
  pc,         \* what a call awaits next
  plan,       \* the parsed request of a call
  read,       \* the revision it read
  seen,       \* the connections it read
  todo,       \* the keys it has still to read
  dirty,      \* a watched key was written since it was watched
  tries,      \* WatchErrors so far
  outcome,    \* what the call returns
  start,      \* ghost: writes to watched keys when the call began
  lost,       \* ghost: connections this call has lost under WATCH
  commits,    \* ghost: MULTI/EXECs of this call that were executed
  mine        \* ghost: the revision the last of them wrote

callVars == <<plan, read, seen, todo, tries, outcome, start, lost, commits, mine>>
vars == <<storeVars, requests, rejected, admin, losses, pc, dirty, callVars>>

Init ==
  /\ StoreInit
  /\ requests = 0 /\ rejected = 0 /\ admin = 0 /\ losses = 0
  /\ pc = [k \in Clients |-> "idle"]
  /\ plan = [k \in Clients |-> <<>>]
  /\ read = [k \in Clients |-> 0]
  /\ seen = [k \in Clients |-> [c \in Conns |-> Absent]]
  /\ todo = [k \in Clients |-> {}]
  /\ dirty = [k \in Clients |-> FALSE]
  /\ tries = [k \in Clients |-> 0]
  /\ outcome = [k \in Clients |-> "none"]
  /\ start = [k \in Clients |-> 0]
  /\ lost = [k \in Clients |-> 0]
  /\ commits = [k \in Clients |-> 0]
  /\ mine = [k \in Clients |-> 0]

Goto(k, step) == pc' = [pc EXCEPT ![k] = step]

\* WATCH is in force from its reply to EXEC or UNWATCH; the port keys join
\* once the candidate is known.
RevisionKey == <<"revision", 0>>
Reading == {"get", "keys", "load", "device", "ports"}
Checking == {"check", "output", "closed", "unwatch", "exec"}
Watching == Reading \cup Checking

\* Mutant: the port keys are never watched.
WatchedNoPorts(k) == IF pc[k] \in Watching THEN {RevisionKey, DeviceKey} ELSE {}

Watched(k) ==
  CASE pc[k] \in Reading -> {RevisionKey, DeviceKey}
    [] pc[k] \in Checking ->
         {RevisionKey, DeviceKey} \cup PortKeys(Working(seen[k], plan[k]))
    [] OTHER -> {}

Touch(key) ==
  dirty' = [k \in Clients |-> dirty[k] \/ key \in Watched(k)]

\* commit: the call is counted before anything else.
Call(k, p) ==
  /\ pc[k] = "idle" /\ requests + admin + losses < MaxInputs
  /\ requests' = requests + 1
  /\ plan' = [plan EXCEPT ![k] = p]
  /\ start' = [start EXCEPT ![k] = revision + admin]
  /\ Goto(k, "watch")
  /\ UNCHANGED <<storeVars, rejected, admin, losses, dirty, read, seen, todo, tries,
                 outcome, lost, commits, mine>>

\* Mutant: a new attempt keeps the conflict of the one before.
WatchStillDirty(k) ==
  /\ pc[k] = "watch"
  /\ dirty' = dirty
  /\ Goto(k, "get")
  /\ UNCHANGED <<storeVars, requests, rejected, admin, losses, callVars>>

Watch(k) ==
  /\ pc[k] = "watch"
  /\ dirty' = [dirty EXCEPT ![k] = FALSE]
  /\ Goto(k, "get")
  /\ UNCHANGED <<storeVars, requests, rejected, admin, losses, callVars>>

GetRevision(k) ==
  /\ pc[k] = "get"
  /\ read' = [read EXCEPT ![k] = revision]
  /\ Goto(k, "keys")
  /\ UNCHANGED <<storeVars, requests, rejected, admin, losses, dirty, plan, seen, todo,
                 tries, outcome, start, lost, commits, mine>>

\* _load_connections: KEYS, then one HGETALL per key in sorted order.
ListKeys(k) ==
  LET keys == {c \in Conns : config[c].present} IN
  /\ pc[k] = "keys"
  /\ todo' = [todo EXCEPT ![k] = keys]
  /\ seen' = [seen EXCEPT ![k] = [c \in Conns |-> Absent]]
  /\ Goto(k, IF keys = {} THEN "device" ELSE "load")
  /\ UNCHANGED <<storeVars, requests, rejected, admin, losses, dirty, plan, read, tries,
                 outcome, start, lost, commits, mine>>

LoadConnection(k, c) ==
  /\ pc[k] = "load"
  /\ c \in todo[k] /\ \A d \in todo[k] : c <= d
  /\ seen' = [seen EXCEPT ![k][c] = config[c]]
  /\ todo' = [todo EXCEPT ![k] = @ \ {c}]
  /\ Goto(k, IF todo[k] = {c} THEN "device" ELSE "load")
  /\ UNCHANGED <<storeVars, requests, rejected, admin, losses, dirty, plan, read, tries,
                 outcome, start, lost, commits, mine>>

Return(k, o) ==
  outcome' = [outcome EXCEPT ![k] = o] /\ Goto(k, "return")

\* An exception leaves _commit_candidate; commit counts it.
Fail(k, o) ==
  outcome' = [outcome EXCEPT ![k] = o] /\ Goto(k, "count")

\* The connections of the candidate, whose ports are read next, and what comes
\* after the last of them.
Candidate(k) == {c \in Conns : Working(seen[k], plan[k])[c].present}
Finish(k) == IF Changes(seen[k], plan[k]) = {} THEN "unwatch" ELSE "exec"

\* _load_port_counts, and build_candidate on what was read.
BuildCandidate(k) ==
  /\ pc[k] = "device"
  /\ \/ /\ DeviceKey \in disabled \/ ~Valid(Working(seen[k], plan[k]))
        /\ Fail(k, "rejected")
     \/ /\ DeviceKey \notin disabled /\ Valid(Working(seen[k], plan[k]))
        /\ Goto(k, IF Candidate(k) = {} THEN Finish(k) ELSE "ports")
        /\ UNCHANGED outcome
  /\ UNCHANGED <<storeVars, requests, rejected, admin, losses, dirty, plan, read, seen,
                 todo, tries, start, lost, commits, mine>>

\* _validate_ports_enabled first watches the port keys of the candidate ...
WatchPorts(k) ==
  /\ pc[k] = "ports"
  /\ todo' = [todo EXCEPT ![k] = Candidate(k)]
  /\ Goto(k, "check")
  /\ UNCHANGED <<storeVars, requests, rejected, admin, losses, dirty, plan, read, seen,
                 tries, outcome, start, lost, commits, mine>>

\* ... then reads the input and the output of each pair, in the order of the
\* inputs, and looks at both.
Turn(k, c) ==
  LET w == Working(seen[k], plan[k]) IN
  c \in todo[k] /\ \A d \in todo[k] : w[c].in <= w[d].in

CheckInput(k, c) ==
  /\ pc[k] = "check" /\ Turn(k, c)
  /\ Goto(k, IF <<"in", Working(seen[k], plan[k])[c].in>> \in disabled
             THEN "closed" ELSE "output")
  /\ UNCHANGED <<storeVars, requests, rejected, admin, losses, dirty, callVars>>

CheckOutput(k, c) ==
  LET enabled == /\ pc[k] = "output"
                 /\ <<"out", Working(seen[k], plan[k])[c].out>> \notin disabled IN
  /\ pc[k] \in {"output", "closed"} /\ Turn(k, c)
  /\ \/ ~enabled /\ Fail(k, "rejected") /\ UNCHANGED todo
     \/ /\ enabled /\ UNCHANGED outcome
        /\ todo' = [todo EXCEPT ![k] = @ \ {c}]
        /\ Goto(k, IF todo[k] = {c} THEN Finish(k) ELSE "check")
  /\ UNCHANGED <<storeVars, requests, rejected, admin, losses, dirty, plan, read, seen,
                 tries, start, lost, commits, mine>>

\* A candidate without changes is not executed: the keys are unwatched and the
\* Set succeeds.
Unwatch(k) ==
  /\ pc[k] = "unwatch"
  /\ Return(k, "ok")
  /\ UNCHANGED <<storeVars, requests, rejected, admin, losses, dirty, plan, read, seen,
                 todo, tries, start, lost, commits, mine>>

\* A WatchError repeats the Set, until the retries are used up.
RaiseWatchError(k) ==
  /\ tries' = [tries EXCEPT ![k] = @ + 1]
  /\ IF tries[k] + 1 < MaxWatchRetries
     THEN Goto(k, "watch") /\ UNCHANGED outcome
     ELSE Fail(k, "unavailable")

\* EXEC is refused when a watched key was written.
ExecRefused(k) ==
  /\ pc[k] = "exec" /\ dirty[k]
  /\ RaiseWatchError(k)
  /\ UNCHANGED <<storeVars, requests, rejected, admin, losses, dirty, plan, read, seen,
                 todo, start, lost, commits, mine>>

\* A connection lost, or a socket timeout, while keys are watched: the client
\* library makes a WatchError of it, whatever was being awaited.
Lose(k) ==
  /\ requests + admin + losses < MaxInputs
  /\ losses' = losses + 1 /\ lost' = [lost EXCEPT ![k] = @ + 1]
  /\ RaiseWatchError(k)

ConnectionLost(k) ==
  /\ pc[k] \in Watching
  /\ Lose(k)
  /\ UNCHANGED <<storeVars, requests, rejected, admin, dirty, plan, read, seen,
                 todo, start, commits, mine>>

\* Mutant: the deadline, too, is answered by another attempt.
ReplyLostRetried(k) == Goto(k, "watch") /\ UNCHANGED <<outcome, tries, losses, lost>>

\* The reply of an executed EXEC does not arrive: the connection is lost, and
\* the Set is repeated although it is committed, or the deadline passes.
ReplyLost(k) ==
  \/ Lose(k)
  \/ Fail(k, "deadline") /\ UNCHANGED <<tries, losses, lost>>

Exec(k) ==
  /\ pc[k] = "exec" /\ ~dirty[k]
  /\ config' = Overwrite(config, seen[k], plan[k], read[k] + 1)
  /\ events' = Append(events, EventOf(seen[k], plan[k], read[k] + 1))
  /\ revision' = read[k] + 1
  /\ commits' = [commits EXCEPT ![k] = @ + 1]
  /\ mine' = [mine EXCEPT ![k] = read[k] + 1]
  /\ Touch(RevisionKey)
  /\ (Return(k, "ok") /\ UNCHANGED <<tries, losses, lost>>) \/ ReplyLost(k)
  /\ UNCHANGED <<disabled, requests, rejected, admin, plan, read, seen, todo, start>>

\* The deadline passes before EXEC is executed, Redis answers with an error,
\* or no connection is to be had for the WATCH.
Interrupted(k) ==
  /\ pc[k] \in {"watch"} \cup Watching
  /\ \E o \in {"deadline", "unavailable"} : Fail(k, o)
  /\ UNCHANGED <<storeVars, requests, rejected, admin, losses, dirty, plan, read, seen,
                 todo, tries, start, lost, commits, mine>>

\* config_rejected_total; a failure to count is suppressed.
CountRejected(k) ==
  /\ pc[k] = "count"
  /\ rejected' \in {rejected, rejected + 1}
  /\ Goto(k, "return")
  /\ UNCHANGED <<storeVars, requests, admin, losses, dirty, callVars>>

\* The response reaches the client.
Respond(k) ==
  /\ pc[k] = "return"
  /\ Goto(k, "idle")
  /\ plan' = [plan EXCEPT ![k] = <<>>]
  /\ read' = [read EXCEPT ![k] = 0]
  /\ seen' = [seen EXCEPT ![k] = [c \in Conns |-> Absent]]
  /\ todo' = [todo EXCEPT ![k] = {}]
  /\ dirty' = [dirty EXCEPT ![k] = FALSE]
  /\ tries' = [tries EXCEPT ![k] = 0]
  /\ outcome' = [outcome EXCEPT ![k] = "none"]
  /\ start' = [start EXCEPT ![k] = 0]
  /\ lost' = [lost EXCEPT ![k] = 0]
  /\ commits' = [commits EXCEPT ![k] = 0]
  /\ mine' = [mine EXCEPT ![k] = 0]
  /\ UNCHANGED <<storeVars, requests, rejected, admin, losses>>

\* An operator enables or disables a port or the device.
SetAdminStatus(key) ==
  /\ requests + admin + losses < MaxInputs /\ admin' = admin + 1
  /\ disabled' = IF key \in disabled THEN disabled \ {key} ELSE disabled \cup {key}
  /\ Touch(key)
  /\ UNCHANGED <<config, revision, events, requests, rejected, losses, pc, callVars>>

CallStep(k) ==
  \/ Watch(k) \/ GetRevision(k) \/ ListKeys(k)
  \/ BuildCandidate(k) \/ WatchPorts(k)
  \/ \E c \in Conns : LoadConnection(k, c) \/ CheckInput(k, c) \/ CheckOutput(k, c)
  \/ Unwatch(k) \/ ExecRefused(k) \/ ConnectionLost(k) \/ Exec(k) \/ Interrupted(k)
  \/ CountRejected(k) \/ Respond(k)

Next ==
  \/ \E k \in Clients, p \in Plans : Call(k, p)
  \/ \E k \in Clients : CallStep(k)
  \/ \E key \in AdminKeys : SetAdminStatus(key)

Spec == Init /\ [][Next]_vars

-----------------------------------------------------------------------------
(* Properties *)

\* No two desired connections share an input or an output port and every port
\* exists, however the Sets interleave: a candidate is validated against
\* connections read one by one, and only the EXEC protects what was read.
NoPortShared ==
  \A c, d \in {e \in Conns : config[e].present} :
    /\ config[c].in \in 1..InCount /\ config[c].out \in 1..OutCount
    /\ config[c].in = config[d].in \/ config[c].out = config[d].out => c = d

\* What _commit_candidate tells the client is true up to lost connections: a
\* Set that was rejected or ran out of retries left no trace, and none is
\* executed more than once, except as often as its connection was lost; a Set
\* that succeeds without being executed had nothing to change.
TruthfulOutcome ==
  \A k \in Clients :
    /\ commits[k] <= lost[k] + 1
    /\ outcome[k] \in {"rejected", "unavailable"} => commits[k] <= lost[k]
    /\ outcome[k] = "ok" /\ commits[k] = 0 => Changes(seen[k], plan[k]) = {}

\* A Set repeated after its reply was lost is executed again only if another
\* Set was committed in between: otherwise the second attempt of _commit_once
\* finds nothing left to change.
RepeatedOverOthers ==
  [][\A k \in Clients : commits[k] > 0 /\ commits'[k] > commits[k]
                         => revision > mine[k]]_vars

\* Sets never livelock: each WatchError of a call is paid for by a connection
\* it lost, or by a write of a watched key that another made during the call,
\* so of the calls that collide one commits.
RetryJustified ==
  \A k \in Clients :
    pc[k] # "idle" => tries[k] <= (revision + admin) - (start[k] + commits[k]) + lost[k]

\* The optimistic transaction implements the atomic store: whatever is written
\* to CONFIG_DB is one whole plan applied to the configuration of that moment,
\* on enabled ports, with the event that says so (no lost update).
ImplementsStore == StoreSpec
=============================================================================
