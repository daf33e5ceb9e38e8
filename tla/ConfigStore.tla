---------------------------- MODULE ConfigStore -----------------------------
(***************************************************************************)
(* What a gNMI client may assume of CONFIG_DB: a Set is one atomic step.   *)
(* It applies a whole plan to the configuration of that moment, only if    *)
(* the resulting candidate is valid and none of its ports, nor the device, *)
(* is administratively disabled, and it appends one event with exactly the *)
(* changes, under the next revision.                                       *)
(***************************************************************************)
EXTENDS SetCandidate

CONSTANT Plans   \* what a client may ask for

VARIABLES
  config,    \* OCS_CONNECTION|device|id
  revision,  \* OCS_CONFIG_REVISION|device
  events,    \* OCS_CONFIG_EVENTS
  disabled   \* the device and port keys with admin_status other than ENABLED

storeVars == <<config, revision, events, disabled>>

StoreInit ==
  /\ config = [c \in Conns |-> Absent]
  /\ revision = 0 /\ events = <<>> /\ disabled = {}

Acceptable(p) ==
  /\ Valid(Working(config, p))
  /\ disabled \cap ({DeviceKey} \cup PortKeys(Working(config, p))) = {}

AtomicSet(p) ==
  /\ revision' = revision + 1 /\ UNCHANGED disabled
  /\ Acceptable(p)
  /\ Changes(config, p) # {}
  /\ config' = Overwrite(config, config, p, revision + 1)
  /\ events' = Append(events, EventOf(config, p, revision + 1))

ChangeAdminStatus(key) ==
  /\ disabled' = IF key \in disabled THEN disabled \ {key} ELSE disabled \cup {key}
  /\ UNCHANGED <<config, revision, events>>

StoreNext ==
  (\E p \in Plans : AtomicSet(p)) \/ (\E key \in AdminKeys : ChangeAdminStatus(key))

StoreSpec == StoreInit /\ [][StoreNext]_storeVars
=============================================================================
