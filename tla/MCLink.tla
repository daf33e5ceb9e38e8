------------------------------- MODULE MCLink -------------------------------
(* Three commands for two connections that share ports: 1 is made, moved   *)
(* aside for 2, and retried at its last version.                           *)
EXTENDS DeviceLink

None == [op |-> "NONE", in |-> 0, out |-> 0, ver |-> 0]
Upsert(i, o, v) == [op |-> "UPSERT", in |-> i, out |-> o, ver |-> v]
Remove(v) == [op |-> "REMOVE", in |-> 0, out |-> 0, ver |-> v]

ThreeCommands ==
  << <<Upsert(1, 1, 1), None>>,
     <<Upsert(2, 1, 2), Upsert(1, 2, 2)>>,
     <<Remove(3), Upsert(1, 2, 2)>> >>
=============================================================================
