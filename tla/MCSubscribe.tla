---------------------------- MODULE MCSubscribe -----------------------------
(* Instances of Subscribe for TLC. *)
EXTENDS Subscribe

\* A device with two connections and a port, one of the connections, an alarm.
DevicePaths == <<{"c1", "c2", "p1"}, {"c1"}, {"a1"}>>
=============================================================================
