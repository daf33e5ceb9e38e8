----------------------- MODULE ConnectionStateMachine -----------------------
(***************************************************************************)
(* The apply status of a connection and its legal moves                    *)
(* (cpp/src/connection_state_machine.cpp), and the two places where        *)
(* ocs-orch walks the machine: startApplyTransition, which a config event  *)
(* takes, and the path of a device result in processResultOne.             *)
(* Pure operators; no state.                                               *)
(***************************************************************************)

ApplyStatus ==
  {"ABSENT", "PENDING_CREATE", "PENDING_UPDATE", "APPLYING", "ACTIVE",
   "PENDING_DELETE", "REMOVING", "FAILED", "RETRY_WAIT", "DRIFTED",
   "RECONCILING"}

Operation == {"UPSERT", "REMOVE"}

\* canTransition: the statuses a connection may move to from s.
Successors(s) ==
  CASE s = "ABSENT"         -> {"PENDING_CREATE"}
    [] s = "PENDING_CREATE" -> {"APPLYING", "FAILED"}
    [] s = "PENDING_UPDATE" -> {"APPLYING", "FAILED"}
    [] s = "APPLYING"       -> {"ACTIVE", "FAILED"}
    [] s = "ACTIVE"         -> {"PENDING_UPDATE", "PENDING_DELETE", "DRIFTED"}
    [] s = "PENDING_DELETE" -> {"REMOVING", "FAILED"}
    [] s = "REMOVING"       -> {"ABSENT", "FAILED"}
    [] s = "FAILED"         -> {"RETRY_WAIT"}
    [] s = "RETRY_WAIT"     -> {"APPLYING", "REMOVING"}
    [] s = "DRIFTED"        -> {"RECONCILING"}
    [] s = "RECONCILING"    -> {"ACTIVE", "FAILED"}

CanTransition(from, to) == to \in Successors(from)

\* The status of a connection whose device command is outstanding.
Executing(op) == IF op = "REMOVE" THEN "REMOVING" ELSE "APPLYING"

InFlight == {"APPLYING", "REMOVING"}

\* The pending status startApplyTransition passes through.
PendingStatus(s, op) ==
  IF op = "REMOVE"
  THEN "PENDING_DELETE"
  ELSE IF s = "ABSENT" THEN "PENDING_CREATE" ELSE "PENDING_UPDATE"

\* startApplyTransition returns Executing(op) or throws: the statuses from
\* which it returns.
CanStartApplyFromRest(s, op) ==
  \/ s \in {"FAILED", "RETRY_WAIT"}
  \/ /\ s \notin {"FAILED", "RETRY_WAIT"}
     /\ CanTransition(s, PendingStatus(s, op))
     /\ CanTransition(PendingStatus(s, op), Executing(op))

CanStartApply(s, op) ==
  \/ s \in InFlight
  \/ /\ s = "FAILED"
     /\ CanTransition(s, "RETRY_WAIT")
     /\ CanTransition("RETRY_WAIT", Executing(op))
  \/ /\ s = "RETRY_WAIT"
     /\ CanTransition(s, Executing(op))
  \/ /\ s \notin InFlight \cup {"FAILED", "RETRY_WAIT"}
     /\ CanTransition(s, PendingStatus(s, op))
     /\ CanTransition(PendingStatus(s, op), Executing(op))

\* The path a recovery result takes from FAILED or RETRY_WAIT to next
\* (recovering_failed_application).
CanRecover(s, next) ==
  LET executing == IF next = "ABSENT" THEN "REMOVING" ELSE "APPLYING"
  IN  /\ s = "FAILED" => CanTransition(s, "RETRY_WAIT")
      /\ CanTransition("RETRY_WAIT", executing)
      /\ CanTransition(executing, next)
=============================================================================
