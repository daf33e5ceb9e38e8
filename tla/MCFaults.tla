------------------------------ MODULE MCFaults ------------------------------
(* Instances of FaultCommands for TLC. *)
EXTENDS FaultCommands

Inject(k, p) == [op |-> "INJECT", kind |-> k, port |-> p]
Clear(k, p) == [op |-> "CLEAR", kind |-> k, port |-> p]

\* A port goes down and up again, a one-shot fault comes and goes, everything
\* is cleared, a port is named that there is not,
\* and all faults are asked for at once.
SomeRequests ==
  <<Inject("PORT", <<"in", 1>>), Clear("PORT", <<"in", 1>>),
    Inject("TIMEOUT", <<"in", 0>>), Clear("TIMEOUT", <<"in", 0>>),
    Clear("ALL", <<"in", 0>>), Inject("PORT", <<"in", 9>>), Inject("ALL", <<"in", 0>>)>>
=============================================================================
