------------------------------ MODULE MCControl ------------------------------
(***************************************************************************)
(* Model-checking instances of ControlPlane: the combinations of crashes,  *)
(* faults and restarts that the configurations allow.                      *)
(***************************************************************************)
EXTENDS ControlPlane

Trouble(c, f, r) == [crashes |-> c, faults |-> f, restarts |-> r]

\* Of each one, together.
AllTogether == {Trouble(1, 2, 1)}

\* Two faults and a crash, or two crashes.
BatchTroubles == {Trouble(1, 2, 0), Trouble(2, 0, 0)}

\* Two faults and a crash.
FaultsAndCrash == {Trouble(1, 2, 0)}

\* One of each, for the claim about resumed events.
OneOfEach == {Trouble(1, 1, 1)}
=============================================================================
