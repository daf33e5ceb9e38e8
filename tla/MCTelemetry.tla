---------------------------- MODULE MCTelemetry -----------------------------
(* Instances of Telemetry for TLC. *)
EXTENDS Telemetry

TwoPaths == <<"connections", "ports">>

Together(writes, S) == [k \in Kinds |-> IF k = "write" THEN writes ELSE IF k \in S THEN 1 ELSE 0]

\* Two writes with an input; one write with an outage, with an input beside
\* a failed refresh or a break, or with a failed refresh beside an abort; an outage
\* beside whatever else ends a stream; refusals until the page gives up.
SomeTroubles ==
  {Together(2, {"input"}), Together(1, {"input", "fail"}), Together(1, {"input", "break"}),
   Together(1, {"fail", "abort"}), Together(1, {"outage"}),
   [Together(0, {}) EXCEPT !["refusal"] = 3]}
  \cup {Together(0, {"outage", k}) : k \in {"fail", "break", "expiry", "abort", "refusal"}}
=============================================================================
