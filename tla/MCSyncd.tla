------------------------------ MODULE MCSyncd -------------------------------
(* Instances of SyncdPlane for TLC. *)
EXTENDS SyncdPlane

UpsertTo(i, o) == [op |-> "UPSERT", in |-> i, out |-> o, ver |-> 0]
Remove == Removal(0)

\* TLC evaluates a definition without parameters once, but not the one a
\* configuration names; each of those is the name of another.

\* Two connections: created together, the first removed and the second moved.
CreateThenMove ==
  {[c \in Conns |-> UpsertTo(c, c)],
   [c \in Conns |-> IF c = 1 THEN Remove ELSE UpsertTo(1, 1)]}
PairSets == CreateThenMove

\* The first connection is created; it is removed and the second created in
\* its place, in one batch.
CreateThenReplace ==
  {[NoBatch EXCEPT ![1] = UpsertTo(1, 1)],
   [c \in Conns |-> IF c = 1 THEN Remove ELSE UpsertTo(1, 1)]}
ReplacingSets == CreateThenReplace

Published ==
  ({"SET"} \X (1..2)) \cup ({"RECOVERY"} \X (1..3))
    \cup ({"RECONCILE"} \X (1..MaxReconciles))
CommandIds == Published

NoPorts == {}
InputOne == {<<"in", 1>>}

\* Two Sets and nothing else.
Calm == [k \in Kinds |-> IF k = "sets" THEN 2 ELSE 0]

\* One Set, with any two troubles.
TwoOf(S) == {[k \in Kinds |-> IF k \in {"sets"} \cup P THEN 1 ELSE 0] :
               P \in {{p, q} : p, q \in S} \ {{p} : p \in S}}

\* Two Sets, with a crash beside a restart, a fault or a lost reply, or with
\* two restarts.
OverlapTroubles ==
  {[Calm EXCEPT !["crashes"] = 1, ![k] = 1] : k \in {"restarts", "faults", "losses"}}
    \cup {[Calm EXCEPT !["restarts"] = 2]}

AnyTroubles == TwoOf(Kinds \ {"sets"}) \cup OverlapTroubles
SomeTroubles == AnyTroubles

\* What reconciliation and recovery undo: a drift beside a crash, a port that
\* fails once, a restart beside a crash, or two restarts.
Undoing ==
  {[Calm EXCEPT !["crashes"] = 1, !["drifts"] = 1],
   [Calm EXCEPT !["flips"] = 1],
   [Calm EXCEPT !["sets"] = 1, !["crashes"] = 1, !["restarts"] = 1],
   [Calm EXCEPT !["sets"] = 1, !["restarts"] = 2]}
Undone == Undoing

\* One Set and two drifts.
Drifting == {[Calm EXCEPT !["sets"] = 1, !["drifts"] = 2]}
TwoDrifts == Drifting
=============================================================================
