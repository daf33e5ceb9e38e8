---------------------------- MODULE SetCandidate ----------------------------
(***************************************************************************)
(* What one gNMI Set asks for (python/gnmi_server/set_transaction.py): the *)
(* operations of the request applied in order to the desired connections   *)
(* of one device, the validation of the complete candidate, and the        *)
(* changes that are written.  Timestamps and admin_status (only "ENABLED"  *)
(* is accepted for a connection) are left out.                             *)
(***************************************************************************)
EXTENDS Naturals, Sequences

CONSTANTS
  Conns,     \* connection ids, ordered as the keys of CONFIG_DB are
  InCount,   \* input_port_count of the device
  OutCount   \* output_port_count of the device

ASSUME PortAssumption ==
  Conns \subseteq Nat /\ InCount \in Nat \ {0} /\ OutCount \in Nat \ {0}

\* A desired connection; `present` is FALSE when the key does not exist.  A
\* port is 0 when an update created the connection without naming it.
Absent == [present |-> FALSE, in |-> 0, out |-> 0, ver |-> 0]

\* One parsed operation.  A port 0 is a field that the value leaves out: an
\* update may name either port, both, or only the admin status.
SetOperation ==
  [kind : {"DELETE", "REPLACE", "UPDATE"}, id : Conns, in : Nat, out : Nat]

Field(new, old) == IF new = 0 THEN old ELSE new

ApplyOperation(working, o) ==
  [working EXCEPT ![o.id] =
     CASE o.kind = "DELETE"  -> Absent
       [] o.kind = "REPLACE" -> [Absent EXCEPT !.present = TRUE,
                                               !.in = o.in, !.out = o.out]
       [] o.kind = "UPDATE"  -> [working[o.id] EXCEPT
                                   !.present = TRUE,
                                   !.in  = Field(o.in, working[o.id].in),
                                   !.out = Field(o.out, working[o.id].out)]]

\* A plan lists the deletes, then the replaces, then the updates; after[i] is
\* the candidate after the first i of them.
Working(current, p) ==
  LET after[i \in 0 .. Len(p)] ==
        IF i = 0 THEN current ELSE ApplyOperation(after[i - 1], p[i])
  IN  after[Len(p)]

Touched(p) == {p[i].id : i \in DOMAIN p}

Complete(w) ==
  \A c \in Conns : w[c].present => /\ w[c].in \in 1 .. InCount
                                   /\ w[c].out \in 1 .. OutCount

\* Mutant: only the outputs are compared.
OneToOneOutputs(w) ==
  \A c, d \in Conns : (c # d /\ w[c].present /\ w[d].present) => w[c].out # w[d].out

OneToOne(w) ==
  \A c, d \in Conns : (c # d /\ w[c].present /\ w[d].present)
                        => w[c].in # w[d].in /\ w[c].out # w[d].out

Valid(w) == Complete(w) /\ OneToOne(w)

\* Mutant: a connection whose version differs counts as changed.
SamePortsAndVersion(e, f) == e = f

SamePorts(e, f) == e.present = f.present /\ e.in = f.in /\ e.out = f.out

Changes(current, p) ==
  {c \in Touched(p) : ~SamePorts(current[c], Working(current, p)[c])}

\* The keys after the MULTI/EXEC of a candidate that was built on `current`:
\* only the changed connections are written.
Overwrite(base, current, p, rev) ==
  LET w == Working(current, p) IN
  [c \in Conns |->
     IF c \notin Changes(current, p) THEN base[c]
     ELSE IF w[c].present
     THEN [present |-> TRUE, in |-> w[c].in, out |-> w[c].out, ver |-> rev] ELSE Absent]

\* The connection-batch event of the candidate.
EventOf(current, p, rev) ==
  [ver |-> rev,
   ops |-> [c \in Conns |->
              IF c \notin Changes(current, p) THEN "NONE"
              ELSE IF Working(current, p)[c].present THEN "UPSERT"
              ELSE "REMOVE"]]

\* The configuration keys a candidate depends on: the device and the ports of
\* every connection of the candidate, changed or not.
DeviceKey == <<"device", 0>>

PortKeys(w) ==
  UNION {{<<"in", w[c].in>>, <<"out", w[c].out>>} :
           c \in {d \in Conns : w[d].present}}

AdminKeys ==
  {DeviceKey} \cup ({"in"} \X (1 .. InCount)) \cup ({"out"} \X (1 .. OutCount))
=============================================================================
