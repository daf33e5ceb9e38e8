------------------------------- MODULE MCSet --------------------------------
(***************************************************************************)
(* Instances of GnmiSet: two calls in flight over two connections.         *)
(***************************************************************************)
EXTENDS GnmiSet, TLC

Op(kind, id, in, out) == [kind |-> kind, id |-> id, in |-> in, out |-> out]

\* A creation, a swap of inputs, and a delete together with an update that
\* moves only the input (and is incomplete when the connection is absent),
\* and a port that does not exist.
SomePlans ==
  {<<Op("REPLACE", 1, 1, 1)>>,
   <<Op("REPLACE", 1, 2, 1), Op("REPLACE", 2, 1, 2)>>,
   <<Op("DELETE", 1, 0, 0), Op("UPDATE", 2, 2, 0)>>,
   <<Op("REPLACE", 2, 3, 2)>>}

AnyClient == Permutations(Clients)
=============================================================================
