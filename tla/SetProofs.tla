----------------------------- MODULE SetProofs ------------------------------
(***************************************************************************)
(* Concurrent Sets implement the atomic store, for any number of clients,  *)
(* connections, ports, plans, retries and lost connections.  The argument: *)
(* while no watched key has been written since WATCH, what a call has read *)
(* is what CONFIG_DB holds, so an EXEC that is not refused is the atomic   *)
(* Set; and a Set repeated over its own result changes nothing.            *)
(***************************************************************************)
EXTENDS GnmiSet, WellFoundedInduction, TLAPS

(* The candidate of a plan.  Induction over the operations of a plan is a   *)
(* least counterexample: the smallest number of operations after which the  *)
(* claim fails.                                                             *)

\* A nonempty set of naturals has a smallest member.
LEMMA Smallest ==
  ASSUME NEW T \in SUBSET Nat, T # {}
  PROVE  \E x \in T : \A y \in T : x <= y
  <1> DEFINE R == OpToRel(<, Nat)
  <1>1. IsWellFoundedOn(R, Nat)
    BY Zenon, NatLessThanWellFounded
  <1>2. \A x, y \in Nat : <<y, x>> \in R <=> y < x
    BY Zenon DEF OpToRel
  <1> HIDE DEF R
  <1>3. PICK x \in T : \A y \in T : ~(<<y, x>> \in R)
    BY Zenon, <1>1, WFMin
  <1>4. \A y \in T : ~(y < x)
    BY Zenon, <1>2, <1>3
  <1> QED BY <1>4

\* g lists the candidates after 0, 1, ..., n operations of p.
Runs(g, current, p, n) ==
  g = [i \in 0 .. n |-> IF i = 0 THEN current ELSE ApplyOperation(g[i - 1], p[i])]

\* The loop over the operations of _apply_operations has a result.
LEMMA RunsExist ==
  ASSUME NEW current, NEW p, NEW n \in Nat
  PROVE  \E g : Runs(g, current, p, n)
  <1> DEFINE T == {m \in Nat : ~\E g : Runs(g, current, p, m)}
  <1> SUFFICES ASSUME T # {} PROVE FALSE
    BY Zenon
  <1>1. PICK m \in T : \A y \in T : m <= y
    <2> HIDE DEF T
    <2>1. T \in SUBSET Nat
      BY Zenon DEF T
    <2> QED BY Zenon, <2>1, Smallest
  <1>2. m # 0
    <2> DEFINE z == [i \in 0 .. 0 |-> current]
    <2>1. \A i \in 0 .. 0 : i = 0
      OBVIOUS
    <2>2. z = [i \in 0 .. 0 |-> IF i = 0 THEN current ELSE ApplyOperation(z[i - 1], p[i])]
      BY Zenon, <2>1
    <2>3. Runs(z, current, p, 0)
      BY Zenon, <2>2 DEF Runs
    <2> QED BY Zenon, <2>3
  <1>3. m - 1 \in Nat /\ m - 1 \notin T
    BY <1>1, <1>2
  <1>4. PICK g : Runs(g, current, p, m - 1)
    BY Zenon, <1>3
  <1> DEFINE h == [i \in 0 .. m |-> IF i = 0 THEN current ELSE ApplyOperation(g[i - 1], p[i])]
  <1>5. ASSUME NEW i \in 0 .. m, i # 0 PROVE h[i - 1] = g[i - 1]
    <2>1. i - 1 \in 0 .. (m - 1) /\ i - 1 \in 0 .. m
      BY <1>5
    <2>2. g[i - 1] = IF i - 1 = 0 THEN current ELSE ApplyOperation(g[(i - 1) - 1], p[i - 1])
      BY Zenon, <1>4, <2>1 DEF Runs
    <2> QED BY Zenon, <2>1, <2>2
  <1>6. h = [i \in 0 .. m |-> IF i = 0 THEN current ELSE ApplyOperation(h[i - 1], p[i])]
    <2> HIDE DEF h
    <2>1. h = [i \in 0 .. m |-> IF i = 0 THEN current ELSE ApplyOperation(g[i - 1], p[i])]
      BY Zenon DEF h
    <2> QED BY Zenon, <1>5, <2>1
  <1>7. Runs(h, current, p, m)
    BY Zenon, <1>6 DEF Runs
  <1> QED BY Zenon, <1>7

\* Working is the last of the candidates.
LEMMA WorkingRuns ==
  ASSUME NEW current, NEW p, Len(p) \in Nat
  PROVE  \E g : Runs(g, current, p, Len(p)) /\ Working(current, p) = g[Len(p)]
  <1> DEFINE after[i \in 0 .. Len(p)] ==
               IF i = 0 THEN current ELSE ApplyOperation(after[i - 1], p[i])
  <1>1. Working(current, p) = after[Len(p)]
    BY Zenon DEF Working
  <1>2. \E g : Runs(g, current, p, Len(p))
    BY Zenon, RunsExist
  <1>3. \E g : g = [i \in 0 .. Len(p) |->
                      IF i = 0 THEN current ELSE ApplyOperation(g[i - 1], p[i])]
    BY Zenon, <1>2 DEF Runs
  <1>4. after = [i \in 0 .. Len(p) |->
                   IF i = 0 THEN current ELSE ApplyOperation(after[i - 1], p[i])]
    BY Zenon, <1>3
  <1>5. Runs(after, current, p, Len(p))
    BY Zenon, <1>4 DEF Runs
  <1> QED BY Zenon, <1>1, <1>5

\* Induction over the operations of a plan.
LEMMA Climb ==
  ASSUME NEW n \in Nat, NEW S, 0 \in S, \A i \in 1 .. n : i - 1 \in S => i \in S
  PROVE  \A i \in 0 .. n : i \in S
  <1> DEFINE T == {i \in 0 .. n : i \notin S}
  <1> SUFFICES ASSUME T # {} PROVE FALSE
    BY Zenon
  <1>1. PICK m \in T : \A y \in T : m <= y
    <2>1. T \in SUBSET Nat
      OBVIOUS
    <2> HIDE DEF T
    <2> QED BY Zenon, <2>1, Smallest
  <1>2. m # 0 /\ m \in 0 .. n
    BY Zenon
  <1>3. m \in 1 .. n /\ m - 1 \in 0 .. n /\ ~(m <= m - 1)
    BY <1>2
  <1>4. m - 1 \in S
    BY Zenon, <1>1, <1>3
  <1> QED BY Zenon, <1>3, <1>4

\* One operation of _apply_operations after another.
LEMMA RunsStep ==
  ASSUME NEW g, NEW current, NEW p, NEW n \in Nat, Runs(g, current, p, n)
  PROVE  /\ g[0] = current
         /\ \A i \in 1 .. n : g[i] = ApplyOperation(g[i - 1], p[i])
  <1>1. 0 \in 0 .. n /\ \A i \in 1 .. n : i \in 0 .. n /\ i # 0
    OBVIOUS
  <1>2. \A i \in 0 .. n : g[i] = IF i = 0 THEN current ELSE ApplyOperation(g[i - 1], p[i])
    BY Zenon DEF Runs
  <1> QED BY Zenon, <1>1, <1>2

\* A connection of CONFIG_DB, or a key that does not exist.
Entry == [present : BOOLEAN, in : Nat, out : Nat, ver : Nat]

\* A connection that no operation of the Set names stays as it was read.
LEMMA UntouchedUnchanged ==
  ASSUME NEW current, current = [c \in Conns |-> current[c]],
         NEW p \in Seq(SetOperation), NEW c \in Conns \ Touched(p)
  PROVE  Working(current, p)[c] = current[c]
  <1>1. Len(p) \in Nat /\ DOMAIN p = 1 .. Len(p) /\ Len(p) \in 0 .. Len(p) /\ 0 \in 0 .. Len(p)
    OBVIOUS
  <1>2. PICK g : Runs(g, current, p, Len(p)) /\ Working(current, p) = g[Len(p)]
    BY Zenon, <1>1, WorkingRuns
  <1>3. /\ g[0] = current
        /\ \A i \in 1 .. Len(p) : g[i] = ApplyOperation(g[i - 1], p[i])
    BY <1>1, <1>2, RunsStep
  <1> DEFINE S == {i \in 0 .. Len(p) : DOMAIN g[i] = Conns /\ g[i][c] = current[c]}
  <1>4. 0 \in S
    BY Zenon, <1>1, <1>3
  <1>5. ASSUME NEW i \in 1 .. Len(p), i - 1 \in S PROVE i \in S
    <2>1. p[i].id # c
      BY Zenon, <1>1 DEF Touched
    <2>2. DOMAIN g[i] = Conns /\ g[i][c] = current[c]
      BY Zenon, <1>3, <1>5, <2>1 DEF ApplyOperation
    <2> QED BY <2>2
  <1> HIDE DEF S
  <1>6. Len(p) \in S
    BY Zenon, <1>1, <1>4, <1>5, Climb
  <1> QED BY Zenon, <1>2, <1>6 DEF S

\* Writing only the changed connections leaves the ports of the whole
\* candidate in CONFIG_DB.
LEMMA OverwriteIsWorking ==
  ASSUME NEW base, base = [c \in Conns |-> base[c]], NEW p \in Seq(SetOperation),
         NEW rev, NEW c \in Conns,
         Overwrite(base, base, p, rev)[c].present
  PROVE  /\ Working(base, p)[c].present
         /\ Overwrite(base, base, p, rev)[c].in = Working(base, p)[c].in
         /\ Overwrite(base, base, p, rev)[c].out = Working(base, p)[c].out
  <1> DEFINE w == Working(base, p)
  <1>1. CASE c \notin Touched(p)
    <2>1. w[c] = base[c]
      BY Zenon, <1>1, UntouchedUnchanged
    <2>2. c \notin Changes(base, p)
      BY Zenon, <1>1 DEF Changes
    <2> QED BY Zenon, <2>1, <2>2 DEF Overwrite
  <1>2. CASE c \in Touched(p) /\ c \notin Changes(base, p)
    <2>1. SamePorts(base[c], w[c])
      BY Zenon, <1>2 DEF Changes
    <2> QED BY Zenon, <1>2, <2>1 DEF Overwrite, SamePorts
  <1>3. CASE c \in Changes(base, p)
    <2>1. CASE w[c].present
      BY Zenon, <1>3, <2>1 DEF Overwrite
    <2>2. CASE ~w[c].present
      BY Zenon, <1>3, <2>2 DEF Overwrite, Absent
    <2> QED BY Zenon, <2>1, <2>2
  <1> QED BY Zenon, <1>1, <1>2, <1>3

\* An operation of a Set writes one entry.
LEMMA NewEntry ==
  ASSUME NEW w \in [Conns -> Entry], NEW o \in SetOperation
  PROVE  \E r \in Entry :
           /\ ApplyOperation(w, o) = [w EXCEPT ![o.id] = r]
           /\ r = Absent \/ r.present = TRUE
           /\ o.kind = "DELETE" => r = Absent
           /\ o.kind = "REPLACE" => r.present = TRUE /\ r.in = o.in /\ r.out = o.out
           /\ o.kind = "UPDATE" => /\ r.present = TRUE
                                   /\ r.in = Field(o.in, w[o.id].in)
                                   /\ r.out = Field(o.out, w[o.id].out)
  <1>1. /\ o.kind \in {"DELETE", "REPLACE", "UPDATE"} /\ o.in \in Nat /\ o.out \in Nat
        /\ w[o.id] \in Entry
    BY DEF SetOperation
  <1>2. CASE o.kind = "DELETE"
    <2>1. Absent \in Entry
      BY DEF Absent, Entry
    <2>2. ApplyOperation(w, o) = [w EXCEPT ![o.id] = Absent]
      BY <1>2 DEF ApplyOperation
    <2> QED BY Zenon, <1>2, <2>1, <2>2
  <1>3. CASE o.kind = "REPLACE"
    <2> DEFINE r == [Absent EXCEPT !.present = TRUE, !.in = o.in, !.out = o.out]
    <2>1. r \in Entry /\ r.present = TRUE /\ r.in = o.in /\ r.out = o.out
      BY Zenon, <1>1 DEF Absent, Entry
    <2>2. ApplyOperation(w, o) = [w EXCEPT ![o.id] = r]
      BY <1>3 DEF ApplyOperation
    <2> HIDE DEF r
    <2> QED BY Zenon, <1>3, <2>1, <2>2
  <1>4. CASE o.kind = "UPDATE"
    <2> DEFINE r == [w[o.id] EXCEPT !.present = TRUE, !.in = Field(o.in, w[o.id].in),
                                    !.out = Field(o.out, w[o.id].out)]
    <2>1. Field(o.in, w[o.id].in) \in Nat /\ Field(o.out, w[o.id].out) \in Nat
      BY <1>1 DEF Field, Entry
    <2>2. /\ r \in Entry /\ r.present = TRUE
          /\ r.in = Field(o.in, w[o.id].in) /\ r.out = Field(o.out, w[o.id].out)
      BY Zenon, <1>1, <2>1 DEF Entry
    <2>3. ApplyOperation(w, o) = [w EXCEPT ![o.id] = r]
      BY <1>4 DEF ApplyOperation
    <2> HIDE DEF r
    <2> QED BY Zenon, <1>4, <2>2, <2>3
  <1> QED BY Zenon, <1>1, <1>2, <1>3, <1>4

\* It makes an entry of an entry, and what it deletes is Absent.
LEMMA OneOperation ==
  ASSUME NEW w \in [Conns -> Entry], NEW o \in SetOperation
  PROVE  /\ ApplyOperation(w, o) \in [Conns -> Entry]
         /\ \A c \in Conns :
              \/ ApplyOperation(w, o)[c] = w[c]
              \/ ApplyOperation(w, o)[c] = Absent
              \/ ApplyOperation(w, o)[c].present = TRUE
  <1>1. PICK r \in Entry : /\ ApplyOperation(w, o) = [w EXCEPT ![o.id] = r]
                           /\ r = Absent \/ r.present = TRUE
    BY Zenon, NewEntry
  <1> QED BY Zenon, <1>1

\* The candidate consists of entries; a connection that is not in it is Absent.
LEMMA WorkingEntries ==
  ASSUME NEW current \in [Conns -> Entry], NEW p \in Seq(SetOperation), NEW c \in Conns,
         ~current[c].present => current[c] = Absent
  PROVE  /\ Working(current, p) \in [Conns -> Entry]
         /\ ~Working(current, p)[c].present => Working(current, p)[c] = Absent
  <1>1. Len(p) \in Nat /\ DOMAIN p = 1 .. Len(p) /\ Len(p) \in 0 .. Len(p) /\ 0 \in 0 .. Len(p)
    OBVIOUS
  <1>2. PICK g : Runs(g, current, p, Len(p)) /\ Working(current, p) = g[Len(p)]
    BY Zenon, <1>1, WorkingRuns
  <1>3. /\ g[0] = current
        /\ \A i \in 1 .. Len(p) : g[i] = ApplyOperation(g[i - 1], p[i])
    BY <1>1, <1>2, RunsStep
  <1> DEFINE S == {i \in 0 .. Len(p) : /\ g[i] \in [Conns -> Entry]
                                       /\ ~g[i][c].present => g[i][c] = Absent}
  <1>4. 0 \in S
    BY Zenon, <1>1, <1>3
  <1>5. ASSUME NEW i \in 1 .. Len(p), i - 1 \in S PROVE i \in S
    <2>1. p[i] \in SetOperation /\ i \in 0 .. Len(p)
      BY <1>1
    <2>2. g[i - 1] \in [Conns -> Entry]
      BY Zenon, <1>5
    <2>3. ~g[i - 1][c].present => g[i - 1][c] = Absent
      BY Zenon, <1>5
    <2>4. ApplyOperation(g[i - 1], p[i]) \in [Conns -> Entry]
      BY Zenon, <2>1, <2>2, OneOperation
    <2>5. \/ ApplyOperation(g[i - 1], p[i])[c] = g[i - 1][c]
          \/ ApplyOperation(g[i - 1], p[i])[c] = Absent
          \/ ApplyOperation(g[i - 1], p[i])[c].present = TRUE
      BY Zenon, <2>1, <2>2, OneOperation
    <2>6. g[i] = ApplyOperation(g[i - 1], p[i])
      BY Zenon, <1>3
    <2>7. ~g[i][c].present => g[i][c] = Absent
      BY Zenon, <2>3, <2>5, <2>6
    <2> QED BY Zenon, <2>1, <2>4, <2>6, <2>7
  <1> HIDE DEF S
  <1>6. Len(p) \in S
    BY Zenon, <1>1, <1>4, <1>5, Climb
  <1> QED BY Zenon, <1>2, <1>6 DEF S

\* Entries r and q have a field in common, or have kept those of x and y.
Follow(r, q, x, y) ==
  /\ r.present = q.present \/ (r.present = x.present /\ q.present = y.present)
  /\ r.in = q.in \/ (r.in = x.in /\ q.in = y.in)
  /\ r.out = q.out \/ (r.out = x.out /\ q.out = y.out)

\* One operation gives a field of two entries the same value, or leaves both
\* alone.
LEMMA SameOperation ==
  ASSUME NEW v \in [Conns -> Entry], NEW w \in [Conns -> Entry], NEW o \in SetOperation,
         NEW c \in Conns
  PROVE  Follow(ApplyOperation(w, o)[c], ApplyOperation(v, o)[c], w[c], v[c])
  <1>1. PICK r \in Entry :
           /\ ApplyOperation(w, o) = [w EXCEPT ![o.id] = r]
           /\ o.kind = "DELETE" => r = Absent
           /\ o.kind = "REPLACE" => r.present = TRUE /\ r.in = o.in /\ r.out = o.out
           /\ o.kind = "UPDATE" => /\ r.present = TRUE
                                   /\ r.in = Field(o.in, w[o.id].in)
                                   /\ r.out = Field(o.out, w[o.id].out)
    BY Zenon, NewEntry
  <1>2. PICK q \in Entry :
           /\ ApplyOperation(v, o) = [v EXCEPT ![o.id] = q]
           /\ o.kind = "DELETE" => q = Absent
           /\ o.kind = "REPLACE" => q.present = TRUE /\ q.in = o.in /\ q.out = o.out
           /\ o.kind = "UPDATE" => /\ q.present = TRUE
                                   /\ q.in = Field(o.in, v[o.id].in)
                                   /\ q.out = Field(o.out, v[o.id].out)
    BY Zenon, NewEntry
  <1>3. CASE o.id # c
    BY Zenon, <1>1, <1>2, <1>3 DEF Follow
  <1>4. CASE o.id = c
    <2>1. ApplyOperation(w, o)[c] = r /\ ApplyOperation(v, o)[c] = q
      BY Zenon, <1>1, <1>2, <1>4
    <2>2. o.kind \in {"DELETE", "REPLACE", "UPDATE"}
      BY DEF SetOperation
    <2>3. /\ r.present = q.present
          /\ r.in = q.in \/ (r.in = w[c].in /\ q.in = v[c].in)
          /\ r.out = q.out \/ (r.out = w[c].out /\ q.out = v[c].out)
      BY Zenon, <1>1, <1>2, <1>4, <2>2 DEF Field
    <2> QED BY Zenon, <2>1, <2>3 DEF Follow
  <1> QED BY Zenon, <1>3, <1>4

\* A plan applied to its own result changes no port: along the operations each
\* field is what it will be in the end, or what it was the first time.
LEMMA SettledOnce ==
  ASSUME NEW b \in [Conns -> Entry], NEW d \in [Conns -> Entry], NEW p \in Seq(SetOperation),
         NEW c \in Conns, SamePorts(d[c], Working(b, p)[c])
  PROVE  SamePorts(d[c], Working(d, p)[c])
  <1>1. Len(p) \in Nat /\ DOMAIN p = 1 .. Len(p) /\ Len(p) \in 0 .. Len(p) /\ 0 \in 0 .. Len(p)
    OBVIOUS
  <1>2. PICK g : Runs(g, b, p, Len(p)) /\ Working(b, p) = g[Len(p)]
    BY Zenon, <1>1, WorkingRuns
  <1>3. PICK h : Runs(h, d, p, Len(p)) /\ Working(d, p) = h[Len(p)]
    BY Zenon, <1>1, WorkingRuns
  <1>4. /\ g[0] = b /\ h[0] = d
        /\ \A i \in 1 .. Len(p) : /\ g[i] = ApplyOperation(g[i - 1], p[i])
                                  /\ h[i] = ApplyOperation(h[i - 1], p[i])
    BY <1>1, <1>2, <1>3, RunsStep
  <1> DEFINE S == {i \in 0 .. Len(p) :
                     /\ g[i] \in [Conns -> Entry] /\ h[i] \in [Conns -> Entry]
                     /\ h[i][c].present = d[c].present \/ h[i][c].present = g[i][c].present
                     /\ h[i][c].in = d[c].in \/ h[i][c].in = g[i][c].in
                     /\ h[i][c].out = d[c].out \/ h[i][c].out = g[i][c].out}
  <1>5. 0 \in S
    BY Zenon, <1>1, <1>4
  <1>6. ASSUME NEW i \in 1 .. Len(p), i - 1 \in S PROVE i \in S
    <2>1. p[i] \in SetOperation /\ i \in 0 .. Len(p)
      BY <1>1
    <2>0. g[i - 1] \in [Conns -> Entry] /\ h[i - 1] \in [Conns -> Entry]
      BY Zenon, <1>6
    <2>2. /\ h[i - 1][c].present = d[c].present \/ h[i - 1][c].present = g[i - 1][c].present
          /\ h[i - 1][c].in = d[c].in \/ h[i - 1][c].in = g[i - 1][c].in
          /\ h[i - 1][c].out = d[c].out \/ h[i - 1][c].out = g[i - 1][c].out
      BY Zenon, <1>6
    <2>3. g[i] = ApplyOperation(g[i - 1], p[i]) /\ h[i] = ApplyOperation(h[i - 1], p[i])
      BY Zenon, <1>4
    <2>4. g[i] \in [Conns -> Entry] /\ h[i] \in [Conns -> Entry]
      <3>1. /\ ApplyOperation(g[i - 1], p[i]) \in [Conns -> Entry]
            /\ ApplyOperation(h[i - 1], p[i]) \in [Conns -> Entry]
        BY Zenon, <2>0, <2>1, OneOperation
      <3> QED BY Zenon, <2>3, <3>1
    <2> DEFINE u == ApplyOperation(g[i - 1], p[i])
               t == ApplyOperation(h[i - 1], p[i])
    <2>5. Follow(t[c], u[c], h[i - 1][c], g[i - 1][c])
      BY Zenon, <2>0, <2>1, SameOperation
    <2>6. /\ h[i][c].present = d[c].present \/ h[i][c].present = g[i][c].present
          /\ h[i][c].in = d[c].in \/ h[i][c].in = g[i][c].in
          /\ h[i][c].out = d[c].out \/ h[i][c].out = g[i][c].out
      <3> HIDE DEF t, u
      <3>1. /\ t[c].present = d[c].present \/ t[c].present = u[c].present
            /\ t[c].in = d[c].in \/ t[c].in = u[c].in
            /\ t[c].out = d[c].out \/ t[c].out = u[c].out
        BY Zenon, <2>2, <2>5 DEF Follow
      <3> QED BY Zenon, <2>3, <3>1 DEF t, u
    <2> QED BY Zenon, <2>1, <2>4, <2>6
  <1> HIDE DEF S
  <1>7. Len(p) \in S
    BY Zenon, <1>1, <1>5, <1>6, Climb
  <1> QED BY Zenon, <1>2, <1>3, <1>7 DEF S, SamePorts

\* After the MULTI/EXEC of a Set, the same Set finds nothing to change.
LEMMA NothingLeft ==
  ASSUME NEW b \in [Conns -> Entry], NEW p \in Seq(SetOperation), NEW rev \in Nat,
         \A c \in Conns : ~b[c].present => b[c] = Absent
  PROVE  /\ Overwrite(b, b, p, rev) \in [Conns -> Entry]
         /\ Changes(Overwrite(b, b, p, rev), p) = {}
  <1> DEFINE w == Working(b, p)
             d == Overwrite(b, b, p, rev)
  <1>1. ASSUME NEW c \in Conns
        PROVE  w \in [Conns -> Entry] /\ (~w[c].present => w[c] = Absent)
    BY Zenon, WorkingEntries
  <1>2. ASSUME NEW c \in Conns
        PROVE  d[c] = IF c \notin Changes(b, p) THEN b[c]
                      ELSE IF w[c].present
                      THEN [present |-> TRUE, in |-> w[c].in, out |-> w[c].out, ver |-> rev]
                      ELSE Absent
    BY Zenon DEF Overwrite
  <1>3. d = [c \in Conns |-> d[c]]
    BY Zenon DEF Overwrite
  <1>4. ASSUME NEW c \in Conns, c \in Touched(p) PROVE SamePorts(d[c], w[c])
    <2>1. CASE c \notin Changes(b, p)
      BY Zenon, <1>2, <1>4, <2>1 DEF Changes
    <2>2. CASE c \in Changes(b, p) /\ w[c].present
      <3>1. w[c].present = TRUE
        <4> HIDE DEF w
        <4> QED BY <1>1, <2>2 DEF Entry
      <3>2. d[c] = [present |-> TRUE, in |-> w[c].in, out |-> w[c].out, ver |-> rev]
        BY Zenon, <1>2, <2>2
      <3>3. d[c].present = TRUE /\ d[c].in = w[c].in /\ d[c].out = w[c].out
        <4> HIDE DEF d, w
        <4> QED BY <3>2
      <3> QED BY Zenon, <3>1, <3>3 DEF SamePorts
    <2>3. CASE c \in Changes(b, p) /\ ~w[c].present
      BY Zenon, <1>1, <1>2, <2>3 DEF SamePorts
    <2> QED BY Zenon, <2>1, <2>2, <2>3
  <1> HIDE DEF w, d
  <1>5. ASSUME NEW c \in Conns PROVE d[c] \in Entry
    <2>1. /\ b[c] \in Entry /\ Absent \in Entry
          /\ [present |-> TRUE, in |-> w[c].in, out |-> w[c].out, ver |-> rev] \in Entry
      BY <1>1 DEF Entry, Absent
    <2> QED BY Zenon, <1>2, <2>1
  <1>6. d \in [Conns -> Entry]
    BY Zenon, <1>3, <1>5
  <1>7. ASSUME NEW c \in Conns, c \in Touched(p) PROVE SamePorts(d[c], Working(d, p)[c])
    BY Zenon, <1>4, <1>6, <1>7, SettledOnce DEF w
  <1>8. Touched(p) \subseteq Conns
    <2>1. \A i \in DOMAIN p : p[i] \in SetOperation
      OBVIOUS
    <2>2. \A o \in SetOperation : o.id \in Conns
      BY Zenon DEF SetOperation
    <2> QED BY Zenon, <2>1, <2>2 DEF Touched
  <1>9. Changes(d, p) = {}
    BY Zenon, <1>7, <1>8 DEF Changes
  <1> QED BY Zenon, <1>6, <1>9 DEF d

-----------------------------------------------------------------------------
(* The calls. *)

Steps == {"idle", "watch", "count", "return"} \cup Watching

\* The domains of the calls' variables, and what is read of their values.  A
\* key of CONFIG_DB that does not exist is Absent.
Shape ==
  /\ config = [c \in Conns |-> config[c]] /\ config \in [Conns -> Entry]
  /\ \A c \in Conns : ~config[c].present => config[c] = Absent
  /\ revision \in Nat /\ admin \in Nat
  /\ pc \in [Clients -> Steps] /\ dirty \in [Clients -> BOOLEAN]
  /\ plan \in [Clients -> Plans \cup {<<>>}] /\ read \in [Clients -> Nat]
  /\ DOMAIN seen = Clients /\ DOMAIN todo = Clients /\ DOMAIN outcome = Clients
  /\ tries \in [Clients -> Nat] /\ start \in [Clients -> Nat] /\ lost \in [Clients -> Nat]
  /\ commits \in [Clients -> Nat] /\ mine \in [Clients -> Nat]

\* An undisturbed call has read the current revision, and of the connections
\* what CONFIG_DB holds.
ReadsCurrent(k) ==
  ~dirty[k] =>
    /\ pc[k] \in Watching \ {"get"} => read[k] = revision
    /\ pc[k] = "load" =>
         seen[k] = [c \in Conns |-> IF c \in todo[k] THEN Absent ELSE config[c]]
    /\ pc[k] \in {"device", "ports"} \cup Checking => seen[k] = config

\* The ports of connection c in the candidate of call k are enabled.
InputOpen(k, c) == <<"in", Working(seen[k], plan[k])[c].in>> \notin disabled
OutputOpen(k, c) == <<"out", Working(seen[k], plan[k])[c].out>> \notin disabled

\* A call that got so far has a valid candidate.  If it is undisturbed the
\* device is enabled, and so is each port that it has read; at the end that
\* are all of them.
Checked(k) ==
  /\ pc[k] # "idle" => plan[k] \in Plans
  /\ pc[k] \in {"ports"} \cup Checking =>
       /\ Valid(Working(seen[k], plan[k]))
       /\ ~dirty[k] => DeviceKey \notin disabled
  /\ pc[k] \in {"check", "output", "closed"} =>
       /\ todo[k] \subseteq Candidate(k)
       /\ ~dirty[k] => \A c \in Candidate(k) \ todo[k] : InputOpen(k, c) /\ OutputOpen(k, c)
  /\ pc[k] = "output" /\ ~dirty[k] => \A c \in Conns : Turn(k, c) => InputOpen(k, c)
  /\ pc[k] \in {"unwatch", "exec"} =>
       /\ Changes(seen[k], plan[k]) = {} <=> pc[k] = "unwatch"
       /\ ~dirty[k] => \A c \in Candidate(k) : InputOpen(k, c) /\ OutputOpen(k, c)

\* The outcome of a call is set once, at its end; what was executed before was
\* paid for by a lost connection; and a disturbed call has one write of a
\* watched key to spare.
Accounted(k) ==
  /\ pc[k] \notin {"count", "return"} => outcome[k] = "none" /\ commits[k] <= lost[k]
  /\ commits[k] <= lost[k] + 1
  /\ outcome[k] \in {"rejected", "unavailable"} => commits[k] <= lost[k]
  /\ outcome[k] = "ok" /\ commits[k] = 0 => Changes(seen[k], plan[k]) = {}
  /\ pc[k] = "idle" => tries[k] = 0 /\ lost[k] = 0 /\ commits[k] = 0
  /\ pc[k] # "idle" => start[k] + tries[k] + commits[k] <= revision + admin + lost[k]
  /\ pc[k] \in Watching /\ dirty[k] =>
       start[k] + tries[k] + commits[k] + 1 <= revision + admin + lost[k]

\* As long as the last commit is the call's own, its plan has nothing left to
\* change.
Remembers(k) ==
  /\ mine[k] <= revision
  /\ commits[k] # 0 /\ mine[k] = revision => Changes(config, plan[k]) = {}

ClientOK(k) == ReadsCurrent(k) /\ Checked(k) /\ Accounted(k) /\ Remembers(k)

SInv == Shape /\ \A k \in Clients : ClientOK(k)

\* Nothing of call j changes but that it may have been disturbed.
SameButDirty(j) ==
  /\ pc'[j] = pc[j] /\ plan'[j] = plan[j] /\ read'[j] = read[j]
  /\ seen'[j] = seen[j] /\ todo'[j] = todo[j] /\ tries'[j] = tries[j]
  /\ outcome'[j] = outcome[j] /\ start'[j] = start[j] /\ lost'[j] = lost[j]
  /\ commits'[j] = commits[j] /\ mine'[j] = mine[j]

\* Nothing of call j changes.
Same(j) == SameButDirty(j) /\ dirty'[j] = dirty[j]

\* A step that leaves CONFIG_DB and a call alone keeps what holds of the call.
LEMMA Frame ==
  ASSUME NEW j \in Clients, ClientOK(j), Same(j), UNCHANGED storeVars, admin' = admin
  PROVE  ClientOK(j)'
  <1> USE DEF Same, SameButDirty, storeVars
  <1>1. ReadsCurrent(j)'
    BY Zenon DEF ClientOK, ReadsCurrent
  <1>2. Checked(j)'
    BY Zenon DEF ClientOK, Checked, Candidate, Turn, InputOpen, OutputOpen
  <1>3. Accounted(j)' /\ Remembers(j)'
    BY Zenon DEF ClientOK, Accounted, Remembers
  <1> QED BY Zenon, <1>1, <1>2, <1>3 DEF ClientOK

\* Nothing has been read or written yet.
LEMMA InitOK == Init => SInv
  <1> SUFFICES ASSUME Init PROVE SInv
    BY Zenon
  <1>1. Shape
    <2>1. Absent \in Entry
      BY DEF Absent, Entry
    <2> QED BY Zenon, <2>1 DEF Init, StoreInit, Shape, Steps, Absent
  <1>2. ASSUME NEW k \in Clients PROVE ClientOK(k)
    BY DEF Init, StoreInit, ClientOK, ReadsCurrent, Checked, Accounted, Remembers,
           Watching, Reading, Checking
  <1> QED BY Zenon, <1>1, <1>2 DEF SInv

\* A new call has read nothing, and its account begins with the writes so far.
LEMMA CallOK ==
  ASSUME SInv, NEW k \in Clients, NEW p \in Plans, Call(k, p)
  PROVE  SInv'
  <1> USE DEF Call, Goto, storeVars, callVars
  <1>1. Shape'
    BY DEF SInv, Shape, Steps, Watching, Reading, Checking
  <1>2. ASSUME NEW j \in Clients, j # k PROVE ClientOK(j)'
    <2>1. Same(j)
      BY Zenon, <1>2 DEF SInv, Shape, Same, SameButDirty
    <2> QED BY Zenon, <2>1, Frame DEF SInv
  <1>3. ReadsCurrent(k)'
    BY Zenon DEF SInv, ClientOK, ReadsCurrent, Shape, Watching, Reading, Checking
  <1>4. Checked(k)'
    BY Zenon DEF SInv, ClientOK, Checked, Shape, Reading, Checking
  <1>5. Accounted(k)' /\ Remembers(k)'
    <2>1. /\ pc'[k] = "watch" /\ start'[k] = revision + admin /\ tries'[k] = tries[k]
          /\ outcome'[k] = outcome[k] /\ commits'[k] = commits[k] /\ lost'[k] = lost[k]
          /\ mine'[k] = mine[k] /\ revision' = revision /\ admin' = admin
      BY Zenon DEF SInv, Shape
    <2>2. /\ outcome[k] = "none" /\ commits[k] = 0 /\ lost[k] = 0 /\ tries[k] = 0
          /\ mine[k] <= revision
      BY Zenon DEF SInv, ClientOK, Accounted, Remembers
    <2>3. revision \in Nat /\ admin \in Nat
      BY Zenon DEF SInv, Shape
    <2>4. Accounted(k)'
      BY <2>1, <2>2, <2>3 DEF Accounted, Watching, Reading, Checking
    <2> QED BY Zenon, <2>1, <2>2, <2>4 DEF Remembers
  <1> QED BY Zenon, <1>1, <1>2, <1>3, <1>4, <1>5 DEF SInv, ClientOK

\* WATCH begins a new attempt: the conflict of the one before is paid for.
LEMMA WatchOK ==
  ASSUME SInv, NEW k \in Clients, Watch(k)
  PROVE  SInv'
  <1> USE DEF Watch, Goto, storeVars, callVars
  <1>1. Shape'
    BY Zenon DEF SInv, Shape, Steps, Watching, Reading, Checking
  <1>2. ASSUME NEW j \in Clients, j # k PROVE ClientOK(j)'
    <2>1. Same(j)
      BY Zenon, <1>2 DEF SInv, Shape, Same, SameButDirty
    <2> QED BY Zenon, <2>1, Frame DEF SInv
  <1>3. ReadsCurrent(k)'
    BY Zenon DEF SInv, ClientOK, ReadsCurrent, Shape, Watching, Reading, Checking
  <1>4. Checked(k)'
    BY Zenon DEF SInv, ClientOK, Checked, Shape, Reading, Checking
  <1>5. Accounted(k)' /\ Remembers(k)'
    BY Zenon DEF SInv, ClientOK, Accounted, Remembers, Shape, Watching, Reading, Checking
  <1> QED BY Zenon, <1>1, <1>2, <1>3, <1>4, <1>5 DEF SInv, ClientOK

\* The revision read under WATCH is the current one.
LEMMA GetRevisionOK ==
  ASSUME SInv, NEW k \in Clients, GetRevision(k)
  PROVE  SInv'
  <1> USE DEF GetRevision, Goto, storeVars, callVars
  <1>1. Shape'
    BY Zenon DEF SInv, Shape, Steps, Watching, Reading, Checking
  <1>2. ASSUME NEW j \in Clients, j # k PROVE ClientOK(j)'
    <2>1. Same(j)
      BY Zenon, <1>2 DEF SInv, Shape, Same, SameButDirty
    <2> QED BY Zenon, <2>1, Frame DEF SInv
  <1>3. ReadsCurrent(k)'
    BY Zenon DEF SInv, ClientOK, ReadsCurrent, Shape, Watching, Reading, Checking
  <1>4. Checked(k)'
    BY Zenon DEF SInv, ClientOK, Checked, Shape, Reading, Checking
  <1>5. Accounted(k)' /\ Remembers(k)'
    BY Zenon DEF SInv, ClientOK, Accounted, Remembers, Shape, Watching, Reading, Checking
  <1> QED BY Zenon, <1>1, <1>2, <1>3, <1>4, <1>5 DEF SInv, ClientOK

\* After KEYS, what is not to be read is Absent.
LEMMA ListKeysOK ==
  ASSUME SInv, NEW k \in Clients, ListKeys(k)
  PROVE  SInv'
  <1> USE DEF ListKeys, Goto, storeVars, callVars
  <1>1. Shape'
    BY Zenon DEF SInv, Shape, Steps, Watching, Reading, Checking
  <1>2. ASSUME NEW j \in Clients, j # k PROVE ClientOK(j)'
    <2>1. Same(j)
      BY Zenon, <1>2 DEF SInv, Shape, Same, SameButDirty
    <2> QED BY Zenon, <2>1, Frame DEF SInv
  <1>3. ReadsCurrent(k)'
    <2>1. /\ pc[k] = "keys" /\ dirty' = dirty /\ read' = read /\ UNCHANGED <<config, revision>>
          /\ todo'[k] = {c \in Conns : config[c].present} /\ seen'[k] = [c \in Conns |-> Absent]
          /\ pc'[k] = IF todo'[k] = {} THEN "device" ELSE "load"
      BY Zenon DEF SInv, Shape
    <2>2. ~dirty[k] => read[k] = revision
      BY Zenon, <2>1 DEF SInv, ClientOK, ReadsCurrent, Watching, Reading
    <2>3. /\ config = [c \in Conns |-> config[c]]
          /\ \A c \in Conns : c \notin todo'[k] => config[c] = Absent
      BY Zenon, <2>1 DEF SInv, Shape
    <2>4. seen'[k] = [c \in Conns |-> IF c \in todo'[k] THEN Absent ELSE config[c]]
      BY Zenon, <2>1, <2>3
    <2>5. todo'[k] = {} => seen'[k] = config
      BY Zenon, <2>3, <2>4
    <2>6. /\ ~dirty'[k] => read'[k] = revision'
          /\ pc'[k] = "device" => seen'[k] = config'
      BY <2>1, <2>2, <2>5
    <2>7. pc'[k] \notin {"ports"} \cup Checking
      BY <2>1 DEF Checking
    <2> QED BY Zenon, <2>1, <2>4, <2>6, <2>7 DEF ReadsCurrent
  <1>4. Checked(k)'
    BY Zenon DEF SInv, ClientOK, Checked, Shape, Reading, Checking
  <1>5. Accounted(k)' /\ Remembers(k)'
    BY Zenon DEF SInv, ClientOK, Accounted, Remembers, Shape, Watching, Reading, Checking
  <1> QED BY Zenon, <1>1, <1>2, <1>3, <1>4, <1>5 DEF SInv, ClientOK

\* Each HGETALL brings one more connection in line with CONFIG_DB.
LEMMA LoadConnectionOK ==
  ASSUME SInv, NEW k \in Clients, NEW c \in Conns, LoadConnection(k, c)
  PROVE  SInv'
  <1> USE DEF LoadConnection, Goto, storeVars, callVars
  <1>1. Shape'
    BY Zenon DEF SInv, Shape, Steps, Watching, Reading, Checking
  <1>2. ASSUME NEW j \in Clients, j # k PROVE ClientOK(j)'
    <2>1. Same(j)
      BY Zenon, <1>2 DEF SInv, Shape, Same, SameButDirty
    <2> QED BY Zenon, <2>1, Frame DEF SInv
  <1>3. ReadsCurrent(k)'
    <2> SUFFICES ASSUME ~dirty[k] PROVE ReadsCurrent(k)'
      BY Zenon DEF SInv, Shape, ReadsCurrent
    <2>1. /\ pc'[k] = IF todo[k] = {c} THEN "device" ELSE "load"
          /\ read'[k] = read[k] /\ todo'[k] = todo[k] \ {c}
          /\ seen'[k] = [seen[k] EXCEPT ![c] = config[c]]
          /\ revision' = revision /\ config' = config
      BY Zenon DEF SInv, Shape
    <2>2. /\ read[k] = revision
          /\ seen[k] = [d \in Conns |-> IF d \in todo[k] THEN Absent ELSE config[d]]
      BY Zenon DEF SInv, ClientOK, ReadsCurrent, Watching, Reading
    <2>3. seen'[k] = [d \in Conns |-> IF d \in todo'[k] THEN Absent ELSE config[d]]
      BY Zenon, <2>1, <2>2
    <2>4. todo[k] = {c} => seen'[k] = config
      BY Zenon, <2>1, <2>3 DEF SInv, Shape
    <2> QED BY Zenon, <2>1, <2>2, <2>3, <2>4 DEF ReadsCurrent, Checking
  <1>4. Checked(k)'
    BY Zenon DEF SInv, ClientOK, Checked, Shape, Reading, Checking
  <1>5. Accounted(k)' /\ Remembers(k)'
    BY Zenon DEF SInv, ClientOK, Accounted, Remembers, Shape, Watching, Reading, Checking
  <1> QED BY Zenon, <1>1, <1>2, <1>3, <1>4, <1>5 DEF SInv, ClientOK

\* A candidate that goes on is valid, on an enabled device.
LEMMA BuildCandidateOK ==
  ASSUME SInv, NEW k \in Clients, BuildCandidate(k)
  PROVE  SInv'
  <1> USE DEF BuildCandidate, Goto, Fail, storeVars, callVars
  <1>0. /\ pc[k] = "device"
        /\ \/ pc' = [pc EXCEPT ![k] = "count"] /\ outcome' = [outcome EXCEPT ![k] = "rejected"]
           \/ /\ DeviceKey \notin disabled /\ Valid(Working(seen[k], plan[k])) /\ outcome' = outcome
              /\ \/ pc' = [pc EXCEPT ![k] = "ports"]
                 \/ /\ Candidate(k) = {} /\ Changes(seen[k], plan[k]) = {}
                    /\ pc' = [pc EXCEPT ![k] = "unwatch"]
                 \/ /\ Candidate(k) = {} /\ Changes(seen[k], plan[k]) # {}
                    /\ pc' = [pc EXCEPT ![k] = "exec"]
    BY Zenon DEF Finish
  <1>1. Shape'
    <2>1. pc' \in [Clients -> Steps] /\ DOMAIN outcome' = Clients
      <3>1. pc \in [Clients -> Steps] /\ DOMAIN outcome = Clients
        BY Zenon DEF SInv, Shape
      <3>2. {"count", "ports", "unwatch", "exec"} \subseteq Steps
        BY Zenon DEF Steps, Watching, Reading, Checking
      <3>3. \E step \in Steps : pc' = [pc EXCEPT ![k] = step]
        BY Zenon, <1>0, <3>2
      <3>4. DOMAIN outcome' = Clients
        BY Zenon, <3>1
      <3> QED BY Zenon, <3>1, <3>3, <3>4
    <2> QED BY Zenon, <2>1 DEF SInv, Shape
  <1>2. ASSUME NEW j \in Clients, j # k PROVE ClientOK(j)'
    <2>1. Same(j)
      BY Zenon, <1>0, <1>2 DEF SInv, Shape, Same, SameButDirty
    <2> QED BY Zenon, <2>1, Frame DEF SInv
  <1> HIDE DEF BuildCandidate
  <1>3. ReadsCurrent(k)'
    <2>1. ~dirty[k] => read[k] = revision /\ seen[k] = config
      BY Zenon, <1>0 DEF SInv, ClientOK, ReadsCurrent, Watching, Reading
    <2>2. pc'[k] # "load" /\ UNCHANGED <<dirty, read, seen, config, revision>>
      BY Zenon, <1>0 DEF BuildCandidate, SInv, Shape
    <2> QED BY Zenon, <2>1, <2>2 DEF ReadsCurrent
  <1>4. Checked(k)'
    <2>0. UNCHANGED <<dirty, plan, seen, disabled, todo>>
      BY Zenon DEF BuildCandidate
    <2>1. /\ plan[k] \in Plans /\ UNCHANGED <<dirty, plan, seen, disabled, todo>>
          /\ DOMAIN pc = Clients /\ Candidate(k)' = Candidate(k)
      <3>1. DOMAIN pc = Clients /\ plan[k] \in Plans
        BY Zenon, <1>0 DEF SInv, Shape, ClientOK, Checked
      <3>2. Candidate(k)' = Candidate(k)
        BY Zenon, <2>0 DEF Candidate
      <3> QED BY Zenon, <2>0, <3>1, <3>2
    <2>2. CASE pc' = [pc EXCEPT ![k] = "count"]
      BY Zenon, <2>1, <2>2 DEF Checked, Checking
    <2>3. CASE pc' = [pc EXCEPT ![k] = "ports"]
      <3>1. pc'[k] = "ports"
        BY Zenon, <2>1, <2>3
      <3>2. DeviceKey \notin disabled /\ Valid(Working(seen[k], plan[k]))
        BY Zenon, <1>0, <2>1, <3>1
      <3> QED BY Zenon, <2>1, <3>1, <3>2 DEF Checked
    <2>4. CASE pc' = [pc EXCEPT ![k] = "unwatch"]
      <3>1. pc'[k] = "unwatch"
        BY Zenon, <2>1, <2>4
      <3>2. /\ DeviceKey \notin disabled /\ Valid(Working(seen[k], plan[k]))
            /\ Candidate(k) = {} /\ Changes(seen[k], plan[k]) = {}
        BY Zenon, <1>0, <2>1, <3>1
      <3> QED BY Zenon, <2>1, <3>1, <3>2 DEF Checked
    <2>5. CASE pc' = [pc EXCEPT ![k] = "exec"]
      <3>1. pc'[k] = "exec"
        BY Zenon, <2>1, <2>5
      <3>2. /\ DeviceKey \notin disabled /\ Valid(Working(seen[k], plan[k]))
            /\ Candidate(k) = {} /\ Changes(seen[k], plan[k]) # {}
        BY Zenon, <1>0, <2>1, <3>1
      <3> QED BY Zenon, <2>1, <3>1, <3>2 DEF Checked
    <2> QED BY Zenon, <1>0, <2>2, <2>3, <2>4, <2>5
  <1>5. Accounted(k)' /\ Remembers(k)'
    <2>1. /\ pc'[k] \in {"count", "ports", "unwatch", "exec"}
          /\ outcome'[k] \in {"none", "rejected"}
          /\ pc'[k] # "count" => outcome'[k] = "none"
      BY Zenon, <1>0 DEF SInv, Shape, ClientOK, Accounted
    <2>2. UNCHANGED <<revision, config, admin, dirty, plan, seen, tries, start, lost, commits,
                      mine>>
      BY Zenon DEF BuildCandidate
    <2>3. pc[k] \in Watching
      BY Zenon, <1>0 DEF Watching, Reading
    <2> QED BY Zenon, <1>0, <2>1, <2>2, <2>3 DEF SInv, ClientOK, Accounted, Remembers
  <1> QED BY Zenon, <1>1, <1>2, <1>3, <1>4, <1>5 DEF SInv, ClientOK

\* Watching more keys changes nothing of what was read.
LEMMA WatchPortsOK ==
  ASSUME SInv, NEW k \in Clients, WatchPorts(k)
  PROVE  SInv'
  <1> USE DEF WatchPorts, Goto, storeVars, callVars
  <1>1. Shape'
    BY Zenon DEF SInv, Shape, Steps, Watching, Reading, Checking
  <1>2. ASSUME NEW j \in Clients, j # k PROVE ClientOK(j)'
    <2>1. Same(j)
      BY Zenon, <1>2 DEF SInv, Shape, Same, SameButDirty
    <2> QED BY Zenon, <2>1, Frame DEF SInv
  <1>3. ReadsCurrent(k)'
    BY Zenon DEF SInv, ClientOK, ReadsCurrent, Shape, Watching, Reading, Checking
  <1>4. Checked(k)'
    <2>1. /\ plan[k] \in Plans /\ Valid(Working(seen[k], plan[k]))
          /\ ~dirty[k] => DeviceKey \notin disabled
      BY Zenon DEF SInv, ClientOK, Checked
    <2>0. Candidate(k)' = Candidate(k)
      BY Zenon DEF Candidate
    <2>2. pc'[k] = "check" /\ todo'[k] = Candidate(k)' /\ UNCHANGED <<dirty, plan, seen, disabled>>
      <3>1. DOMAIN pc = Clients /\ DOMAIN todo = Clients
        BY Zenon DEF SInv, Shape
      <3> QED BY Zenon, <2>0, <3>1
    <2> QED BY Zenon, <2>1, <2>2 DEF Checked
  <1>5. Accounted(k)' /\ Remembers(k)'
    BY Zenon DEF SInv, ClientOK, Accounted, Remembers, Shape, Watching, Reading, Checking
  <1> QED BY Zenon, <1>1, <1>2, <1>3, <1>4, <1>5 DEF SInv, ClientOK

\* The input of the pair whose turn it is has been read.
LEMMA CheckInputOK ==
  ASSUME SInv, NEW k \in Clients, NEW c \in Conns, CheckInput(k, c)
  PROVE  SInv'
  <1> USE DEF CheckInput, Goto, storeVars, callVars
  <1>1. Shape'
    BY Zenon DEF SInv, Shape, Steps, Watching, Reading, Checking
  <1>2. ASSUME NEW j \in Clients, j # k PROVE ClientOK(j)'
    <2>1. Same(j)
      BY Zenon, <1>2 DEF SInv, Shape, Same, SameButDirty
    <2> QED BY Zenon, <2>1, Frame DEF SInv
  <1>3. ReadsCurrent(k)'
    BY Zenon DEF SInv, ClientOK, ReadsCurrent, Shape, Watching, Reading, Checking
  <1>4. Checked(k)'
    <2> DEFINE w == Working(seen[k], plan[k])
    <2>1. /\ pc[k] = "check" /\ plan[k] \in Plans /\ Valid(w)
          /\ ~dirty[k] => DeviceKey \notin disabled
          /\ todo[k] \subseteq Candidate(k)
          /\ ~dirty[k] => \A d \in Candidate(k) \ todo[k] : InputOpen(k, d) /\ OutputOpen(k, d)
      BY Zenon DEF SInv, ClientOK, Checked, Checking
    <2>2. ASSUME NEW d \in Conns, Turn(k, d) PROVE w[d].in = w[c].in
      <3>1. w[c].in <= w[d].in /\ w[d].in <= w[c].in
        BY Zenon, <2>2 DEF Turn
      <3>2. w[c].present /\ w[d].present
        BY Zenon, <2>1, <2>2 DEF Turn, Candidate
      <3>3. w[c].in \in 1 .. InCount /\ w[d].in \in 1 .. InCount
        BY Zenon, <2>1, <3>2 DEF Valid, Complete
      <3> HIDE DEF w
      <3> QED BY <3>1, <3>3, PortAssumption
    <2>3. pc'[k] = "output" => \A d \in Conns : Turn(k, d) => InputOpen(k, d)
      <3>1. pc'[k] = "output" => InputOpen(k, c)
        BY Zenon DEF SInv, Shape, InputOpen
      <3> QED BY Zenon, <2>2, <3>1 DEF InputOpen
    <2>4. /\ pc'[k] \in {"output", "closed"} /\ seen' = seen /\ plan' = plan /\ todo' = todo
          /\ dirty' = dirty /\ disabled' = disabled
      BY Zenon DEF SInv, Shape
    <2> QED BY Zenon, <2>1, <2>3, <2>4
            DEF Checked, Checking, Candidate, InputOpen, OutputOpen, Turn
  <1>5. Accounted(k)' /\ Remembers(k)'
    BY Zenon DEF SInv, ClientOK, Accounted, Remembers, Shape, Watching, Reading, Checking
  <1> QED BY Zenon, <1>1, <1>2, <1>3, <1>4, <1>5 DEF SInv, ClientOK

\* Both ports of one more pair are enabled; after the last pair all are.
LEMMA CheckOutputOK ==
  ASSUME SInv, NEW k \in Clients, NEW c \in Conns, CheckOutput(k, c)
  PROVE  SInv'
  <1> USE DEF CheckOutput, Goto, Fail, Finish, storeVars, callVars
  <1>1. Shape'
    <2>1. pc \in [Clients -> Steps] /\ DOMAIN outcome = Clients /\ DOMAIN todo = Clients
      BY Zenon DEF SInv, Shape
    <2>2. \E step \in Steps : pc' = [pc EXCEPT ![k] = step]
      BY Zenon DEF Steps, Watching, Checking
    <2>3. pc' \in [Clients -> Steps] /\ DOMAIN outcome' = Clients /\ DOMAIN todo' = Clients
      BY Zenon, <2>1, <2>2
    <2> QED BY Zenon, <2>3 DEF SInv, Shape
  <1>2. ASSUME NEW j \in Clients, j # k PROVE ClientOK(j)'
    <2>1. Same(j)
      BY Zenon, <1>2 DEF SInv, Shape, Same, SameButDirty
    <2> QED BY Zenon, <2>1, Frame DEF SInv
  <1>3. ReadsCurrent(k)'
    BY Zenon DEF SInv, ClientOK, ReadsCurrent, Shape, Watching, Reading, Checking
  <1>4. Checked(k)'
    <2>1. /\ plan[k] \in Plans /\ Valid(Working(seen[k], plan[k]))
          /\ ~dirty[k] => DeviceKey \notin disabled
          /\ todo[k] \subseteq Candidate(k)
          /\ ~dirty[k] => \A d \in Candidate(k) \ todo[k] : InputOpen(k, d) /\ OutputOpen(k, d)
      BY Zenon DEF SInv, ClientOK, Checked, Checking
    <2>2. pc[k] = "output" /\ ~dirty[k] => InputOpen(k, c)
      BY Zenon DEF SInv, ClientOK, Checked
    <2>3. seen' = seen /\ plan' = plan /\ dirty' = dirty /\ disabled' = disabled
      BY Zenon
    <2>4. /\ Candidate(k)' = Candidate(k)
          /\ \A d : InputOpen(k, d)' = InputOpen(k, d) /\ OutputOpen(k, d)' = OutputOpen(k, d)
      BY Zenon, <2>3 DEF Candidate, InputOpen, OutputOpen
    <2>5. CASE pc'[k] = "count"
      BY Zenon, <2>1, <2>3, <2>5 DEF Checked, Checking
    <2>6. CASE pc'[k] # "count"
      <3>1. /\ pc[k] = "output" /\ OutputOpen(k, c) /\ todo'[k] = todo[k] \ {c}
            /\ pc'[k] = IF todo[k] = {c} THEN Finish(k) ELSE "check"
        BY Zenon, <2>6 DEF SInv, Shape, OutputOpen
      <3>2. ~dirty[k] => \A d \in Candidate(k) \ todo'[k] : InputOpen(k, d) /\ OutputOpen(k, d)
        BY Zenon, <2>1, <2>2, <3>1
      <3>3. CASE todo[k] # {c}
        <4>1. pc'[k] = "check" /\ todo'[k] \subseteq Candidate(k)
          BY Zenon, <2>1, <3>1, <3>3
        <4> QED BY Zenon, <2>1, <2>3, <2>4, <3>2, <4>1 DEF Checked
      <3>4. CASE todo[k] = {c}
        <4>1. /\ pc'[k] \in {"unwatch", "exec"}
              /\ Changes(seen[k], plan[k]) = {} <=> pc'[k] = "unwatch"
          BY <3>1, <3>4
        <4>2. todo'[k] = {}
          BY Zenon, <3>1, <3>4
        <4>3. ~dirty[k] => \A d \in Candidate(k) : InputOpen(k, d) /\ OutputOpen(k, d)
          BY Zenon, <3>2, <4>2
        <4> QED BY Zenon, <2>1, <2>3, <2>4, <4>1, <4>3 DEF Checked
      <3> QED BY Zenon, <3>3, <3>4
    <2> QED BY Zenon, <2>5, <2>6
  <1>5. Accounted(k)' /\ Remembers(k)'
    BY Zenon DEF SInv, ClientOK, Accounted, Remembers, Shape, Watching, Reading, Checking
  <1> QED BY Zenon, <1>1, <1>2, <1>3, <1>4, <1>5 DEF SInv, ClientOK

\* A call that succeeds without EXEC had nothing to change.
LEMMA UnwatchOK ==
  ASSUME SInv, NEW k \in Clients, Unwatch(k)
  PROVE  SInv'
  <1> USE DEF Unwatch, Return, Goto, storeVars, callVars
  <1>1. Shape'
    BY Zenon DEF SInv, Shape, Steps, Watching, Reading, Checking
  <1>2. ASSUME NEW j \in Clients, j # k PROVE ClientOK(j)'
    <2>1. Same(j)
      BY Zenon, <1>2 DEF SInv, Shape, Same, SameButDirty
    <2> QED BY Zenon, <2>1, Frame DEF SInv
  <1>3. ReadsCurrent(k)'
    BY Zenon DEF SInv, ClientOK, ReadsCurrent, Shape, Watching, Reading, Checking
  <1>4. Checked(k)'
    BY Zenon DEF SInv, ClientOK, Checked, Shape, Reading, Checking
  <1>5. Accounted(k)' /\ Remembers(k)'
    <2>1. Changes(seen[k], plan[k]) = {}
      BY Zenon DEF SInv, ClientOK, Checked
    <2> QED BY Zenon, <2>1 DEF SInv, ClientOK, Accounted, Remembers, Shape, Watching, Reading,
                               Checking
  <1> QED BY Zenon, <1>1, <1>2, <1>3, <1>4, <1>5 DEF SInv, ClientOK

\* A WatchError repeats the call, or ends it as unavailable.
LEMMA WatchErrorRaised ==
  ASSUME Shape, NEW k \in Clients, RaiseWatchError(k)
  PROVE  /\ pc' \in [Clients -> Steps] /\ tries' \in [Clients -> Nat] /\ DOMAIN outcome' = Clients
         /\ \A j \in Clients : j # k =>
              pc'[j] = pc[j] /\ tries'[j] = tries[j] /\ outcome'[j] = outcome[j]
         /\ tries'[k] = tries[k] + 1
         /\ \/ pc'[k] = "watch" /\ outcome'[k] = outcome[k]
            \/ pc'[k] = "count" /\ outcome'[k] = "unavailable"
  <1> USE DEF RaiseWatchError, Goto, Fail
  <1>1. /\ pc \in [Clients -> Steps] /\ tries \in [Clients -> Nat] /\ DOMAIN outcome = Clients
        /\ tries[k] + 1 \in Nat /\ "watch" \in Steps /\ "count" \in Steps
    BY DEF Shape, Steps
  <1>2. /\ tries' \in [Clients -> Nat] /\ tries'[k] = tries[k] + 1
        /\ \A j \in Clients : j # k => tries'[j] = tries[j]
    BY Zenon, <1>1
  <1>3. \/ pc' = [pc EXCEPT ![k] = "watch"] /\ outcome' = outcome
        \/ pc' = [pc EXCEPT ![k] = "count"] /\ outcome' = [outcome EXCEPT ![k] = "unavailable"]
    BY Zenon
  <1>4. pc' \in [Clients -> Steps] /\ DOMAIN outcome' = Clients
    BY Zenon, <1>1, <1>3
  <1>5. /\ \A j \in Clients : j # k => pc'[j] = pc[j] /\ outcome'[j] = outcome[j]
        /\ \/ pc'[k] = "watch" /\ outcome'[k] = outcome[k]
           \/ pc'[k] = "count" /\ outcome'[k] = "unavailable"
    BY Zenon, <1>1, <1>3
  <1> QED BY Zenon, <1>2, <1>4, <1>5

\* The account of a call after a WatchError, which a write of a watched key or
\* a lost connection pays for.
LEMMA WatchErrorPaid ==
  ASSUME NEW k \in Clients, Shape, Shape', Accounted(k), Remembers(k), pc[k] \in Watching,
         \/ pc'[k] = "watch" /\ outcome'[k] = outcome[k]
         \/ pc'[k] = "count" /\ outcome'[k] = "unavailable",
         commits'[k] <= lost'[k],
         start'[k] + tries'[k] + commits'[k] <= revision' + admin' + lost'[k]
  PROVE  Accounted(k)'
  <1>1. pc[k] \notin {"count", "return"}
    BY Zenon DEF Watching, Reading, Checking
  <1>2. outcome[k] = "none"
    BY Zenon, <1>1 DEF Accounted
  <1>3. commits'[k] <= lost'[k] + 1
    <2>1. commits'[k] \in Nat /\ lost'[k] \in Nat
      BY Zenon DEF Shape
    <2> QED BY <2>1
  <1>4. pc'[k] \notin Watching /\ pc'[k] # "idle"
    BY Zenon DEF Watching, Reading, Checking
  <1>5. outcome'[k] # "ok" /\ (pc'[k] = "watch" => outcome'[k] = "none")
    BY Zenon, <1>2
  <1>6. pc'[k] \in {"watch", "count"}
    BY Zenon
  <1> QED BY Zenon, <1>3, <1>4, <1>5, <1>6 DEF Accounted

\* A refusal by EXEC uses up the write that disturbed the call.
LEMMA ExecRefusedOK ==
  ASSUME SInv, NEW k \in Clients, ExecRefused(k)
  PROVE  SInv'
  <1> USE DEF ExecRefused, storeVars, callVars
  <1>0. /\ pc' \in [Clients -> Steps] /\ tries' \in [Clients -> Nat] /\ DOMAIN outcome' = Clients
        /\ \A j \in Clients : j # k =>
             pc'[j] = pc[j] /\ tries'[j] = tries[j] /\ outcome'[j] = outcome[j]
        /\ tries'[k] = tries[k] + 1
        /\ \/ pc'[k] = "watch" /\ outcome'[k] = outcome[k]
           \/ pc'[k] = "count" /\ outcome'[k] = "unavailable"
    BY Zenon, WatchErrorRaised DEF SInv
  <1>1. Shape'
    BY Zenon, <1>0 DEF SInv, Shape
  <1>2. ASSUME NEW j \in Clients, j # k PROVE ClientOK(j)'
    <2>1. Same(j)
      BY Zenon, <1>0, <1>2 DEF Same, SameButDirty
    <2> QED BY Zenon, <2>1, Frame DEF SInv
  <1>3. ReadsCurrent(k)'
    BY Zenon, <1>0 DEF ReadsCurrent, Watching, Reading, Checking
  <1>4. Checked(k)'
    BY Zenon, <1>0 DEF SInv, ClientOK, Checked, Checking
  <1>5. Accounted(k)'
    <2>1. /\ pc[k] \in Watching /\ dirty[k]
          /\ start'[k] = start[k] /\ commits'[k] = commits[k] /\ lost'[k] = lost[k]
          /\ revision' = revision /\ admin' = admin
      BY Zenon DEF Watching, Checking
    <2>2. /\ commits[k] <= lost[k]
          /\ start[k] + tries[k] + commits[k] + 1 <= revision + admin + lost[k]
      BY Zenon, <2>1 DEF SInv, ClientOK, Accounted
    <2>3. /\ revision \in Nat /\ admin \in Nat /\ start[k] \in Nat /\ tries[k] \in Nat
          /\ lost[k] \in Nat /\ commits[k] \in Nat
      BY Zenon DEF SInv, Shape
    <2>4. start'[k] + tries'[k] + commits'[k] <= revision' + admin' + lost'[k]
      BY <1>0, <2>1, <2>2, <2>3
    <2> QED BY Zenon, <1>0, <1>1, <2>1, <2>2, <2>4, WatchErrorPaid DEF SInv, ClientOK
  <1>6. Remembers(k)'
    BY Zenon DEF SInv, ClientOK, Remembers
  <1> QED BY Zenon, <1>1, <1>2, <1>3, <1>4, <1>5, <1>6 DEF SInv, ClientOK

\* A lost connection is counted with the call.
LEMMA LossCounted ==
  ASSUME Shape, NEW k \in Clients, Lose(k)
  PROVE  /\ lost' \in [Clients -> Nat] /\ lost'[k] = lost[k] + 1
         /\ \A j \in Clients : j # k => lost'[j] = lost[j]
  <1>1. lost[k] + 1 \in Nat /\ lost \in [Clients -> Nat]
    BY DEF Shape
  <1> QED BY Zenon, <1>1 DEF Lose

\* A lost connection pays for the WatchError that the client library makes of it.
LEMMA ConnectionLostOK ==
  ASSUME SInv, NEW k \in Clients, ConnectionLost(k)
  PROVE  SInv'
  <1> USE DEF ConnectionLost, storeVars, callVars
  <1>0. /\ pc' \in [Clients -> Steps] /\ tries' \in [Clients -> Nat] /\ DOMAIN outcome' = Clients
        /\ \A j \in Clients : j # k =>
             pc'[j] = pc[j] /\ tries'[j] = tries[j] /\ outcome'[j] = outcome[j]
        /\ tries'[k] = tries[k] + 1
        /\ \/ pc'[k] = "watch" /\ outcome'[k] = outcome[k]
           \/ pc'[k] = "count" /\ outcome'[k] = "unavailable"
    BY Zenon, WatchErrorRaised DEF SInv, Lose
  <1>00. /\ lost' \in [Clients -> Nat] /\ lost'[k] = lost[k] + 1
         /\ \A j \in Clients : j # k => lost'[j] = lost[j]
    BY Zenon, LossCounted DEF SInv
  <1>1. Shape'
    BY Zenon, <1>0, <1>00 DEF SInv, Shape
  <1>2. ASSUME NEW j \in Clients, j # k PROVE ClientOK(j)'
    <2>1. Same(j)
      BY Zenon, <1>0, <1>00, <1>2 DEF Same, SameButDirty
    <2> QED BY Zenon, <2>1, Frame DEF SInv
  <1>3. ReadsCurrent(k)'
    BY Zenon, <1>0 DEF ReadsCurrent, Watching, Reading, Checking
  <1>4. Checked(k)'
    <2>1. pc[k] # "idle" /\ plan' = plan
      BY Zenon DEF Watching, Reading, Checking
    <2>2. plan[k] \in Plans
      BY Zenon, <2>1 DEF SInv, ClientOK, Checked
    <2> QED BY Zenon, <1>0, <2>1, <2>2 DEF Checked, Checking
  <1>5. Accounted(k)'
    <2>1. /\ pc[k] \in Watching /\ start'[k] = start[k] /\ commits'[k] = commits[k]
          /\ revision' = revision /\ admin' = admin
      BY Zenon
    <2>2. pc[k] \notin {"idle", "count", "return"}
      BY Zenon, <2>1 DEF Watching, Reading, Checking
    <2>3. /\ commits[k] <= lost[k]
          /\ start[k] + tries[k] + commits[k] <= revision + admin + lost[k]
      BY Zenon, <2>2 DEF SInv, ClientOK, Accounted
    <2>4. /\ revision \in Nat /\ admin \in Nat /\ start[k] \in Nat /\ tries[k] \in Nat
          /\ lost[k] \in Nat /\ commits[k] \in Nat
      BY Zenon DEF SInv, Shape
    <2>5. /\ commits'[k] <= lost'[k]
          /\ start'[k] + tries'[k] + commits'[k] <= revision' + admin' + lost'[k]
      BY <1>0, <1>00, <2>1, <2>3, <2>4
    <2> QED BY Zenon, <1>0, <1>1, <2>1, <2>5, WatchErrorPaid DEF SInv, ClientOK
  <1>6. Remembers(k)'
    BY Zenon DEF SInv, ClientOK, Remembers
  <1> QED BY Zenon, <1>1, <1>2, <1>3, <1>4, <1>5, <1>6 DEF SInv, ClientOK

\* A call that fails before EXEC has committed at most what it was repeated for.
LEMMA InterruptedOK ==
  ASSUME SInv, NEW k \in Clients, Interrupted(k)
  PROVE  SInv'
  <1> USE DEF Interrupted, Goto, Fail, storeVars, callVars
  <1>1. Shape'
    BY Zenon DEF SInv, Shape, Steps
  <1>2. ASSUME NEW j \in Clients, j # k PROVE ClientOK(j)'
    <2>1. Same(j)
      BY Zenon, <1>2 DEF SInv, Shape, Same, SameButDirty
    <2> QED BY Zenon, <2>1, Frame DEF SInv
  <1>0. /\ pc[k] \notin {"idle", "count", "return"} /\ pc'[k] = "count"
        /\ outcome'[k] \in {"deadline", "unavailable"}
    BY Zenon DEF SInv, Shape, Watching, Reading, Checking
  <1>3. ReadsCurrent(k)'
    BY Zenon, <1>0 DEF ReadsCurrent, Watching, Reading, Checking
  <1>4. Checked(k)'
    BY Zenon, <1>0 DEF SInv, ClientOK, Checked, Checking
  <1>5. Accounted(k)' /\ Remembers(k)'
    <2>1. /\ commits[k] <= lost[k] /\ commits[k] <= lost[k] + 1
          /\ start[k] + tries[k] + commits[k] <= revision + admin + lost[k]
      BY Zenon, <1>0 DEF SInv, ClientOK, Accounted
    <2>2. pc'[k] \notin Watching
      BY Zenon, <1>0 DEF Watching, Reading, Checking
    <2> QED BY Zenon, <1>0, <2>1, <2>2 DEF SInv, ClientOK, Accounted, Remembers
  <1> QED BY Zenon, <1>1, <1>2, <1>3, <1>4, <1>5 DEF SInv, ClientOK

\* Counting a rejection changes nothing of the outcome.
LEMMA CountRejectedOK ==
  ASSUME SInv, NEW k \in Clients, CountRejected(k)
  PROVE  SInv'
  <1> USE DEF CountRejected, Goto, storeVars, callVars
  <1>1. Shape'
    BY Zenon DEF SInv, Shape, Steps, Watching, Reading, Checking
  <1>2. ASSUME NEW j \in Clients, j # k PROVE ClientOK(j)'
    <2>1. Same(j)
      BY Zenon, <1>2 DEF SInv, Shape, Same, SameButDirty
    <2> QED BY Zenon, <2>1, Frame DEF SInv
  <1>3. ReadsCurrent(k)'
    BY Zenon DEF SInv, ClientOK, ReadsCurrent, Shape, Watching, Reading, Checking
  <1>4. Checked(k)'
    BY Zenon DEF SInv, ClientOK, Checked, Shape, Reading, Checking
  <1>5. Accounted(k)' /\ Remembers(k)'
    BY Zenon DEF SInv, ClientOK, Accounted, Remembers, Shape, Watching, Reading, Checking
  <1> QED BY Zenon, <1>1, <1>2, <1>3, <1>4, <1>5 DEF SInv, ClientOK

\* A call that is over leaves nothing behind.
LEMMA RespondOK ==
  ASSUME SInv, NEW k \in Clients, Respond(k)
  PROVE  SInv'
  <1> USE DEF Respond, Goto, storeVars, callVars
  <1>1. Shape'
    BY Zenon DEF SInv, Shape, Steps, Watching, Reading, Checking
  <1>2. ASSUME NEW j \in Clients, j # k PROVE ClientOK(j)'
    <2>1. Same(j)
      BY Zenon, <1>2 DEF SInv, Shape, Same, SameButDirty
    <2> QED BY Zenon, <2>1, Frame DEF SInv
  <1>3. ReadsCurrent(k)'
    BY Zenon DEF SInv, ClientOK, ReadsCurrent, Shape, Watching, Reading, Checking
  <1>4. Checked(k)'
    BY Zenon DEF SInv, ClientOK, Checked, Shape, Reading, Checking
  <1>5. Accounted(k)' /\ Remembers(k)'
    <2>1. /\ pc'[k] = "idle" /\ outcome'[k] = "none" /\ tries'[k] = 0 /\ lost'[k] = 0
          /\ commits'[k] = 0 /\ mine'[k] = 0 /\ revision' = revision /\ revision \in Nat
      BY Zenon DEF SInv, Shape
    <2>2. Accounted(k)'
      BY <2>1 DEF Accounted, Watching, Reading, Checking
    <2> QED BY <2>1, <2>2 DEF Remembers
  <1> QED BY Zenon, <1>1, <1>2, <1>3, <1>4, <1>5 DEF SInv, ClientOK

\* From WATCH to EXEC the revision and the device are watched, and once the
\* candidate is known its ports are.
LEMMA WatchedKeys ==
  ASSUME NEW j \in Clients
  PROVE  /\ pc[j] \in Watching => RevisionKey \in Watched(j) /\ DeviceKey \in Watched(j)
         /\ pc[j] \in Checking =>
              \A c \in Candidate(j) : /\ <<"in", Working(seen[j], plan[j])[c].in>> \in Watched(j)
                                      /\ <<"out", Working(seen[j], plan[j])[c].out>> \in Watched(j)
  <1>1. Reading \cap Checking = {}
    BY Zenon DEF Reading, Checking
  <1>2. CASE pc[j] \in Reading
    <2>1. Watched(j) = {RevisionKey, DeviceKey}
      BY Zenon, <1>1, <1>2 DEF Watched
    <2> QED BY Zenon, <1>1, <1>2, <2>1
  <1>3. CASE pc[j] \in Checking
    <2>1. Watched(j) = {RevisionKey, DeviceKey} \cup PortKeys(Working(seen[j], plan[j]))
      BY Zenon, <1>1, <1>3 DEF Watched
    <2>2. ASSUME NEW c \in Candidate(j)
          PROVE  {<<"in", Working(seen[j], plan[j])[c].in>>,
                  <<"out", Working(seen[j], plan[j])[c].out>>}
                   \subseteq PortKeys(Working(seen[j], plan[j]))
      BY Zenon DEF PortKeys, Candidate
    <2> QED BY Zenon, <2>1, <2>2
  <1> QED BY Zenon, <1>2, <1>3 DEF Watching

\* One more write of CONFIG_DB pays for one more refusal by EXEC.
LEMMA OneMoreWrite ==
  ASSUME NEW s \in Nat, NEW t \in Nat, NEW x \in Nat, NEW l \in Nat,
         NEW r \in Nat, NEW m \in Nat, NEW q \in Nat, NEW n \in Nat,
         q + n = r + m + 1, s + t + x <= r + m + l
  PROVE  s + t + x <= q + n + l /\ s + t + x + 1 <= q + n + l
  OBVIOUS

\* A write of a watched key leaves a call that will be refused, and pays for
\* the refusal.
LEMMA Disturbed ==
  ASSUME SInv, NEW j \in Clients, SameButDirty(j), pc[j] \in Watching => dirty'[j],
         revision' \in Nat, admin' \in Nat, revision' + admin' = revision + admin + 1,
         Remembers(j)'
  PROVE  ClientOK(j)'
  <1>0. {"device", "ports"} \cup Checking \subseteq Watching /\ "load" \in Watching
    BY Zenon DEF Watching, Reading
  <1>1. ReadsCurrent(j)'
    BY Zenon, <1>0 DEF SameButDirty, ReadsCurrent
  <1>2. Checked(j)'
    <2>1. Checked(j)
      BY Zenon DEF SInv, ClientOK
    <2>2. {"check", "output", "closed", "unwatch", "exec"} \subseteq Watching
      BY Zenon DEF Watching, Checking
    <2>3. Candidate(j)' = Candidate(j)
      BY Zenon DEF SameButDirty, Candidate
    <2> QED BY Zenon, <1>0, <2>1, <2>2, <2>3 DEF Checked, SameButDirty
  <1>3. Accounted(j)'
    <2>1. /\ revision \in Nat /\ admin \in Nat /\ start[j] \in Nat /\ tries[j] \in Nat
          /\ commits[j] \in Nat /\ lost[j] \in Nat
      BY Zenon DEF SInv, Shape
    <2>2. Accounted(j)
      BY Zenon DEF SInv, ClientOK
    <2>3. pc[j] # "idle" => start[j] + tries[j] + commits[j] <= revision + admin + lost[j]
      BY Zenon, <2>2 DEF Accounted
    <2>4. pc[j] # "idle" =>
            /\ start[j] + tries[j] + commits[j] <= revision' + admin' + lost[j]
            /\ start[j] + tries[j] + commits[j] + 1 <= revision' + admin' + lost[j]
      BY Zenon, <2>1, <2>3, OneMoreWrite
    <2>5. pc[j] \in Watching => pc[j] # "idle"
      BY Zenon DEF Watching, Reading, Checking
    <2> QED BY Zenon, <2>2, <2>4, <2>5 DEF Accounted, SameButDirty
  <1> QED BY Zenon, <1>1, <1>2, <1>3 DEF ClientOK

\* The end of an executed EXEC: the call is over, or the connection is lost and
\* it is repeated or given up.
LEMMA ReplyOfExec ==
  ASSUME Shape, NEW k \in Clients,
         (Return(k, "ok") /\ UNCHANGED <<tries, losses, lost>>) \/ ReplyLost(k)
  PROVE  /\ pc' \in [Clients -> Steps] /\ tries' \in [Clients -> Nat]
         /\ DOMAIN outcome' = Clients /\ lost' \in [Clients -> Nat]
         /\ \A j \in Clients : j # k => /\ pc'[j] = pc[j] /\ tries'[j] = tries[j]
                                        /\ outcome'[j] = outcome[j] /\ lost'[j] = lost[j]
         /\ \/ /\ pc'[k] \in {"return", "count"} /\ outcome'[k] \in {"ok", "deadline"}
               /\ tries'[k] = tries[k] /\ lost'[k] = lost[k]
            \/ /\ tries'[k] = tries[k] + 1 /\ lost'[k] = lost[k] + 1
               /\ \/ pc'[k] = "watch" /\ outcome'[k] = outcome[k]
                  \/ pc'[k] = "count" /\ outcome'[k] = "unavailable"
  <1>1. CASE Lose(k)
    <2>1. RaiseWatchError(k)
      BY Zenon, <1>1 DEF Lose
    <2> QED BY Zenon, <1>1, <2>1, WatchErrorRaised, LossCounted
  <1>2. CASE ~Lose(k)
    <2>1. PICK step \in {"return", "count"}, o \in {"ok", "deadline"} :
            /\ pc' = [pc EXCEPT ![k] = step] /\ outcome' = [outcome EXCEPT ![k] = o]
            /\ tries' = tries /\ lost' = lost
      BY Zenon, <1>2 DEF Return, ReplyLost, Fail, Goto
    <2>2. /\ step \in Steps /\ pc \in [Clients -> Steps] /\ tries \in [Clients -> Nat]
          /\ DOMAIN outcome = Clients /\ lost \in [Clients -> Nat]
      BY Zenon DEF Steps, Shape
    <2>3. /\ pc' \in [Clients -> Steps] /\ tries' \in [Clients -> Nat]
          /\ DOMAIN outcome' = Clients /\ lost' \in [Clients -> Nat]
      BY Zenon, <2>1, <2>2
    <2>4. \A j \in Clients : j # k => /\ pc'[j] = pc[j] /\ tries'[j] = tries[j]
                                     /\ outcome'[j] = outcome[j] /\ lost'[j] = lost[j]
      BY Zenon, <2>1, <2>2
    <2>5. /\ pc'[k] \in {"return", "count"} /\ outcome'[k] \in {"ok", "deadline"}
          /\ tries'[k] = tries[k] /\ lost'[k] = lost[k]
      BY Zenon, <2>1, <2>2
    <2> QED BY Zenon, <2>3, <2>4, <2>5
  <1> QED BY Zenon, <1>1, <1>2

\* What an undisturbed EXEC writes, and what it leaves to the same plan.
LEMMA ExecWrites ==
  ASSUME SInv, NEW k \in Clients, Exec(k)
  PROVE  /\ config' = Overwrite(config, config, plan[k], revision + 1)
         /\ revision' = revision + 1 /\ mine' = [mine EXCEPT ![k] = revision + 1]
         /\ plan[k] \in Plans /\ config' \in [Conns -> Entry]
         /\ Changes(config', plan[k]) = {}
  <1> USE DEF Exec
  <1>1. read[k] = revision /\ seen[k] = config /\ plan[k] \in Plans
    BY Zenon DEF SInv, ClientOK, ReadsCurrent, Checked, Watching, Checking
  <1>2. /\ config' = Overwrite(config, config, plan[k], revision + 1)
        /\ revision' = revision + 1 /\ mine' = [mine EXCEPT ![k] = revision + 1]
    BY Zenon, <1>1
  <1>3. /\ revision \in Nat /\ config \in [Conns -> Entry]
        /\ \A c \in Conns : ~config[c].present => config[c] = Absent
    BY Zenon DEF SInv, Shape
  <1>4. revision + 1 \in Nat /\ plan[k] \in Seq(SetOperation)
    BY <1>1, <1>3, SetAssumption
  <1>5. /\ Overwrite(config, config, plan[k], revision + 1) \in [Conns -> Entry]
        /\ Changes(Overwrite(config, config, plan[k], revision + 1), plan[k]) = {}
    BY Zenon, <1>3, <1>4, NothingLeft
  <1> QED BY Zenon, <1>1, <1>2, <1>5

\* EXEC disturbs every other call that has its WATCH in force, and leaves
\* nothing to change for the call's own plan.
LEMMA ExecOK ==
  ASSUME SInv, NEW k \in Clients, Exec(k)
  PROVE  SInv'
  <1>1. /\ config' = Overwrite(config, config, plan[k], revision + 1)
        /\ revision' = revision + 1 /\ mine' = [mine EXCEPT ![k] = revision + 1]
        /\ plan[k] \in Plans /\ config' \in [Conns -> Entry] /\ Changes(config', plan[k]) = {}
    BY Zenon, ExecWrites
  <1>2. /\ pc[k] = "exec" /\ commits' = [commits EXCEPT ![k] = commits[k] + 1]
        /\ dirty' = [j \in Clients |-> dirty[j] \/ RevisionKey \in Watched(j)]
        /\ UNCHANGED <<disabled, admin, plan, read, seen, todo, start>>
    BY Zenon DEF Exec, Touch
  <1>3. /\ pc' \in [Clients -> Steps] /\ tries' \in [Clients -> Nat]
        /\ DOMAIN outcome' = Clients /\ lost' \in [Clients -> Nat]
        /\ \A j \in Clients : j # k => /\ pc'[j] = pc[j] /\ tries'[j] = tries[j]
                                       /\ outcome'[j] = outcome[j] /\ lost'[j] = lost[j]
        /\ \/ /\ pc'[k] \in {"return", "count"} /\ outcome'[k] \in {"ok", "deadline"}
              /\ tries'[k] = tries[k] /\ lost'[k] = lost[k]
           \/ /\ tries'[k] = tries[k] + 1 /\ lost'[k] = lost[k] + 1
              /\ \/ pc'[k] = "watch" /\ outcome'[k] = outcome[k]
                 \/ pc'[k] = "count" /\ outcome'[k] = "unavailable"
    BY Zenon, ReplyOfExec DEF SInv, Exec
  <1>4. /\ revision \in Nat /\ admin \in Nat /\ start[k] \in Nat /\ tries[k] \in Nat
        /\ lost[k] \in Nat /\ commits \in [Clients -> Nat] /\ mine \in [Clients -> Nat]
    BY Zenon DEF SInv, Shape
  <1>5. revision + 1 \in Nat /\ commits[k] + 1 \in Nat
    BY <1>4
  <1>6. Shape'
    <2>1. config' = [c \in Conns |-> config'[c]]
      BY Zenon, <1>1 DEF Overwrite
    <2>2. ASSUME NEW c \in Conns, ~config'[c].present PROVE config'[c] = Absent
      BY Zenon, <1>1, <2>2 DEF SInv, Shape, Overwrite
    <2>3. commits' \in [Clients -> Nat] /\ mine' \in [Clients -> Nat]
      BY Zenon, <1>1, <1>2, <1>4, <1>5
    <2>4. dirty' \in [Clients -> BOOLEAN]
      BY Zenon, <1>2
    <2> QED BY Zenon, <1>1, <1>2, <1>3, <1>5, <2>1, <2>2, <2>3, <2>4 DEF SInv, Shape
  <1>7. ASSUME NEW j \in Clients, j # k PROVE ClientOK(j)'
    <2>1. SameButDirty(j)
      BY Zenon, <1>1, <1>2, <1>3, <1>4, <1>7 DEF SameButDirty
    <2>2. pc[j] \in Watching => dirty'[j]
      BY Zenon, <1>2, WatchedKeys
    <2>3. Remembers(j)'
      <3>1. mine'[j] = mine[j] /\ mine[j] <= revision /\ mine[j] \in Nat
        BY Zenon, <1>4, <2>1 DEF SInv, ClientOK, Remembers, SameButDirty
      <3>2. mine'[j] <= revision' /\ mine'[j] # revision'
        BY <1>1, <1>4, <3>1
      <3> QED BY Zenon, <3>2 DEF Remembers
    <2>4. revision' \in Nat /\ admin' \in Nat /\ revision' + admin' = revision + admin + 1
      BY <1>1, <1>2, <1>4
    <2> QED BY Zenon, <2>1, <2>2, <2>3, <2>4, Disturbed
  <1>8. ReadsCurrent(k)' /\ Checked(k)'
    <2>1. pc'[k] \in {"return", "count", "watch"}
      BY Zenon, <1>3
    <2> QED BY Zenon, <1>1, <1>2, <2>1 DEF Checked, ReadsCurrent, Watching, Reading, Checking
  <1>9. Remembers(k)'
    <2>1. mine'[k] = revision + 1
      BY Zenon, <1>1, <1>4
    <2>2. mine'[k] <= revision'
      BY <1>1, <1>4, <2>1
    <2> QED BY Zenon, <1>1, <1>2, <2>2 DEF Remembers
  <1>10. Accounted(k)'
    <2>1. /\ Accounted(k) /\ Remembers(k) /\ pc[k] \in Watching
          /\ pc[k] \notin {"idle", "count", "return"}
      BY Zenon, <1>2 DEF SInv, ClientOK, Watching, Checking
    <2>2. /\ outcome[k] = "none" /\ commits[k] <= lost[k]
          /\ start[k] + tries[k] + commits[k] <= revision + admin + lost[k]
      BY Zenon, <2>1 DEF Accounted
    <2>3. /\ commits'[k] = commits[k] + 1 /\ commits[k] \in Nat
          /\ start'[k] = start[k] /\ admin' = admin
      BY Zenon, <1>2, <1>4
    <2>4. CASE tries'[k] = tries[k] + 1 /\ lost'[k] = lost[k] + 1
      <3>1. /\ commits'[k] <= lost'[k]
            /\ start'[k] + tries'[k] + commits'[k] <= revision' + admin' + lost'[k]
        BY <1>1, <1>4, <2>2, <2>3, <2>4
      <3>2. tries'[k] # tries[k]
        BY <1>4, <2>4
      <3>3. \/ pc'[k] = "watch" /\ outcome'[k] = outcome[k]
            \/ pc'[k] = "count" /\ outcome'[k] = "unavailable"
        BY Zenon, <1>3, <3>2
      <3> QED BY Zenon, <1>6, <2>1, <3>1, <3>3, WatchErrorPaid DEF SInv
    <2>5. CASE /\ pc'[k] \in {"return", "count"} /\ outcome'[k] \in {"ok", "deadline"}
               /\ tries'[k] = tries[k] /\ lost'[k] = lost[k]
      <3>1. /\ commits'[k] <= lost'[k] + 1 /\ commits'[k] # 0
            /\ start'[k] + tries'[k] + commits'[k] <= revision' + admin' + lost'[k]
        BY <1>1, <1>4, <2>2, <2>3, <2>5
      <3>2. pc'[k] \notin Watching \cup {"idle"} /\ outcome'[k] \notin {"rejected", "unavailable"}
        BY Zenon, <2>5 DEF Watching, Reading, Checking
      <3> QED BY Zenon, <2>5, <3>1, <3>2 DEF Accounted
    <2> QED BY Zenon, <1>3, <2>4, <2>5
  <1> QED BY Zenon, <1>6, <1>7, <1>8, <1>9, <1>10 DEF SInv, ClientOK

\* An administrative change disturbs the calls that watch the key, and is
\* nothing to the others.
LEMMA AdminOK ==
  ASSUME SInv, NEW key \in AdminKeys, SetAdminStatus(key)
  PROVE  SInv'
  <1> USE DEF SetAdminStatus, Touch, callVars
  <1>1. revision' = revision /\ admin' = admin + 1 /\ revision \in Nat /\ admin \in Nat
    BY Zenon DEF SInv, Shape
  <1>2. Shape'
    <2>1. admin' \in Nat
      BY <1>1
    <2>2. dirty' \in [Clients -> BOOLEAN]
      BY Zenon
    <2> QED BY Zenon, <2>1, <2>2 DEF SInv, Shape
  <1>3. ASSUME NEW j \in Clients PROVE ClientOK(j)'
    <2>1. SameButDirty(j)
      BY Zenon DEF SameButDirty
    <2>2. Remembers(j)'
      BY Zenon DEF SInv, ClientOK, Remembers
    <2>3. CASE pc[j] \in Watching => dirty'[j]
      <3>1. revision' \in Nat /\ admin' \in Nat /\ revision' + admin' = revision + admin + 1
        BY <1>1
      <3> QED BY Zenon, <2>1, <2>2, <2>3, <3>1, Disturbed
    <2>4. CASE pc[j] \in Watching /\ ~dirty'[j]
      <3>1. ~dirty[j] /\ key \notin Watched(j)
        BY Zenon, <2>4
      <3>2. key # DeviceKey
        BY Zenon, <2>4, <3>1, WatchedKeys
      <3>3. ReadsCurrent(j)'
        BY Zenon, <2>1, <3>1 DEF SInv, ClientOK, ReadsCurrent, SameButDirty
      <3>4. Checked(j)'
        <4>1. Checked(j) /\ {"check", "output", "closed", "unwatch", "exec"} \subseteq Checking
          BY Zenon DEF SInv, ClientOK, Checking
        <4>2. ASSUME pc[j] \in Checking, NEW c \in Candidate(j)
              PROVE  InputOpen(j, c)' = InputOpen(j, c) /\ OutputOpen(j, c)' = OutputOpen(j, c)
          <5>1. /\ key # <<"in", Working(seen[j], plan[j])[c].in>>
                /\ key # <<"out", Working(seen[j], plan[j])[c].out>>
            BY Zenon, <3>1, <4>2, WatchedKeys
          <5> QED BY Zenon, <5>1 DEF InputOpen, OutputOpen
        <4>3. DeviceKey \notin disabled => DeviceKey \notin disabled'
          BY Zenon, <3>2
        <4>4. Candidate(j)' = Candidate(j) /\ \A c : Turn(j, c)' = Turn(j, c)
          BY Zenon DEF Candidate, Turn
        <4>5. ASSUME pc[j] = "output", NEW c \in Conns, Turn(j, c) PROVE InputOpen(j, c)'
          <5>1. InputOpen(j, c) /\ c \in Candidate(j)
            BY Zenon, <3>1, <4>1, <4>5 DEF Checked, Turn
          <5> QED BY Zenon, <4>1, <4>2, <4>5, <5>1
        <4>6. ASSUME pc[j] \in {"check", "output", "closed"}, NEW c \in Candidate(j) \ todo[j]
              PROVE  InputOpen(j, c)' /\ OutputOpen(j, c)'
          <5>1. InputOpen(j, c) /\ OutputOpen(j, c)
            BY Zenon, <3>1, <4>1, <4>6 DEF Checked
          <5> QED BY Zenon, <4>1, <4>2, <4>6, <5>1
        <4>7. ASSUME pc[j] \in {"unwatch", "exec"}, NEW c \in Candidate(j)
              PROVE  InputOpen(j, c)' /\ OutputOpen(j, c)'
          <5>1. InputOpen(j, c) /\ OutputOpen(j, c)
            BY Zenon, <3>1, <4>1, <4>7 DEF Checked
          <5> QED BY Zenon, <4>1, <4>2, <4>7, <5>1
        <4> QED BY Zenon, <2>1, <3>1, <4>1, <4>3, <4>4, <4>5, <4>6, <4>7 DEF Checked, SameButDirty
      <3>5. /\ start[j] \in Nat /\ tries[j] \in Nat /\ commits[j] \in Nat /\ lost[j] \in Nat
            /\ Accounted(j)
        BY Zenon DEF SInv, Shape, ClientOK
      <3>6. Accounted(j)'
        <4>1. pc[j] # "idle" => start[j] + tries[j] + commits[j] <= revision + admin + lost[j]
          BY Zenon, <3>5 DEF Accounted
        <4>2. pc[j] # "idle" => start[j] + tries[j] + commits[j] <= revision' + admin' + lost[j]
          BY <1>1, <3>5, <4>1
        <4> QED BY Zenon, <2>1, <2>4, <3>5, <4>2 DEF Accounted, SameButDirty
      <3> QED BY Zenon, <2>2, <3>3, <3>4, <3>6 DEF ClientOK
    <2> QED BY Zenon, <2>3, <2>4
  <1> QED BY Zenon, <1>2, <1>3 DEF SInv

\* The inductive step: one lemma per action.
LEMMA NextOK == SInv /\ [Next]_vars => SInv'
  <1> SUFFICES ASSUME SInv, [Next]_vars PROVE SInv'
    BY Zenon
  <1>1. ASSUME NEW k \in Clients, NEW p \in Plans, Call(k, p) PROVE SInv'
    BY Zenon, <1>1, CallOK
  <1>2. ASSUME NEW k \in Clients, CallStep(k) PROVE SInv'
    BY Zenon, <1>2, WatchOK, GetRevisionOK, ListKeysOK, LoadConnectionOK, BuildCandidateOK,
       WatchPortsOK, CheckInputOK, CheckOutputOK, UnwatchOK, ExecRefusedOK, ConnectionLostOK,
       ExecOK, InterruptedOK, CountRejectedOK, RespondOK DEF CallStep
  <1>3. ASSUME NEW key \in AdminKeys, SetAdminStatus(key) PROVE SInv'
    BY Zenon, <1>3, AdminOK
  <1>4. CASE UNCHANGED vars
    <2>1. Shape'
      BY Zenon, <1>4 DEF SInv, Shape, vars, storeVars, callVars
    <2>2. ASSUME NEW j \in Clients PROVE Same(j)
      BY Zenon, <1>4 DEF Same, SameButDirty, vars, callVars
    <2>3. UNCHANGED storeVars /\ admin' = admin
      BY Zenon, <1>4 DEF vars
    <2> QED BY Zenon, <2>1, <2>2, <2>3, Frame DEF SInv
  <1> QED BY Zenon, <1>1, <1>2, <1>3, <1>4 DEF Next

\* While no watched key is written, what a call of _commit_candidate has read
\* stays what CONFIG_DB holds.
THEOREM ReadsStayCurrent == Spec => []SInv
  BY InitOK, NextOK, PTL DEF Spec

\* The MULTI/EXEC of _commit_once is the atomic Set of ConfigStore: no update
\* is lost, and nothing is committed on a disabled port or device, for every
\* number of clients, connections and administrative changes.
THEOREM SetIsAtomic == Spec => ImplementsStore
  <1>1. Init => StoreInit
    BY Zenon DEF Init
  <1>2. SInv /\ [Next]_vars => [StoreNext]_storeVars
    <2> SUFFICES ASSUME SInv, [Next]_vars PROVE [StoreNext]_storeVars
      BY Zenon
    <2>1. ASSUME NEW k \in Clients, Exec(k) PROVE StoreNext
      <3>1. /\ read[k] = revision /\ seen[k] = config /\ plan[k] \in Plans
            /\ Valid(Working(config, plan[k])) /\ DeviceKey \notin disabled
            /\ disabled \cap PortKeys(Working(config, plan[k])) = {}
            /\ Changes(config, plan[k]) # {}
        <4>1. /\ pc[k] = "exec" /\ ~dirty[k] /\ "exec" \in Watching \ {"get"}
              /\ "exec" \in Checking
          BY Zenon, <2>1 DEF Exec, Watching, Checking
        <4>2. /\ read[k] = revision /\ seen[k] = config /\ plan[k] \in Plans
              /\ Valid(Working(seen[k], plan[k])) /\ DeviceKey \notin disabled
              /\ \A c \in Candidate(k) : InputOpen(k, c) /\ OutputOpen(k, c)
              /\ Changes(seen[k], plan[k]) # {}
          BY Zenon, <4>1 DEF SInv, ClientOK, ReadsCurrent, Checked
        <4>3. disabled \cap PortKeys(Working(seen[k], plan[k])) = {}
          <5>1. ASSUME NEW x \in PortKeys(Working(seen[k], plan[k])) PROVE x \notin disabled
            <6>1. PICK c \in Candidate(k) :
                     \/ x = <<"in", Working(seen[k], plan[k])[c].in>>
                     \/ x = <<"out", Working(seen[k], plan[k])[c].out>>
              BY Zenon DEF PortKeys, Candidate
            <6> QED BY Zenon, <4>2, <6>1 DEF InputOpen, OutputOpen
          <5> QED BY Zenon, <5>1
        <4> QED BY Zenon, <4>2, <4>3
      <3>2. Acceptable(plan[k])
        BY Zenon, <3>1 DEF Acceptable
      <3>3. AtomicSet(plan[k])
        BY Zenon, <2>1, <3>1, <3>2 DEF AtomicSet, Exec
      <3> QED BY Zenon, <3>1, <3>3 DEF StoreNext
    <2>2. ASSUME NEW key \in AdminKeys, SetAdminStatus(key) PROVE StoreNext
      BY Zenon, <2>2 DEF SetAdminStatus, ChangeAdminStatus, StoreNext
    <2>3. ASSUME NEW k \in Clients, NEW p \in Plans, Call(k, p) PROVE UNCHANGED storeVars
      BY Zenon, <2>3 DEF Call
    <2>4. ASSUME NEW k \in Clients, CallStep(k), ~Exec(k) PROVE UNCHANGED storeVars
      BY Zenon, <2>4 DEF CallStep, Watch, GetRevision, ListKeys, LoadConnection, BuildCandidate,
                  WatchPorts, CheckInput, CheckOutput, Unwatch, ExecRefused, ConnectionLost,
                  Interrupted, CountRejected, Respond
    <2>5. CASE UNCHANGED vars
      BY Zenon, <2>5 DEF vars
    <2> QED BY Zenon, <2>1, <2>2, <2>3, <2>4, <2>5 DEF Next
  <1> QED BY <1>1, <1>2, ReadsStayCurrent, PTL DEF Spec, ImplementsStore, StoreSpec

\* What _commit_candidate tells a client is true up to the connections it
\* lost, for every number of retries: a Set is executed once, and not at all if
\* it is rejected or given up, except that each connection lost under WATCH may
\* hide one execution (the client library makes a WatchError of the loss, and
\* the Set is repeated).
THEOREM OutcomesAreTruthful == Spec => []TruthfulOutcome
  <1>1. SInv => TruthfulOutcome
    BY Zenon DEF SInv, ClientOK, Accounted, TruthfulOutcome
  <1> QED BY <1>1, ReadsStayCurrent, PTL

\* A Set that _commit_candidate repeats after a lost reply is executed again
\* only over a Set that another client committed in between: a plan applied to
\* its own result has nothing to change.
THEOREM RepeatsOnlyOverOthers == Spec => RepeatedOverOthers
  <1>1. SInv /\ [Next]_vars =>
          [\A k \in Clients : commits[k] > 0 /\ commits'[k] > commits[k]
                                => revision > mine[k]]_vars
    <2> SUFFICES ASSUME SInv, Next, NEW k \in Clients, commits[k] > 0, commits'[k] > commits[k]
                 PROVE  revision > mine[k]
      BY Zenon
    <2>1. /\ commits \in [Clients -> Nat] /\ commits[k] \in Nat /\ mine[k] \in Nat
          /\ revision \in Nat
      BY Zenon DEF SInv, Shape
    <2>2. commits[k] # 0 /\ commits'[k] # commits[k] /\ commits'[k] # 0
      <3>1. commits'[k] \in Nat
        BY Zenon, NextOK DEF SInv, Shape
      <3> QED BY <2>1, <3>1
    <2>3. Exec(k)
      <3>1. ASSUME NEW j \in Clients, NEW p \in Plans, Call(j, p) PROVE commits' = commits
        BY Zenon, <3>1 DEF Call
      <3>2. ASSUME NEW key \in AdminKeys, SetAdminStatus(key) PROVE commits' = commits
        BY Zenon, <3>2 DEF SetAdminStatus, callVars
      <3>3. ASSUME NEW j \in Clients, CallStep(j), ~Exec(j), ~Respond(j) PROVE commits' = commits
        BY Zenon, <3>3 DEF CallStep, Watch, GetRevision, ListKeys, LoadConnection, BuildCandidate,
                    WatchPorts, CheckInput, CheckOutput, Unwatch, ExecRefused, ConnectionLost,
                    Interrupted, CountRejected, callVars
      <3>4. ASSUME NEW j \in Clients, Respond(j) PROVE commits'[k] \in {0, commits[k]}
        BY Zenon, <2>1, <3>4 DEF Respond
      <3>5. ASSUME NEW j \in Clients, Exec(j), j # k PROVE commits'[k] = commits[k]
        BY Zenon, <2>1, <3>5 DEF Exec
      <3> QED BY Zenon, <2>2, <3>1, <3>2, <3>3, <3>4, <3>5 DEF Next
    <2>4. pc[k] = "exec" /\ ~dirty[k]
      BY Zenon, <2>3 DEF Exec
    <2>5. Changes(config, plan[k]) # {}
      BY Zenon, <2>4 DEF SInv, ClientOK, ReadsCurrent, Checked, Checking
    <2>6. mine[k] <= revision /\ mine[k] # revision
      BY Zenon, <2>2, <2>5 DEF SInv, ClientOK, Remembers
    <2> QED BY <2>1, <2>6
  <1> QED BY <1>1, ReadsStayCurrent, PTL DEF Spec, RepeatedOverOthers

\* Every WatchError that _commit_candidate retries is paid for by a connection
\* the call lost, or by a write of another client during the call.
THEOREM RetriesArePaidFor == Spec => []RetryJustified
  <1>1. SInv => RetryJustified
    <2> SUFFICES ASSUME SInv, NEW k \in Clients, pc[k] # "idle"
                 PROVE  tries[k] <= (revision + admin) - (start[k] + commits[k]) + lost[k]
      BY Zenon DEF RetryJustified
    <2>1. start[k] + tries[k] + commits[k] <= revision + admin + lost[k]
      BY Zenon DEF SInv, ClientOK, Accounted
    <2>2. /\ revision \in Nat /\ admin \in Nat /\ start[k] \in Nat /\ tries[k] \in Nat
          /\ commits[k] \in Nat /\ lost[k] \in Nat
      BY Zenon DEF SInv, Shape
    <2> QED BY <2>1, <2>2
  <1> QED BY <1>1, ReadsStayCurrent, PTL

\* No two desired connections of CONFIG_DB share a port, and every port
\* exists, however the calls of _commit_once interleave: EXEC writes only
\* what was validated against the connections it overwrites.
THEOREM PortsNeverShared == Spec => []NoPortShared
  <1>1. Init => NoPortShared
    BY DEF Init, StoreInit, NoPortShared, Absent
  <1>2. ASSUME SInv, NoPortShared, [StoreNext]_storeVars PROVE NoPortShared'
    <2>1. ASSUME NEW p \in Plans, AtomicSet(p) PROVE NoPortShared'
      <3> DEFINE w == Working(config, p)
      <3>1. config = [c \in Conns |-> config[c]] /\ p \in Seq(SetOperation)
        BY Zenon, <1>2, SetAssumption DEF SInv, Shape
      <3>2. config' = Overwrite(config, config, p, revision + 1) /\ Valid(w)
        BY Zenon, <2>1 DEF AtomicSet, Acceptable
      <3>3. ASSUME NEW c \in Conns, config'[c].present
            PROVE  w[c].present /\ config'[c].in = w[c].in /\ config'[c].out = w[c].out
        BY <3>1, <3>2, <3>3, OverwriteIsWorking
      <3> HIDE DEF w
      <3>4. ASSUME NEW c \in Conns, NEW d \in Conns, config'[c].present, config'[d].present
            PROVE  /\ config'[c].in \in 1 .. InCount /\ config'[c].out \in 1 .. OutCount
                   /\ config'[c].in = config'[d].in \/ config'[c].out = config'[d].out => c = d
        <4>1. w[c].in \in 1 .. InCount /\ w[c].out \in 1 .. OutCount
          BY Zenon, <3>2, <3>3, <3>4 DEF Valid, Complete
        <4>2. c # d => w[c].in # w[d].in /\ w[c].out # w[d].out
          BY Zenon, <3>2, <3>3, <3>4 DEF Valid, OneToOne
        <4> QED BY Zenon, <3>3, <3>4, <4>1, <4>2
      <3> QED BY Zenon, <3>4 DEF NoPortShared
    <2>2. CASE config' = config
      BY Zenon, <1>2, <2>2 DEF NoPortShared
    <2> QED BY Zenon, <1>2, <2>1, <2>2 DEF StoreNext, ChangeAdminStatus, storeVars
  <1> QED BY <1>1, <1>2, ReadsStayCurrent, SetIsAtomic, PTL DEF Spec, ImplementsStore, StoreSpec
=============================================================================
