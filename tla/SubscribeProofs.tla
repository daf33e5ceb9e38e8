-------------------------- MODULE SubscribeProofs ---------------------------
(***************************************************************************)
(* A subscription loses no change and takes no resource back, for any      *)
(* resources, paths and numbers of writes, reads and failures.             *)
(***************************************************************************)
EXTENDS Subscribe, TLAPS

Entries == [val : Values \cup {"none"}, n : Nat]
Signals == [key : Keys, entry : Entries]

Typed ==
  /\ db \in [Keys -> Entries] /\ snap \in [Keys -> Entries]
  /\ previous \in [DOMAIN Paths -> [Keys -> Entries]]
  /\ log \in [Streams -> Seq(Signals)] /\ got \in [Streams -> Seq(Signals)]
  /\ cursor \in [Streams -> Nat] /\ writes \in Nat
  /\ \A s \in Streams : cursor[s] <= Len(log[s])

\* What has been sent, and what is being read, is no newer than the database,
\* and what is being read is no older than what was sent.
Ordered ==
  /\ \A k \in Keys : db[k].n <= writes
  /\ \A i \in DOMAIN Paths : \A k \in Keys :
       previous[i][k].n <= db[k].n /\ (k \notin Paths[i] => previous[i][k].n = 0)
  /\ pc = "keys" =>
       /\ \A k \in Keys : snap[k].n <= db[k].n
       /\ path \in DOMAIN Paths =>
            /\ left \subseteq Paths[path]
            /\ \A k \in Keys : /\ k \notin left => previous[path][k].n <= snap[k].n
                               /\ k \notin Paths[path] => snap[k].n = 0

\* An event of the resource is still to be read or to be handled.
Signalled(k) ==
  \/ \E e \in batch : e[3].key = k
  \/ \E j \in 1..Len(log[StreamOf(k)]) :
       j > cursor[StreamOf(k)] /\ log[StreamOf(k)][j].key = k

\* What XREAD has returned is what stands behind the cursor.
ReadOK ==
  pc = "read" =>
    /\ due = {} /\ batch = {}
    /\ \A s \in Streams \ left :
         /\ Len(got[s]) <= ReadCount /\ cursor[s] + Len(got[s]) <= Len(log[s])
         /\ \A j \in 1..Len(got[s]) : got[s][j] = log[s][cursor[s] + j]

\* A path that differs from the database is to be read, or an event says so.
Covered ==
  /\ pc \notin {"ended", "cursors"} =>
       \A i \in DOMAIN Paths : \A k \in Paths[i] \ unsignalled :
         previous[i][k].val = db[k].val \/ i \in due \/ Signalled(k)
  /\ pc = "keys" /\ path \in DOMAIN Paths =>
       \A k \in Paths[path] \ unsignalled :
         k \in left \/ snap[k].val = db[k].val \/ Signalled(k)

SubInv == Typed /\ Ordered /\ ReadOK /\ Covered

-----------------------------------------------------------------------------
\* Every subscribed resource has its stream.
LEMMA PathStream ==
  ASSUME NEW i \in DOMAIN Paths, NEW k \in Paths[i]
  PROVE  k \in Keys /\ StreamOf(k) \in Streams
  BY Zenon, SubscribeAssumption DEF Keys, Streams

\* Nothing is written or subscribed.
LEMMA SubInit == Init => SubInv
  <1> SUFFICES ASSUME Init PROVE SubInv
    BY Zenon
  <1>1. NoEntry \in Entries /\ NoEntry.n = 0
    BY Zenon DEF NoEntry, Entries
  <1>2. NoPayload \in [Keys -> Entries] /\ \A k \in Keys : NoPayload[k].n = 0
    BY Zenon, <1>1 DEF NoPayload
  <1>3. Nothing \in [Streams -> Seq(Signals)] /\ \A s \in Streams : Len(Nothing[s]) = 0
    BY DEF Nothing
  <1>4. Typed
    BY <1>2, <1>3 DEF Init, Typed
  <1>5. Ordered
    BY <1>2 DEF Init, Ordered
  <1> QED BY Zenon, <1>4, <1>5 DEF Init, SubInv, ReadOK, Covered

\* A write, with its event or (a port's first one) without.
LEMMA WriteOK ==
  ASSUME SubInv, NEW k \in Keys, NEW v \in Values \cup {"none"}, Write(k, v) \/ Install(k, v)
  PROVE  SubInv'
  <1> DEFINE new == [val |-> v, n |-> writes + 1]
  <1>1. new \in Entries /\ new.n = writes + 1 /\ writes \in Nat
    BY DEF Entries, SubInv, Typed
  <1>2. /\ db' = [db EXCEPT ![k] = new] /\ writes' = writes + 1
        /\ UNCHANGED session /\ unsignalled' \in {unsignalled \ {k}, unsignalled \cup {k}}
    BY Zenon DEF Write, Install
  <1> HIDE DEF new
  <1>3. db' \in [Keys -> Entries] /\ db'[k] = new /\ \A j \in Keys : j # k => db'[j] = db[j]
    BY Zenon, <1>1, <1>2 DEF SubInv, Typed
  <1>4. /\ log' \in [Streams -> Seq(Signals)]
        /\ \A s \in Streams : /\ Len(log'[s]) >= Len(log[s])
                              /\ \A j \in 1..Len(log[s]) : log'[s][j] = log[s][j]
        /\ Write(k, v) /\ StreamOf(k) \in Streams =>
             LET s == StreamOf(k) IN Len(log'[s]) = Len(log[s]) + 1
               /\ log'[s][Len(log[s]) + 1].key = k
    <2>1. CASE Install(k, v) /\ log' = log /\ ~Write(k, v)
      BY <2>1 DEF SubInv, Typed
    <2>2. CASE Write(k, v)
      <3> DEFINE e == [key |-> k, entry |-> new]
      <3>1. e \in Signals /\ e.key = k
        BY Zenon, <1>1 DEF Signals
      <3>2. log' = [log EXCEPT ![StreamOf(k)] = Append(@, e)]
        BY Zenon, <1>2, <1>3, <2>2 DEF Write
      <3> HIDE DEF e
      <3>3. log \in [Streams -> Seq(Signals)]
        BY Zenon DEF SubInv, Typed
      <3>4. \A s \in Streams : s # StreamOf(k) => log'[s] = log[s]
        BY Zenon, <3>2, <3>3
      <3>5. CASE StreamOf(k) \in Streams
        <4> DEFINE a == log[StreamOf(k)]
        <4>1. a \in Seq(Signals) /\ log'[StreamOf(k)] = Append(a, e)
          BY Zenon, <3>2, <3>3, <3>5
        <4> HIDE DEF a
        <4>2. /\ Append(a, e) \in Seq(Signals) /\ Len(Append(a, e)) = Len(a) + 1 /\ Len(a) \in Nat
              /\ Append(a, e)[Len(a) + 1] = e /\ \A j \in 1..Len(a) : Append(a, e)[j] = a[j]
          BY <3>1, <4>1
        <4>3. log' \in [Streams -> Seq(Signals)]
          BY Zenon, <3>1, <3>2, <3>3, <4>2 DEF a
        <4>4. \A s \in Streams : /\ Len(log'[s]) >= Len(log[s])
                                /\ \A j \in 1..Len(log[s]) : log'[s][j] = log[s][j]
          <5> SUFFICES ASSUME NEW s \in Streams
                       PROVE /\ Len(log'[s]) >= Len(log[s])
                             /\ \A j \in 1..Len(log[s]) : log'[s][j] = log[s][j]
            BY Zenon
          <5>1. CASE s = StreamOf(k)
            BY <4>1, <4>2, <5>1 DEF a
          <5>2. CASE s # StreamOf(k)
            <6>1. Len(log[s]) \in Nat
              BY <3>3
            <6> QED BY <3>4, <5>2, <6>1
          <5> QED BY Zenon, <5>1, <5>2
        <4>5. LET s == StreamOf(k) IN Len(log'[s]) = Len(log[s]) + 1
                /\ log'[s][Len(log[s]) + 1].key = k
          BY Zenon, <3>1, <4>1, <4>2 DEF a
        <4> QED BY Zenon, <4>3, <4>4, <4>5
      <3>6. CASE StreamOf(k) \notin Streams
        <4>1. log' = [s \in Streams |-> log[s]]
          BY <3>2, <3>3, <3>6, Zenon
        <4>2. \A s \in Streams : log'[s] = log[s] /\ log[s] \in Seq(Signals) /\ Len(log[s]) \in Nat
          BY <3>3, <4>1
        <4> QED BY <3>6, <4>1, <4>2
      <3> QED BY Zenon, <3>5, <3>6
    <2>3. CASE Install(k, v) /\ Write(k, v)
      BY Zenon, <2>2, <2>3
    <2> QED BY Zenon, <2>1, <2>2, <2>3 DEF Install
  <1>5. UNCHANGED <<pc, cursor, got, batch, due, left, snap, previous, path>>
    BY Zenon, <1>2 DEF session, path
  <1>6. Typed'
    BY <1>2, <1>3, <1>4, <1>5 DEF SubInv, Typed
  <1>7. Ordered'
    <2>1. \A j \in Keys : db'[j].n <= writes' /\ db[j].n <= db'[j].n /\ db[j].n \in Nat
            /\ db'[j].n \in Nat
      BY <1>1, <1>2, <1>3 DEF SubInv, Typed, Ordered, Entries
    <2>2. \A i \in DOMAIN Paths : \A j \in Keys : previous[i][j].n \in Nat
      BY Zenon DEF SubInv, Typed, Entries
    <2>3. \A j \in Keys : snap[j].n \in Nat
      BY Zenon DEF SubInv, Typed, Entries
    <2> QED BY <1>5, <2>1, <2>2, <2>3 DEF SubInv, Ordered
  <1>8. ReadOK'
    <2> SUFFICES ASSUME pc = "read", NEW s \in Streams \ left
                 PROVE  /\ Len(got[s]) <= ReadCount /\ cursor[s] + Len(got[s]) <= Len(log'[s])
                        /\ \A j \in 1..Len(got[s]) : got[s][j] = log'[s][cursor[s] + j]
      BY Zenon, <1>5 DEF SubInv, ReadOK
    <2>1. /\ Len(got[s]) \in Nat /\ cursor[s] \in Nat /\ Len(log[s]) \in Nat /\ Len(log'[s]) \in Nat
      BY <1>4 DEF SubInv, Typed
    <2>2. /\ Len(got[s]) <= ReadCount /\ cursor[s] + Len(got[s]) <= Len(log[s])
          /\ \A j \in 1..Len(got[s]) : got[s][j] = log[s][cursor[s] + j]
      BY Zenon DEF SubInv, ReadOK
    <2>3. \A j \in 1..Len(got[s]) : cursor[s] + j \in 1..Len(log[s])
      <3>1. cursor[s] + Len(got[s]) <= Len(log[s])
        BY Zenon, <2>2
      <3> QED BY <2>1, <3>1
    <2>4. Len(log[s]) <= Len(log'[s]) /\ \A j \in 1..Len(log[s]) : log'[s][j] = log[s][j]
      BY Zenon, <1>4
    <2>5. \A j \in 1..Len(got[s]) : got[s][j] = log'[s][cursor[s] + j]
      BY Zenon, <2>2, <2>3, <2>4
    <2>6. cursor[s] + Len(got[s]) <= Len(log'[s])
      BY <2>1, <2>2, <2>4
    <2> QED BY Zenon, <2>2, <2>5, <2>6
  <1>9. \A i \in DOMAIN Paths : \A j \in Paths[i] : Signalled(j) => Signalled(j)'
    <2> SUFFICES ASSUME NEW i \in DOMAIN Paths, NEW j \in Paths[i], Signalled(j) PROVE Signalled(j)'
      BY Zenon
    <2> DEFINE s == StreamOf(j)
    <2>1. s \in Streams
      BY Zenon, PathStream
    <2>2. /\ Len(log[s]) \in Nat /\ Len(log'[s]) \in Nat /\ Len(log[s]) <= Len(log'[s])
          /\ \A p \in 1..Len(log[s]) : p \in 1..Len(log'[s]) /\ log'[s][p] = log[s][p]
      BY <1>4, <2>1 DEF SubInv, Typed
    <2> QED BY Zenon, <1>5, <2>2 DEF Signalled
  <1>10. \A i \in DOMAIN Paths : k \in Paths[i] => Signalled(k)' \/ k \in unsignalled'
    <2> SUFFICES ASSUME NEW i \in DOMAIN Paths, k \in Paths[i] PROVE Signalled(k)' \/ k \in unsignalled'
      BY Zenon
    <2>1. CASE Install(k, v)
      BY Zenon, <2>1 DEF Install
    <2>2. CASE Write(k, v)
      <3> DEFINE s == StreamOf(k)
      <3>1. s \in Streams
        BY Zenon, PathStream
      <3>2. Len(log'[s]) = Len(log[s]) + 1 /\ log'[s][Len(log[s]) + 1].key = k
        BY Zenon, <1>4, <2>2, <3>1
      <3>3. Len(log[s]) \in Nat /\ cursor[s] \in Nat /\ cursor[s] <= Len(log[s]) /\ cursor' = cursor
        BY <1>5, <3>1 DEF SubInv, Typed
      <3> QED BY <3>2, <3>3 DEF Signalled
    <2> QED BY Zenon, <2>1, <2>2
  <1>11. \A j : j # k => (j \in unsignalled' <=> j \in unsignalled)
    BY Zenon, <1>2
  <1>12. Covered'
    BY Zenon, <1>3, <1>5, <1>9, <1>10, <1>11, PathStream DEF SubInv, Covered
  <1> QED BY Zenon, <1>6, <1>7, <1>8, <1>12 DEF SubInv

\* A new subscription has sent nothing.
LEMMA SubscribeOK ==
  ASSUME SubInv, Subscribe \/ End
  PROVE  SubInv'
  <1>1. NoEntry \in Entries /\ NoEntry.n = 0
    BY Zenon DEF NoEntry, Entries
  <1>2. NoPayload \in [Keys -> Entries] /\ \A k \in Keys : NoPayload[k].n = 0
    BY Zenon, <1>1 DEF NoPayload
  <1>3. Nothing \in [Streams -> Seq(Signals)]
    BY DEF Nothing
  <1>4. \A k \in Keys : db[k].n \in Nat
    BY Zenon DEF SubInv, Typed, Entries
  <1>5. CASE Subscribe
    <2>1. Typed'
      BY Zenon, <1>2, <1>5 DEF Subscribe, store, SubInv, Typed
    <2>2. Ordered'
      BY <1>2, <1>4, <1>5 DEF Subscribe, store, SubInv, Ordered
    <2> QED BY Zenon, <1>5, <2>1, <2>2 DEF Subscribe, SubInv, ReadOK, Covered
  <1>6. CASE End
    <2>1. Typed'
      BY Zenon, <1>2, <1>3, <1>6 DEF End, store, SubInv, Typed
    <2>2. Ordered'
      BY Zenon, <1>6 DEF End, store, SubInv, Ordered
    <2> QED BY Zenon, <1>6, <2>1, <2>2 DEF End, SubInv, ReadOK, Covered
  <1> QED BY Zenon, <1>5, <1>6

\* When every tail is known all paths are to be read.
LEMMA CursorOK ==
  ASSUME SubInv, NEW s \in Streams, Cursor(s)
  PROVE  SubInv'
  <1>1. Typed'
    BY DEF Cursor, store, SubInv, Typed
  <1>2. Ordered'
    BY Zenon DEF Cursor, store, SubInv, Ordered
  <1> QED BY Zenon, <1>1, <1>2 DEF Cursor, SubInv, ReadOK, Covered

\* The keys that exist are to be read; the others are read by the scan.
LEMMA ScanOK ==
  ASSUME SubInv, Scan
  PROVE  SubInv'
  <1>1. NoEntry \in Entries /\ NoEntry.n = 0
    BY Zenon DEF NoEntry, Entries
  <1>2. UNCHANGED <<db, log, unsignalled, writes, cursor, got, batch, due, previous, path>>
                    /\ pc' = "keys"
    BY Zenon DEF Scan, store, path
  <1>3. snap' = [k \in Keys |-> IF k \in Paths[path] \ left' THEN db[k] ELSE NoEntry]
    BY Zenon DEF Scan
  <1>4. \A k \in Keys : db[k].n \in Nat /\ db[k] \in Entries
    BY Zenon DEF SubInv, Typed, Entries
  <1>5. Typed'
    BY Zenon, <1>1, <1>2, <1>3, <1>4 DEF SubInv, Typed
  <1>6. Ordered'
    <2>1. left' \subseteq Paths[path]
      BY Zenon DEF Scan
    <2> QED BY <1>1, <1>2, <1>3, <1>4, <2>1 DEF SubInv, Ordered
  <1>7. \A k : Signalled(k)' <=> Signalled(k)
    BY Zenon, <1>2 DEF Signalled
  <1>8. Covered'
    BY Zenon, <1>2, <1>3, <1>7, PathStream DEF Scan, SubInv, Covered
  <1> QED BY Zenon, <1>2, <1>5, <1>6, <1>8 DEF SubInv, ReadOK

\* A key is read.
LEMMA ReadKeyOK ==
  ASSUME SubInv, NEW k \in Keys, ReadKey(k)
  PROVE  SubInv'
  <1>1. UNCHANGED <<db, log, unsignalled, writes, cursor, got, batch, due, previous, path, pc>>
                    /\ pc = "keys"
    BY Zenon DEF ReadKey, store, path
  <1>2. snap' = [snap EXCEPT ![k] = db[k]] /\ left' = left \ {k} /\ k \in left
    BY Zenon DEF ReadKey
  <1>3. \A j \in Keys : db[j].n \in Nat /\ db[j] \in Entries
    BY Zenon DEF SubInv, Typed, Entries
  <1>4. Typed'
    BY Zenon, <1>1, <1>2, <1>3 DEF SubInv, Typed
  <1>5. snap'[k] = db[k] /\ \A j \in Keys : j # k => snap'[j] = snap[j]
    BY Zenon, <1>2 DEF SubInv, Typed
  <1>6. Ordered'
    BY <1>1, <1>2, <1>3, <1>5 DEF SubInv, Ordered
  <1>7. \A j : Signalled(j)' <=> Signalled(j)
    BY Zenon, <1>1 DEF Signalled
  <1>8. Covered'
    BY Zenon, <1>1, <1>2, <1>5, <1>7, PathStream DEF SubInv, Covered
  <1> QED BY Zenon, <1>1, <1>4, <1>6, <1>8 DEF SubInv, ReadOK

\* What was read is sent, unless it says the same: no resource goes back, and
\* what has changed meanwhile has its event.
LEMMA DeliverOK ==
  ASSUME SubInv, Deliver
  PROVE  /\ SubInv'
         /\ \A i \in DOMAIN Paths : \A k \in Keys : previous'[i][k].n >= previous[i][k].n
  <1>1. UNCHANGED <<db, log, unsignalled, writes, cursor, got, batch>>
        /\ pc = "keys" /\ pc' = "snapshot" /\ left = {} /\ due' = due \ {path} /\ snap' = NoPayload
    BY Zenon DEF Deliver, store
  <1>2. NoPayload \in [Keys -> Entries]
    BY Zenon DEF NoPayload, NoEntry, Entries
  <1>3. \A i \in DOMAIN Paths : i # path => previous'[i] = previous[i]
    BY Zenon DEF Deliver, SubInv, Typed
  <1>4. previous' \in [DOMAIN Paths -> [Keys -> Entries]]
    BY Zenon DEF Deliver, SubInv, Typed
  <1>5. path \in DOMAIN Paths =>
          /\ previous'[path] \in {previous[path], snap}
          /\ \A k \in Keys : previous'[path][k].val = snap[k].val
    <2>1. CASE Content(snap) = Content(previous[path])
      <3>1. \A k \in Keys : Content(snap)[k] = snap[k].val
              /\ Content(previous[path])[k] = previous[path][k].val
        BY Zenon DEF Content
      <3> QED BY Zenon, <2>1, <3>1 DEF Deliver
    <2>2. CASE Content(snap) # Content(previous[path])
      BY Zenon, <2>2 DEF Deliver, SubInv, Typed
    <2> QED BY Zenon, <2>1, <2>2
  <1>6. Typed'
    BY Zenon, <1>1, <1>2, <1>4 DEF SubInv, Typed
  <1>7. /\ \A i \in DOMAIN Paths : \A k \in Keys : previous[i][k].n \in Nat
             /\ previous[i][k].n <= previous[i][k].n
        /\ \A k \in Keys : snap[k].n \in Nat
    BY DEF SubInv, Typed, Entries
  <1>8. Ordered'
    BY <1>1, <1>3, <1>5 DEF SubInv, Ordered
  <1>9. \A i \in DOMAIN Paths : \A k \in Keys : previous'[i][k].n >= previous[i][k].n
    BY Zenon, <1>1, <1>3, <1>5, <1>7 DEF SubInv, Ordered
  <1>10. \A j : Signalled(j)' <=> Signalled(j)
    BY Zenon, <1>1 DEF Signalled
  <1>11. Covered'
    BY Zenon, <1>1, <1>3, <1>5, <1>10, PathStream DEF SubInv, Covered
  <1> QED BY Zenon, <1>1, <1>6, <1>8, <1>9, <1>11 DEF SubInv, ReadOK

\* All paths are sent and no event is left: what differs stands behind a
\* cursor.
LEMMA AwaitOK ==
  ASSUME SubInv, Await \/ HalfClose
  PROVE  SubInv'
  <1>1. UNCHANGED <<db, log, unsignalled, writes, cursor, batch, due, previous, snap>>
        /\ pc' = "read" /\ pc \in {"snapshot", "read"} /\ due = {} /\ batch = {}
        /\ left' = Streams /\ got' = Nothing
    BY Zenon DEF Await, HalfClose, store, SubInv, ReadOK
  <1>2. Nothing \in [Streams -> Seq(Signals)]
    BY DEF Nothing
  <1>3. Typed'
    BY Zenon, <1>1, <1>2 DEF SubInv, Typed
  <1>4. Ordered'
    BY Zenon, <1>1 DEF SubInv, Ordered
  <1>5. \A j : Signalled(j)' <=> Signalled(j)
    BY Zenon, <1>1 DEF Signalled
  <1>6. Covered'
    BY Zenon, <1>1, <1>5 DEF SubInv, Covered
  <1>7. ReadOK'
    BY Zenon, <1>1 DEF ReadOK
  <1> QED BY Zenon, <1>3, <1>4, <1>6, <1>7 DEF SubInv

\* A stream is read behind its cursor.
LEMMA XReadOK ==
  ASSUME SubInv, NEW s \in Streams, XRead(s)
  PROVE  SubInv'
  <1> DEFINE c == cursor[s]
             l == log[s]
             m == Min({c + ReadCount, Len(l)})
             g == SubSeq(l, c + 1, m)
  <1>1. UNCHANGED <<db, log, unsignalled, writes, cursor, batch, due, previous, snap, pc>>
        /\ pc = "read" /\ left' = left \ {s} /\ got' = [got EXCEPT ![s] = g]
    BY Zenon DEF XRead, store
  <1>2. l \in Seq(Signals) /\ Len(l) \in Nat /\ c \in Nat /\ c <= Len(l) /\ ReadCount \in Nat
    BY SubscribeAssumption DEF SubInv, Typed
  <1>3. m \in Nat /\ m <= c + ReadCount /\ m <= Len(l) /\ c <= m
    <2> DEFINE S == {c + ReadCount, Len(l)}
    <2>1. \E x \in S : \A y \in S : x <= y
      BY <1>2
    <2>2. m \in S /\ \A y \in S : m <= y
      BY Zenon, <2>1 DEF Min
    <2> QED BY <1>2, <2>2
  <1> HIDE DEF m, c, l
  <1>4. g \in Seq(Signals) /\ Len(g) = m - c /\ \A j \in 1..Len(g) : g[j] = l[c + j]
    BY <1>2, <1>3
  <1> HIDE DEF g
  <1>5. got' \in [Streams -> Seq(Signals)] /\ got'[s] = g
          /\ \A t \in Streams : t # s => got'[t] = got[t]
    BY Zenon, <1>1, <1>4 DEF SubInv, Typed
  <1>6. Typed'
    BY Zenon, <1>1, <1>5 DEF SubInv, Typed
  <1>7. Ordered'
    BY Zenon, <1>1 DEF SubInv, Ordered
  <1>8. \A j : Signalled(j)' <=> Signalled(j)
    BY Zenon, <1>1 DEF Signalled
  <1>9. Covered'
    BY Zenon, <1>1, <1>8 DEF SubInv, Covered
  <1>10. ReadOK'
    <2>1. Len(g) <= ReadCount /\ c + Len(g) <= Len(l)
      BY <1>2, <1>3, <1>4
    <2> QED BY <1>1, <1>4, <1>5, <2>1 DEF SubInv, ReadOK, c, l
  <1> QED BY Zenon, <1>6, <1>7, <1>9, <1>10 DEF SubInv

\* The events behind the cursors become the batch: none is passed over.
LEMMA MergeOK ==
  ASSUME SubInv, Merge
  PROVE  SubInv'
  <1>1. UNCHANGED <<db, log, unsignalled, writes, due, previous, snap, got>>
        /\ pc = "read" /\ pc' = "snapshot" /\ left = {} /\ batch' = Events
        /\ cursor' = [s \in Streams |-> cursor[s] + Len(got[s])]
    BY Zenon DEF Merge, store
  <1>2. \A s \in Streams :
          /\ Len(got[s]) \in Nat /\ cursor[s] \in Nat /\ Len(log[s]) \in Nat
          /\ Len(got[s]) <= ReadCount /\ cursor[s] + Len(got[s]) <= Len(log[s])
          /\ \A j \in 1..Len(got[s]) : got[s][j] = log[s][cursor[s] + j]
          /\ cursor'[s] = cursor[s] + Len(got[s])
    <2> SUFFICES ASSUME NEW s \in Streams
                 PROVE  /\ Len(got[s]) \in Nat /\ cursor[s] \in Nat /\ Len(log[s]) \in Nat
                        /\ Len(got[s]) <= ReadCount /\ cursor[s] + Len(got[s]) <= Len(log[s])
                        /\ \A j \in 1..Len(got[s]) : got[s][j] = log[s][cursor[s] + j]
                        /\ cursor'[s] = cursor[s] + Len(got[s])
      BY Zenon
    <2>1. got[s] \in Seq(Signals) /\ log[s] \in Seq(Signals) /\ cursor[s] \in Nat
      BY Zenon DEF SubInv, Typed
    <2>2. Len(got[s]) \in Nat /\ Len(log[s]) \in Nat
      BY <2>1
    <2>3. s \in Streams \ left /\ cursor'[s] = cursor[s] + Len(got[s])
      BY Zenon, <1>1
    <2>4. /\ Len(got[s]) <= ReadCount /\ cursor[s] + Len(got[s]) <= Len(log[s])
          /\ \A j \in 1..Len(got[s]) : got[s][j] = log[s][cursor[s] + j]
      BY Zenon, <1>1, <2>3 DEF SubInv, ReadOK
    <2> QED BY Zenon, <2>1, <2>2, <2>3, <2>4
  <1>3. Typed'
    <2>1. \A s \in Streams : cursor[s] + Len(got[s]) \in Nat
      BY <1>2
    <2>2. cursor' \in [Streams -> Nat]
      BY Zenon, <1>1, <2>1
    <2> QED BY Zenon, <1>1, <1>2, <2>2 DEF SubInv, Typed
  <1>4. Ordered'
    BY Zenon, <1>1 DEF SubInv, Ordered
  <1>5. \A i \in DOMAIN Paths : \A k \in Paths[i] : Signalled(k) => Signalled(k)'
    <2> SUFFICES ASSUME NEW i \in DOMAIN Paths, NEW k \in Paths[i], Signalled(k) PROVE Signalled(k)'
      BY Zenon
    <2> DEFINE s == StreamOf(k)
    <2>1. s \in Streams
      BY Zenon, PathStream
    <2>2. PICK j \in 1..Len(log[s]) : j > cursor[s] /\ log[s][j].key = k
      BY Zenon, <1>1 DEF Signalled, SubInv, ReadOK
    <2> HIDE DEF s
    <2>3. CASE j > cursor'[s]
      BY Zenon, <1>1, <2>2, <2>3 DEF Signalled, s
    <2>4. CASE ~(j > cursor'[s])
      <3> DEFINE p == j - cursor[s]
                 e == <<s, p, got[s][p]>>
      <3>1. p \in 1..Len(got[s]) /\ p \in 1..ReadCount /\ cursor[s] + p = j
        <4>1. /\ Len(got[s]) \in Nat /\ cursor[s] \in Nat /\ Len(log[s]) \in Nat
              /\ Len(got[s]) <= ReadCount /\ cursor'[s] = cursor[s] + Len(got[s])
          BY Zenon, <1>2, <2>1
        <4>2. j \in 1..Len(log[s]) /\ j > cursor[s] /\ ReadCount \in Nat
          BY Zenon, <2>2, SubscribeAssumption
        <4> QED BY <2>4, <4>1, <4>2
      <3>2. got[s][p].key = k
        BY Zenon, <1>2, <2>1, <2>2, <3>1
      <3> HIDE DEF p
      <3>3. e \in Events
        <4>1. <<s, p>> \in {q \in Streams \X (1..ReadCount) : q[2] <= Len(got[q[1]])}
          BY <2>1, <3>1
        <4> QED BY <4>1 DEF Events
      <3> QED BY Zenon, <1>1, <3>2, <3>3 DEF Signalled
    <2> QED BY Zenon, <2>3, <2>4
  <1>6. Covered'
    BY Zenon, <1>1, <1>5 DEF SubInv, Covered
  <1> QED BY Zenon, <1>1, <1>3, <1>4, <1>6 DEF SubInv, ReadOK

\* The paths of an event are to be read again.
LEMMA NextEventOK ==
  ASSUME SubInv, NEW e \in batch, NextEvent(e)
  PROVE  SubInv'
  <1>1. UNCHANGED <<db, log, unsignalled, writes, cursor, previous, snap, got, pc>>
        /\ pc = "snapshot" /\ due = {} /\ batch' = batch \ {e} /\ due' = Matching(e[3].key)
    BY Zenon DEF NextEvent, store
  <1>2. Typed'
    BY Zenon, <1>1 DEF SubInv, Typed
  <1>3. Ordered'
    BY Zenon, <1>1 DEF SubInv, Ordered
  <1>4. \A i \in DOMAIN Paths : \A k \in Paths[i] : Signalled(k) => Signalled(k)' \/ i \in due'
    BY Zenon, <1>1 DEF Signalled, Matching
  <1>5. Covered'
    BY Zenon, <1>1, <1>4 DEF SubInv, Covered
  <1> QED BY Zenon, <1>1, <1>2, <1>3, <1>5 DEF SubInv, ReadOK

-----------------------------------------------------------------------------
\* No step of a writer or of the subscription breaks the invariant.
LEMMA SubNext == SubInv /\ [Next]_vars => SubInv'
  <1> SUFFICES ASSUME SubInv, [Next]_vars PROVE SubInv'
    BY Zenon
  <1>1. CASE UNCHANGED vars
    <2>1. UNCHANGED <<db, log, unsignalled, writes, cursor, previous, snap, got, pc, batch, due,
                      left, path>>
      BY Zenon, <1>1 DEF vars, store, session, path
    <2>2. \A j : Signalled(j)' <=> Signalled(j)
      BY Zenon, <2>1 DEF Signalled
    <2>3. Typed' /\ ReadOK'
      BY Zenon, <2>1 DEF SubInv, Typed, ReadOK
    <2>4. Ordered'
      BY Zenon, <2>1 DEF SubInv, Ordered
    <2>5. Covered'
      BY Zenon, <2>1, <2>2 DEF SubInv, Covered
    <2> QED BY Zenon, <2>3, <2>4, <2>5 DEF SubInv
  <1>2. CASE \E k \in Keys :
               (\E v \in Values \cup {"none"} : Write(k, v)) \/ (\E v \in Values : Install(k, v))
    BY Zenon, <1>2, WriteOK
  <1>3. CASE Step
    BY Zenon, <1>3, CursorOK, XReadOK, ScanOK, DeliverOK, AwaitOK, MergeOK, ReadKeyOK,
       NextEventOK DEF Step
  <1> QED BY Zenon, <1>1, <1>2, <1>3, SubscribeOK, AwaitOK DEF Next

\* A client that waits with nothing left to read has been sent what the
\* databases hold: no change falls between the snapshots and the streams,
\* however reads, writes and the half-close interleave.
THEOREM NoChangeIsMissed == Spec => []NothingMissed
  <1>1. SubInv => NothingMissed
    <2> SUFFICES ASSUME SubInv, pc = "read", \A s \in Streams : cursor[s] = Len(log[s]) PROVE Agrees
      BY Zenon DEF NothingMissed
    <2>1. \A i \in DOMAIN Paths : \A k \in Paths[i] : ~Signalled(k)
      BY PathStream DEF Signalled, SubInv, ReadOK, Typed
    <2> QED BY Zenon, <2>1 DEF Agrees, SubInv, Covered, ReadOK
  <1> QED BY <1>1, SubInit, SubNext, PTL DEF Spec

\* No payload of a subscription takes a resource back to an older write,
\* although events may be handled out of order.
THEOREM NothingGoesBack == Spec => NeverBack
  <1> DEFINE Kept == pc # "ended" => \A i \in DOMAIN Paths : \A k \in Keys :
                                       previous'[i][k].n >= previous[i][k].n
  <1>1. SubInv /\ [Next]_vars => Kept
    <2> SUFFICES ASSUME SubInv, [Next]_vars, pc # "ended" PROVE Kept
      BY Zenon
    <2>1. \A i \in DOMAIN Paths : \A k \in Keys : previous[i][k].n \in Nat
      BY Zenon DEF SubInv, Typed, Entries
    <2>2. CASE UNCHANGED previous
      BY <2>1, <2>2
    <2>3. CASE Deliver
      BY Zenon, <2>3, DeliverOK
    <2>4. UNCHANGED previous \/ Deliver
      BY Zenon DEF Next, Step, vars, session, Write, Install, Subscribe, HalfClose, End, Cursor,
         XRead, Scan,
             Await, Merge, ReadKey, NextEvent
    <2> QED BY Zenon, <2>2, <2>3, <2>4
  <1> QED BY <1>1, SubInit, SubNext, PTL DEF Spec, NeverBack
=============================================================================
