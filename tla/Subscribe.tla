----------------------------- MODULE Subscribe ------------------------------
(***************************************************************************)
(* gNMI Subscribe (STREAM, ON_CHANGE): SubscribeTransaction.stream over    *)
(* RedisSubscribeRepository, against writers that replace a snapshot and   *)
(* append its event in one transaction.  An event is a signal only; what   *)
(* is sent is read again from the snapshots.  One action per Redis round   *)
(* trip.  The payload of a path is the value of each of its resources;     *)
(* with updates_only the first payloads are recorded without being sent.   *)
(***************************************************************************)
EXTENDS Naturals, Sequences, FiniteSets, FiniteSetsExt

CONSTANTS
  States, Alarms,   \* resources of STATE_DB and of ALARM_DB
  Silent,           \* those (ports) whose first snapshot comes without an event
  Values,           \* contents of a snapshot
  Paths,            \* the subscribed paths, each the set of its resources
  ReadCount,        \* count of XREAD
  MaxWrites, MaxFails

ASSUME SubscribeAssumption ==
  /\ Silent \subseteq States /\ States \cap Alarms = {} /\ ReadCount \in Nat \ {0}
  /\ \A i \in DOMAIN Paths : Paths[i] # {} /\ Paths[i] \subseteq States \cup Alarms

VARIABLES
  db,        \* the snapshots: content and number of the write
  log,       \* OCS_STATE_EVENTS and OCS_ALARM_EVENTS
  unsignalled,  \* resources whose snapshot was installed without an event
  writes, fails,
  pc,        \* where the coroutine of the subscription is
  open,      \* the client has not ended its request stream
  cursor,    \* cursors
  got,       \* what XREAD returned
  batch,     \* the events still to handle
  due,       \* the paths still to read for the event in hand
  left,      \* streams or resources the current call has left
  snap,      \* the payload being read
  previous   \* the last payload of each path

store == <<db, log, unsignalled, writes>>
session == <<pc, open, cursor, got, batch, due, left, snap, previous>>
vars == <<store, fails, session>>

Keys == States \cup Alarms
StreamOf(k) == IF k \in Alarms THEN "ALARM" ELSE "STATE"
NoEntry == [val |-> "none", n |-> 0]
NoPayload == [k \in Keys |-> NoEntry]
Streams == {StreamOf(k) : k \in UNION {Paths[i] : i \in DOMAIN Paths}}
Nothing == [s \in Streams |-> <<>>]
Matching(k) == {i \in DOMAIN Paths : k \in Paths[i]}

Init ==
  /\ db = NoPayload /\ log = Nothing /\ unsignalled = {} /\ writes = 0 /\ fails = 0
  /\ pc = "ended" /\ open = FALSE /\ cursor = [s \in Streams |-> 0] /\ got = Nothing
  /\ batch = {} /\ due = {} /\ left = {} /\ snap = NoPayload
  /\ previous = [i \in DOMAIN Paths |-> NoPayload]

-----------------------------------------------------------------------------
(* The writers. *)

\* The snapshot is replaced or deleted and the event appended, in one go.
Write(k, v) ==
  /\ writes < MaxWrites /\ db[k].val # v
  /\ k \in Silent => db[k].n # 0 /\ v # "none"
  /\ writes' = writes + 1
  /\ db' = [db EXCEPT ![k] = [val |-> v, n |-> writes']]
  /\ log' = [log EXCEPT ![StreamOf(k)] = Append(@, [key |-> k, entry |-> db'[k]])]
  /\ unsignalled' = unsignalled \ {k}
  /\ UNCHANGED <<fails, session>>

\* The first snapshot of a port.
Install(k, v) ==
  /\ writes < MaxWrites /\ k \in Silent /\ db[k].n = 0
  /\ writes' = writes + 1
  /\ db' = [db EXCEPT ![k] = [val |-> v, n |-> writes']]
  /\ unsignalled' = unsignalled \cup {k}
  /\ UNCHANGED <<log, fails, session>>

-----------------------------------------------------------------------------
(* The subscription. *)

Subscribe ==
  /\ pc = "ended"
  /\ pc' = "cursors" /\ left' = Streams /\ open' = TRUE
  /\ previous' = [i \in DOMAIN Paths |-> NoPayload]
  /\ UNCHANGED <<store, fails, cursor, got, batch, due, snap>>

\* The tail of each stream, in the order of their names.
Cursor(s) ==
  /\ pc = "cursors" /\ s \in left /\ (s = "STATE" => "ALARM" \notin left)
  /\ cursor' = [cursor EXCEPT ![s] = Len(log[s])]
  /\ left' = left \ {s}
  /\ \/ left' # {} /\ UNCHANGED <<pc, due>>
     \/ left' = {} /\ pc' = "snapshot" /\ due' = DOMAIN Paths
  /\ UNCHANGED <<store, fails, open, got, batch, snap, previous>>

\* A path in turn is read: the keys that exist, then each of them.
path == Min(due)
Scan ==
  /\ pc = "snapshot" /\ due # {}
  /\ left' = {k \in Paths[path] : db[k].val # "none"}
  /\ snap' = [k \in Keys |-> IF k \in Paths[path] \ left' THEN db[k] ELSE NoEntry]
  /\ pc' = "keys"
  /\ UNCHANGED <<store, fails, open, cursor, got, batch, due, previous>>

ReadKey(k) ==
  /\ pc = "keys" /\ k \in left
  /\ snap' = [snap EXCEPT ![k] = db[k]]
  /\ left' = left \ {k}
  /\ UNCHANGED <<store, fails, pc, open, cursor, got, batch, due, previous>>

Content(p) == [k \in Keys |-> p[k].val]

\* A payload is sent and remembered unless it is the previous one.
Deliver ==
  /\ pc = "keys" /\ left = {}
  /\ previous' = IF Content(snap) = Content(previous[path]) THEN previous
                 ELSE [previous EXCEPT ![path] = snap]
  /\ due' = due \ {path} /\ snap' = NoPayload
  /\ pc' = "snapshot"
  /\ UNCHANGED <<store, fails, open, cursor, got, batch, left>>

\* Mutant: the tail is captured once the first payloads are sent.
AwaitAtTail ==
  /\ pc = "snapshot" /\ due = {} /\ batch = {}
  /\ cursor' = [s \in Streams |-> Len(log[s])]
  /\ pc' = "read" /\ left' = Streams /\ got' = Nothing
  /\ UNCHANGED <<store, fails, open, batch, due, snap, previous>>

\* Everything is sent: wait for events.
Await ==
  /\ pc = "snapshot" /\ due = {} /\ batch = {}
  /\ pc' = "read" /\ left' = Streams /\ got' = Nothing
  /\ UNCHANGED <<store, fails, open, cursor, batch, due, snap, previous>>

\* next_events reads the streams side by side, each after its cursor.
XRead(s) ==
  /\ pc = "read" /\ s \in left
  /\ got' = [got EXCEPT ![s] = SubSeq(log[s], cursor[s] + 1,
                                      Min({cursor[s] + ReadCount, Len(log[s])}))]
  /\ left' = left \ {s}
  /\ UNCHANGED <<store, fails, pc, open, cursor, batch, due, snap, previous>>

Events == {<<q[1], q[2], got[q[1]][q[2]]>> :
             q \in {q \in Streams \X (1..ReadCount) : q[2] <= Len(got[q[1]])}}

\* Mutant: the cursors stay where the subscription began.
MergeInPlace ==
  /\ pc = "read" /\ left = {}
  /\ cursor' = cursor
  /\ batch' = Events /\ pc' = "snapshot"
  /\ UNCHANGED <<store, fails, open, got, due, left, snap, previous>>

\* Both have answered: the cursors advance.
Merge ==
  /\ pc = "read" /\ left = {}
  /\ cursor' = [s \in Streams |-> cursor[s] + Len(got[s])]
  /\ batch' = Events /\ pc' = "snapshot"
  /\ UNCHANGED <<store, fails, open, got, due, left, snap, previous>>

\* The client ends its request stream: the read under way is cancelled.
HalfClose ==
  /\ pc = "read" /\ open
  /\ open' = FALSE
  /\ left' = Streams /\ got' = Nothing
  /\ UNCHANGED <<store, fails, pc, cursor, batch, due, snap, previous>>

\* Mutant: the event's payload is sent as it is.
NextEventTrusts(e) ==
  /\ pc = "snapshot" /\ due = {} /\ e \in batch
  /\ batch' = batch \ {e}
  /\ previous' = [i \in DOMAIN Paths |->
       IF i \in Matching(e[3].key) THEN [previous[i] EXCEPT ![e[3].key] = e[3].entry]
       ELSE previous[i]]
  /\ UNCHANGED <<store, fails, pc, open, cursor, got, due, left, snap>>

\* Events are handled by time stamp, which the writers take before their
\* transactions: in any order.
NextEvent(e) ==
  /\ pc = "snapshot" /\ due = {} /\ e \in batch
  /\ batch' = batch \ {e}
  /\ due' = Matching(e[3].key)
  /\ UNCHANGED <<store, fails, pc, open, cursor, got, left, snap, previous>>

\* A deadline or an error of Redis, or the client cancels.
End ==
  /\ pc # "ended" /\ fails < MaxFails
  /\ fails' = fails + 1
  /\ pc' = "ended" /\ open' = FALSE
  /\ got' = Nothing /\ batch' = {} /\ due' = {} /\ left' = {} /\ snap' = NoPayload
  /\ UNCHANGED <<store, cursor, previous>>

Step ==
  \/ \E s \in Streams : Cursor(s) \/ XRead(s)
  \/ Scan \/ Deliver \/ Await \/ Merge
  \/ \E k \in Keys : ReadKey(k)
  \/ \E e \in batch : NextEvent(e)

Next ==
  \/ \E k \in Keys :
       (\E v \in Values \cup {"none"} : Write(k, v)) \/ (\E v \in Values : Install(k, v))
  \/ Subscribe \/ HalfClose \/ End \/ Step

Spec == Init /\ [][Next]_vars

\* The event loop of the server runs its coroutines; nothing makes a client
\* subscribe or a writer write.
FairSpec == Spec /\ WF_vars(Step)

-----------------------------------------------------------------------------
(* Properties *)

\* A path shows what the databases hold, installed ports apart.
Agrees ==
  \A i \in DOMAIN Paths : \A k \in Paths[i] \ unsignalled : previous[i][k].val = db[k].val

\* A client that waits with nothing left to read has been sent the current
\* snapshots: no change falls between the first payloads and the stream.
NothingMissed ==
  (pc = "read" /\ \A s \in Streams : cursor[s] = Len(log[s])) => Agrees

\* Within one subscription no resource goes back to an older write.
NeverBack ==
  [][pc # "ended" => \A i \in DOMAIN Paths : \A k \in Keys :
                       previous'[i][k].n >= previous[i][k].n]_vars

\* A subscription that lasts comes to show the last writes.
CatchesUp == <>[](pc # "ended") => <>[]Agrees
=============================================================================
