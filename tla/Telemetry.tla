----------------------------- MODULE Telemetry ------------------------------
(***************************************************************************)
(* The browser's view: the web gateway turns one gNMI subscription into a  *)
(* bounded queue of WebSocket messages (_produce_events, events), and the  *)
(* dashboard merges them with snapshots it fetches over HTTP (refresh,     *)
(* handleEvent, connectEvents).  A resource is a version number; what the  *)
(* gNMI server sends is what Subscribe promises: the current version of a  *)
(* path, first for all of them and then whenever one has changed.          *)
(***************************************************************************)
EXTENDS Integers, Sequences, FiniteSets, SequencesExt

CONSTANTS
  Paths,          \* the subscribed containers, in order
  QueueSize,      \* websocket_queue_size
  Attempts,       \* websocket_reconnect_attempts
  MaxReconnects,  \* the dashboard's limit on reconnects in a row
  MaxRequests,    \* requests in flight
  Troubles        \* the bounded events that may happen together, and how often

ASSUME TelemetryAssumption == QueueSize > 0 /\ MaxRequests > 0

VARIABLES
  db,                          \* what a Get returns
  up,                          \* the gNMI server answers
  gw, reconnects, sent, synced,  \* the producer, and its subscription
  queue,                       \* messages on their way to the browser
  ws,                          \* the WebSocket, or the timer to reopen it
  count, label,                \* reconnectCount, the stream state shown
  shown, whole,                \* the snapshot; whether it has its config parts
  timer, reqs, banner,         \* refreshTimer, refreshes in flight, the error shown
  overtaken,                   \* ghost: the last refresh to end had been overtaken
  used                         \* how often each bounded event has happened

gateway == <<gw, reconnects, sent, synced>>
stream == <<ws, count, label>>
view == <<shown, whole, timer, reqs, banner, overtaken>>
vars == <<db, up, gateway, queue, stream, view, used>>

All == Range(Paths)
None == [p \in All |-> -1]
Message(t) == [type |-> t, path |-> Paths[1], ver |-> 0]

\* A refresh; `late` (ghost) says that something newer has come before its
\* answer: the end of a later refresh, or an event that was dropped.
Request(first) == [left |-> All, got |-> None, first |-> first, late |-> FALSE]

Kinds == {"write", "outage", "abort", "break", "refusal", "expiry", "fail", "input"}
Use(e) ==
  /\ used' = [used EXCEPT ![e] = @ + 1]
  /\ \E limit \in Troubles : \A k \in Kinds : used'[k] <= limit[k]

\* start: the first refresh is awaited before the stream is opened.
Init ==
  /\ db = [p \in All |-> 0] /\ up = TRUE
  /\ gw = "off" /\ reconnects = 0 /\ sent = None /\ synced = FALSE
  /\ queue = <<>>
  /\ ws = "start" /\ count = 0 /\ label = "offline"
  /\ shown = None /\ whole = FALSE /\ timer = FALSE /\ banner = FALSE
  /\ overtaken = FALSE
  /\ reqs = <<Request(TRUE)>>
  /\ used = [e \in Kinds |-> 0]

-----------------------------------------------------------------------------
(* The gNMI server. *)

Write(p) ==
  /\ Use("write") /\ db' = [db EXCEPT ![p] = @ + 1]
  /\ UNCHANGED <<up, gateway, queue, stream, view>>

Outage ==
  /\ up /\ Use("outage") /\ up' = FALSE
  /\ UNCHANGED <<db, gateway, queue, stream, view>>

Restore ==
  /\ ~up /\ up' = TRUE
  /\ UNCHANGED <<db, gateway, queue, stream, view, used>>

-----------------------------------------------------------------------------
(* The gateway. *)

Put(m) == Len(queue) < QueueSize /\ queue' = Append(queue, m)

\* The WebSocket is accepted, "ready" sent and the producer started.
Accept ==
  /\ ws = "opening" /\ ws' = "open"
  /\ queue' = <<Message("ready")>>
  /\ gw' = "dial" /\ reconnects' = 0 /\ sent' = None /\ synced' = FALSE
  /\ UNCHANGED <<db, up, count, label, view, used>>

Subscribe ==
  /\ gw = "dial" /\ up
  /\ gw' = "stream" /\ sent' = None /\ synced' = FALSE
  /\ UNCHANGED <<db, up, reconnects, queue, stream, view, used>>

\* The first path not sent, or after the sync a path that has changed.
Due(p) ==
  IF synced THEN sent[p] # db[p]
  ELSE p = Paths[Cardinality({q \in All : sent[q] # -1}) + 1]

Update(p) ==
  /\ gw = "stream" /\ up
  /\ ~synced => \E q \in All : sent[q] = -1
  /\ Due(p)
  /\ Put([type |-> "update", path |-> p, ver |-> db[p]])
  /\ sent' = [sent EXCEPT ![p] = db[p]]
  /\ UNCHANGED <<db, up, gw, reconnects, synced, stream, view, used>>

Sync ==
  /\ gw = "stream" /\ up /\ ~synced /\ \A p \in All : sent[p] # -1
  /\ Put(Message("sync")) /\ synced' = TRUE
  /\ UNCHANGED <<db, up, gw, reconnects, sent, stream, view, used>>

\* A retryable error: another attempt, or the last message.
RpcFails ==
  /\ gw \in {"dial", "stream"} /\ ~up
  /\ \/ /\ reconnects >= Attempts
        /\ Put(Message("error")) /\ gw' = "done" /\ UNCHANGED reconnects
     \/ /\ reconnects < Attempts
        /\ Put(Message("reconnecting")) /\ gw' = "dial" /\ reconnects' = reconnects + 1
  /\ UNCHANGED <<db, up, sent, synced, stream, view, used>>

\* Any other status, or an exception: the last message at once.
RpcAborts ==
  /\ gw \in {"dial", "stream"} /\ Use("abort")
  /\ Put(Message("error")) /\ gw' = "done"
  /\ UNCHANGED <<db, up, reconnects, sent, synced, stream, view>>

\* The lifetime of the stream is over.
Expire ==
  /\ gw \in {"dial", "stream"} /\ Use("expiry")
  /\ Put(Message("end")) /\ gw' = "done"
  /\ UNCHANGED <<db, up, reconnects, sent, synced, stream, view>>

Producer == Subscribe \/ (\E p \in All : Update(p)) \/ Sync \/ RpcFails

-----------------------------------------------------------------------------
(* The dashboard's stream: connectEvents and handleEvent. *)

\* Messages that end the WebSocket behind them.
Ends(m) == m.type \in {"error", "end"}

\* Mutant: only a synchronized stream counts as a connection.
CountAfterSync(m) == IF m.type = "sync" THEN 0 ELSE count

CountAfter(m) == IF m.type \in {"ready", "sync"} THEN 0 ELSE count

\* Mutant: the payload is all there is to show.
ShowOnly(m) ==
  /\ shown' = [shown EXCEPT ![m.path] = m.ver]
  /\ whole' = (whole /\ m.path # Paths[1])
  /\ UNCHANGED <<timer, reqs, banner, overtaken>>

\* The payload of the connections has no config part; a refresh is scheduled.
Show(m) ==
  /\ shown' = [shown EXCEPT ![m.path] = m.ver]
  /\ whole' = (whole /\ m.path # Paths[1])
  /\ timer' = TRUE
  /\ UNCHANGED <<reqs, banner, overtaken>>

\* Without a snapshot an update is ignored, and nothing is scheduled.
Drop ==
  /\ reqs' = [j \in DOMAIN reqs |-> [reqs[j] EXCEPT !.late = TRUE]]
  /\ UNCHANGED <<shown, whole, timer, banner, overtaken>>

HandleEvent ==
  LET m == Head(queue) IN
  /\ ws = "open" /\ queue # <<>>
  /\ count' = CountAfter(m)
  /\ label' = CASE m.type \in {"ready", "sync"} -> "live"
                [] m.type = "reconnecting" -> "connecting"
                [] m.type = "error" -> "offline"
                [] OTHER -> label
  /\ CASE m.type = "update" /\ shown # None -> Show(m)
       [] m.type = "update" /\ shown = None -> Drop
       [] m.type # "update" -> /\ banner' = (banner \/ m.type = "error")
                               /\ UNCHANGED <<shown, whole, timer, reqs, overtaken>>
  /\ IF Ends(m) THEN ws' = "closed" /\ gw' = "off" /\ queue' = <<>>
     ELSE queue' = Tail(queue) /\ UNCHANGED <<ws, gw>>
  /\ UNCHANGED <<db, up, reconnects, sent, synced, used>>

\* The connection breaks, or is refused.
Break ==
  /\ ws = "open" /\ Use("break")
  /\ ws' = "closed" /\ gw' = "off" /\ queue' = <<>>
  /\ UNCHANGED <<db, up, reconnects, sent, synced, count, label, view>>

Refuse ==
  /\ ws = "opening" /\ Use("refusal") /\ ws' = "closed"
  /\ UNCHANGED <<db, up, gateway, queue, count, label, view>>

\* The close handler: a timer to connect again, or nothing more.
Close ==
  /\ ws = "closed" /\ label' = "offline"
  /\ \/ count >= MaxReconnects /\ ws' = "given up" /\ UNCHANGED count
     \/ count < MaxReconnects /\ ws' = "waiting" /\ count' = count + 1
  /\ UNCHANGED <<db, up, gateway, queue, view, used>>

ConnectEvents ==
  /\ ws = "waiting" /\ ws' = "opening" /\ label' = "connecting"
  /\ UNCHANGED <<db, up, gateway, queue, count, view, used>>

-----------------------------------------------------------------------------
(* The dashboard's snapshots: refresh, scheduleRefresh and operation. *)

Issue == Len(reqs) < MaxRequests /\ reqs' = Append(reqs, Request(FALSE))

TimerFires ==
  /\ timer /\ timer' = FALSE /\ Issue
  /\ UNCHANGED <<db, up, gateway, queue, stream, shown, whole, banner, overtaken, used>>

RefreshClicked ==
  /\ Use("input") /\ Issue
  /\ UNCHANGED <<db, up, gateway, queue, stream, shown, whole, timer, banner, overtaken>>

\* A form is submitted and answered.
Operation(ok) ==
  /\ Use("input")
  /\ timer' = (timer \/ ok) /\ banner' = ~ok
  /\ UNCHANGED <<db, up, gateway, queue, stream, shown, whole, reqs, overtaken>>

\* The six Gets of a snapshot run side by side.
Get(i, p) ==
  /\ up /\ p \in reqs[i].left
  /\ reqs' = [reqs EXCEPT ![i].left = @ \ {p}, ![i].got[p] = db[p]]
  /\ UNCHANGED <<db, up, gateway, queue, stream, shown, whole, timer, banner, overtaken, used>>

\* start opens the stream once the first refresh is over.
Started(r) ==
  IF r.first THEN ws' = "opening" /\ label' = "connecting" /\ UNCHANGED count
  ELSE UNCHANGED stream

\* Whichever refresh is over leaves the list, and has overtaken the older ones.
Ended(i) ==
  /\ reqs' = RemoveAt([j \in DOMAIN reqs |-> [reqs[j] EXCEPT !.late = @ \/ j < i]], i)
  /\ overtaken' = reqs[i].late
  /\ Started(reqs[i])

Answered(i) ==
  /\ reqs[i].left = {}
  /\ shown' = reqs[i].got /\ whole' = TRUE /\ banner' = FALSE
  /\ Ended(i)
  /\ UNCHANGED <<db, up, gateway, queue, timer, used>>

\* An error of the gateway or of gNMI, or the browser's own timeout.
RequestFails(i) ==
  /\ Use("fail") /\ banner' = TRUE
  /\ Ended(i)
  /\ UNCHANGED <<db, up, gateway, queue, shown, whole, timer>>

Browser ==
  \/ HandleEvent \/ Close \/ ConnectEvents \/ TimerFires
  \/ \E i \in DOMAIN reqs : Answered(i) \/ \E p \in All : Get(i, p)

Next ==
  \/ \E p \in All : Write(p)
  \/ Outage \/ Restore \/ RpcAborts \/ Break \/ Refuse \/ Expire
  \/ Accept \/ Producer \/ Browser
  \/ RefreshClicked \/ \E ok \in BOOLEAN : Operation(ok)
  \/ \E i \in DOMAIN reqs : RequestFails(i)

Spec == Init /\ [][Next]_vars

\* The event loops of the gateway and of the browser go on whenever they have
\* something to do; nothing makes the gNMI server come back.
FairSpec == Spec /\ WF_vars(Accept \/ Producer) /\ WF_vars(Browser)

-----------------------------------------------------------------------------
(* Properties *)

\* Nothing is left that could change what is shown.
Rest ==
  /\ gw = "stream" /\ synced /\ sent = db /\ queue = <<>>
  /\ reqs = <<>> /\ ~timer

\* A dashboard that has nothing left to do shows the current state with its
\* config parts, or an error, although refresh stores whichever answer arrives
\* and events come in while it waits; only when the last refresh to end had been
\* overtaken, by one begun after it or by an event dropped for want of a
\* snapshot, may an older state stay.
FreshAtRest == Rest /\ ~overtaken => banner \/ (shown = db /\ whole)

\* Once the gNMI server stays up, the stream comes back and stays, however
\* often it was lost before, unless the page was refused or cut off as often
\* as it tries again: ends and errors the gateway announces do not count.
ComesBack ==
  (<>[]up /\ [](used["refusal"] + used["break"] < MaxReconnects))
    => <>[](ws = "open" /\ label = "live")
=============================================================================
