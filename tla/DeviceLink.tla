----------------------------- MODULE DeviceLink -----------------------------
(***************************************************************************)
(* ocs-syncd's calls to the device over the UNIX socket: UdsDeviceBackend  *)
(* on one side; UdsServer, with a thread per connection, on the other.     *)
(* syncd takes its commands in order: for each one it asks for the device  *)
(* info, applies the batch, reads the matrix back when the apply failed,   *)
(* and settles it; after a crash it does the unsettled command again.  A   *)
(* call that timed out leaves its request behind with a worker that may    *)
(* run it at any later time.                                               *)
(***************************************************************************)
EXTENDS Device

CONSTANTS
  Slots,        \* the sockets that can exist at once
  Batch,        \* the batch of every operation id
  IdSpan,       \* request ids before they repeat (2^64 in the code)
  MaxTroubles   \* bound on crashes of ocs-hwsim and ocs-syncd and on faults

ASSUME LinkAssumption ==
  /\ IsFiniteSet(OpIds) /\ OpIds # {} /\ OpIds = 1..Cardinality(OpIds)
  /\ Batch \in [OpIds -> [Conns -> Command]]
  \* Versions are revisions of CONFIG_DB, the first of which is 1.
  /\ \A o \in OpIds, c \in Conns : Batch[o][c].op # "NONE" => Batch[o][c].ver # 0
  /\ 0 \notin Slots /\ IdSpan \in Nat \ {0}
  \* More results are kept than requests can be left behind.
  /\ Cardinality(Slots) <= CacheSize

VARIABLES
  up,        \* the server listens
  link,      \* per socket: both ends, the packet in each direction
  sock,      \* socket_fd_, 0 for none
  nextId,    \* next_request_id_
  call,      \* the exchange: request type, awaited id, whether it is the retry
  pc,        \* where the exchange is
  stage,     \* what syncd does next with the command
  op,        \* the command syncd works on
  ret,       \* how the last call ended
  crashes, injected,
  trouble,   \* history: what disturbed the calls of this command
  ran        \* history: executions of an operation by this device process

clientVars == <<sock, nextId, call, pc, stage, op, ret>>
linkVars == <<up, link>>
history == <<crashes, injected, trouble, ran>>
vars == <<deviceVars, linkVars, clientVars, history>>

NoPacket == [id |-> 0, type |-> "none", op |-> 0, code |-> "none"]
Closed == [client |-> FALSE, peer |-> FALSE, req |-> NoPacket, rep |-> NoPacket]
NoCall == [type |-> "none", id |-> 0, retry |-> FALSE]
Last == Cardinality(OpIds)

Init ==
  /\ DeviceInit
  /\ up = TRUE /\ link = [s \in Slots |-> Closed]
  /\ sock = 0 /\ nextId = 1 /\ pc = "idle" /\ stage = "INFO" /\ op = 1
  /\ call = NoCall /\ ret = "none"
  /\ crashes = 0 /\ injected = 0 /\ trouble = FALSE /\ ran = [o \in OpIds |-> 0]

-----------------------------------------------------------------------------
(* The client.                                                             *)

Idempotent(type) == type \in {"INFO", "READ"}

\* closeLocked.
\* Mutant: the socket is kept after a failed exchange.
CloseNothing == UNCHANGED <<link, sock>>

Close ==
  /\ link' = [link EXCEPT ![sock].client = FALSE, ![sock].rep = NoPacket]
  /\ sock' = 0

\* The call returns r; the next one follows from it.
Return(r) ==
  /\ ret' = r /\ pc' = "idle" /\ call' = NoCall
  /\ stage' = CASE stage = "INFO"  -> IF r = "FAILED" THEN "SETTLE" ELSE "APPLY"
                [] stage = "APPLY" -> IF r = "OK" THEN "SETTLE" ELSE "READ"
                [] stage = "READ"  -> "SETTLE"

\* sendAndReceiveLocked failed: close, and repeat a read once.
\* Mutant: a read is not repeated either.
FailedOnce ==
  /\ Close
  /\ Return("FAILED")

Failed ==
  /\ Close
  /\ \/ /\ pc \in {"send", "wait"} /\ Idempotent(call.type) /\ ~call.retry
        /\ call' = [call EXCEPT !.retry = TRUE]
        /\ pc' = "connect" /\ UNCHANGED <<ret, stage>>
     \/ /\ pc = "hello" \/ ~Idempotent(call.type) \/ call.retry
        /\ Return("FAILED")

Call ==
  /\ pc = "idle" /\ stage # "SETTLE"
  /\ call' = [type |-> stage, id |-> 0, retry |-> FALSE]
  /\ pc' = IF sock = 0 THEN "connect" ELSE "send"
  /\ UNCHANGED <<deviceVars, linkVars, sock, nextId, stage, op, ret, history>>

Transmit(s, type) ==
  /\ link' = [link EXCEPT ![s] = [@ EXCEPT !.client = TRUE, !.peer = TRUE, !.req =
                [id |-> nextId, type |-> type, op |-> op, code |-> "none"]]]
  /\ call' = [call EXCEPT !.id = nextId]
  /\ nextId' = (nextId % IdSpan) + 1

\* ensureConnectedLocked: connect and send HELLO.
Connect ==
  /\ pc = "connect"
  /\ \/ /\ up
        /\ \E s \in Slots :
             /\ ~link[s].client /\ link[s].req = NoPacket
             /\ Transmit(s, "HELLO") /\ sock' = s
        /\ pc' = "hello" /\ UNCHANGED <<ret, stage>>
     \/ /\ ~up /\ Return("FAILED") /\ UNCHANGED <<link, sock, nextId>>
  /\ UNCHANGED <<deviceVars, up, op, history>>

Send ==
  /\ pc = "send"
  /\ \/ /\ link[sock].peer
        /\ Transmit(sock, call.type)
        /\ pc' = "wait" /\ UNCHANGED <<sock, ret, stage>>
     \/ ~link[sock].peer /\ Failed /\ UNCHANGED nextId
  /\ UNCHANGED <<deviceVars, up, op, history>>

Awaiting == pc \in {"hello", "wait"}

Receive ==
  /\ Awaiting /\ link[sock].rep # NoPacket
  /\ \/ /\ link[sock].rep.id = call.id
        /\ link' = [link EXCEPT ![sock].rep = NoPacket]
        /\ \/ pc = "hello" /\ pc' = "send" /\ UNCHANGED <<call, ret, stage>>
           \/ pc = "wait" /\ Return(link[sock].rep.code)
        /\ UNCHANGED sock
     \/ link[sock].rep.id # call.id /\ Failed
  /\ UNCHANGED <<deviceVars, up, nextId, op, history>>

\* recv returns 0: the peer is gone and has left no packet.
\* Mutant: the wait goes on.
WaitForever == FALSE /\ UNCHANGED vars

Disconnected ==
  /\ Awaiting /\ link[sock].rep = NoPacket /\ ~link[sock].peer
  /\ Failed
  /\ UNCHANGED <<deviceVars, up, nextId, op, history>>

\* SO_RCVTIMEO.
TimedOut ==
  /\ Awaiting /\ link[sock].rep = NoPacket /\ link[sock].peer
  /\ Failed /\ trouble' = TRUE
  /\ UNCHANGED <<deviceVars, up, nextId, op, crashes, injected, ran>>

\* The result is stored and the command acknowledged.
Settle ==
  /\ stage = "SETTLE" /\ op < Last
  /\ op' = op + 1 /\ stage' = "INFO" /\ ret' = "none" /\ trouble' = ~up
  /\ UNCHANGED <<deviceVars, linkVars, sock, nextId, call, pc, crashes, injected, ran>>

MoreTrouble == (generation - 1) + crashes + injected < MaxTroubles

\* ocs-syncd dies; its successor does the unsettled command again.
SyncdCrash ==
  /\ MoreTrouble /\ crashes' = crashes + 1
  /\ IF sock = 0 THEN UNCHANGED <<link, sock>> ELSE Close
  /\ pc' = "idle" /\ call' = NoCall /\ stage' = "INFO" /\ ret' = "none"
  /\ trouble' = ~up /\ nextId' = 1
  /\ UNCHANGED <<deviceVars, up, op, injected, ran>>

-----------------------------------------------------------------------------
(* The server.                                                             *)

\* dispatch: what the request answers, and what it does to the device.
ReplyTo(q) ==
  [q EXCEPT !.code = IF q.type = "APPLY" THEN Answer(q.op, Batch[q.op]) ELSE "OK"]

Dispatch(q) ==
  \/ /\ q.type = "APPLY"
     /\ ApplyConnections(q.op, Batch[q.op])
     /\ ran' = [ran EXCEPT ![q.op] = @ + (IF results[q.op] = "none" THEN 1 ELSE 0)]
  \/ q.type # "APPLY" /\ UNCHANGED <<deviceVars, ran>>

\* serveClient: a packet in, a packet out; the worker of a client that has
\* closed cannot send and ends.
Serve(s) ==
  /\ link[s].peer /\ link[s].req # NoPacket
  /\ Dispatch(link[s].req)
  /\ link' = [link EXCEPT ![s] = IF @.client
                THEN [@ EXCEPT !.req = NoPacket, !.rep = ReplyTo(link[s].req)]
                ELSE Closed]
  /\ UNCHANGED <<up, clientVars, crashes, injected, trouble>>

\* ocs-hwsim dies: its ends of the sockets close, with what they had not read.
HwsimCrash ==
  /\ up /\ MoreTrouble
  /\ up' = FALSE /\ trouble' = TRUE
  /\ link' = [s \in Slots |-> [link[s] EXCEPT !.peer = FALSE, !.req = NoPacket]]
  /\ Restart /\ ran' = [o \in OpIds |-> 0]
  /\ UNCHANGED <<clientVars, crashes, injected>>

\* UdsServer::start in the new process.
HwsimStart ==
  /\ ~up /\ up' = TRUE
  /\ UNCHANGED <<deviceVars, link, clientVars, history>>

\* Faults arrive over a session of their own (ocs-hwsimctl).  Port
\* faults change nothing about the calls and are left to SyncdPlane.
Fault ==
  /\ MoreTrouble /\ injected' = injected + 1
  /\ \/ InjectNext(TRUE, FALSE)
     \/ Drift
     \/ InjectNext(FALSE, TRUE)
  /\ UNCHANGED <<linkVars, clientVars, crashes, trouble, ran>>

ClientStep == Call \/ Connect \/ Send \/ Receive \/ Disconnected \/ TimedOut \/ Settle

Next ==
  \/ ClientStep \/ SyncdCrash
  \/ \E s \in Slots : Serve(s)
  \/ HwsimCrash \/ HwsimStart \/ Fault

Spec == Init /\ [][Next]_vars

\* Of syncd's thread and the workers of the server, one that can run does.
Fairness == WF_vars(ClientStep \/ \E s \in Slots : Serve(s))
FairSpec == Spec /\ Fairness

-----------------------------------------------------------------------------
(* Properties *)

\* The two port maps the device answers queries from describe exactly the
\* connections it holds, whatever applies, drifts and restarts came before.
MapsAgree ==
  \A i \in InPorts, o \in OutPorts :
    LET joined == \E c \in Present(matrix) : matrix[c].in = i /\ matrix[c].out = o
    IN  (inMap[i] = o <=> joined) /\ (outMap[o] = i <=> joined)

\* No operation changes the hardware twice while syncd still owes it an
\* answer: neither the repetition after syncd's crash nor a request left
\* behind by a timeout runs it again, whether it succeeded or failed.
LiveOpRunsOnce == ran[op] <= 1

\* A call that failed was disturbed while its command was worked on: by a
\* timeout, or by ocs-hwsim being down.  A restart before the command began is
\* absorbed by the repeated read of the device info.
FailureHasCause == ret = "FAILED" => trouble

\* The only packet that can wait for syncd is the answer to the request it
\* waits for: "UDS response request ID mismatch" cannot happen, because every
\* failed exchange closes its socket.
NoStrayReply ==
  sock # 0 /\ link[sock].rep # NoPacket => Awaiting /\ link[sock].rep.id = call.id

\* No request run late, after its caller has gone on to newer commands,
\* takes the fence of a connection back or puts an older version of it into
\* the matrix.
LateRequestHarmless ==
  [][generation' = generation =>
       \A c \in Conns : /\ lastVer'[c] >= lastVer[c]
                        /\ matrix'[c] # matrix[c] /\ matrix'[c] # Gone
                             => matrix'[c].ver >= lastVer[c]]_vars

\* Every command is settled: no call blocks syncd's only thread for ever,
\* even if ocs-hwsim never comes back.
EveryCommandSettles == <>(op = Last /\ stage = "SETTLE")
=============================================================================
