----------------------------- MODULE LinkProofs -----------------------------
(***************************************************************************)
(* The device's tables, its version fence and the request/reply socket,    *)
(* for any number of operations, connections, sockets, crashes and faults. *)
(***************************************************************************)
EXTENDS DeviceLink, FiniteSetTheorems, WellFoundedInduction, TLAPS

Entries == [in : Nat, out : Nat, ver : Nat]

\* The tables: every connection lies on ports there are, no two share one,
\* and the port maps agree with the matrix.
TablesInv ==
  /\ matrix \in [Conns -> Entries] /\ lastVer \in [Conns -> Nat]
  /\ inMap \in [InPorts -> Nat] /\ outMap \in [OutPorts -> Nat]
  /\ \A c \in Present(matrix) : matrix[c].in \in InPorts /\ matrix[c].out \in OutPorts
  /\ ~Conflicts(matrix)
  /\ MapsAgree

-----------------------------------------------------------------------------
(* The tables. *)

\* The minimum that FirstPortError and Drift choose exists.
LEMMA Least ==
  ASSUME NEW T \in SUBSET Nat, T # {}
  PROVE  \E x \in T : \A y \in T : x <= y
  <1> DEFINE R == OpToRel(<, Nat)
  <1>1. IsWellFoundedOn(R, Nat)
    BY Zenon, NatLessThanWellFounded
  <1>2. \A x, y \in Nat : <<y, x>> \in R <=> y < x
    BY Zenon DEF OpToRel
  <1> HIDE DEF R
  <1>3. \E x \in T : \A y \in T : ~(<<y, x>> \in R)
    BY Zenon, <1>1, WFMin
  <1>4. PICK x \in T : \A y \in T : ~(<<y, x>> \in R)
    BY Zenon, <1>3
  <1>5. \A y \in T : ~(y < x)
    BY Zenon, <1>2, <1>4
  <1>6. \A y \in T : x <= y
    BY <1>5
  <1> QED BY Zenon, <1>6

\* A batch that passes the port check names only ports there are.
LEMMA PortsExist ==
  ASSUME NEW b \in [Conns -> Command], FirstPortError(b) = "OK",
         NEW c \in Conns, b[c].op = "UPSERT"
  PROVE  b[c].in \in InPorts /\ b[c].out \in OutPorts
  <1> DEFINE bad == {d \in Conns : PortError(b[d]) # "OK"}
  <1>1. bad = {}
    <2> SUFFICES ASSUME bad # {} PROVE FALSE
      BY Zenon
    <2>1. bad \in SUBSET Nat
      BY Zenon, DeviceAssumption
    <2>2. \E x \in bad : \A y \in bad : x <= y
      BY Zenon, <2>1, Least
    <2>3. (CHOOSE x \in bad : \A y \in bad : x <= y) \in bad
      BY Zenon, <2>2
    <2> QED BY Zenon, <2>3 DEF FirstPortError
  <1>2. PortError(b[c]) = "OK"
    BY Zenon, <1>1
  <1> QED BY Zenon, <1>2 DEF PortError

\* What a batch without conflicts leaves is well placed and agrees with the
\* maps computed from it.
LEMMA InstallKeepsTables ==
  ASSUME TablesInv, NEW b \in [Conns -> Command], FirstPortError(b) = "OK",
         ~Conflicts(Candidate(b)), Install(b)
  PROVE  TablesInv'
  <1> DEFINE m == Candidate(b)
  <1>1. m \in [Conns -> Entries]
    BY Zenon DEF Candidate, TablesInv, Command, Entries, Gone
  <1>2. \A c \in Present(m) : m[c].in \in InPorts /\ m[c].out \in OutPorts
    <2> SUFFICES ASSUME NEW c \in Present(m) PROVE m[c].in \in InPorts /\ m[c].out \in OutPorts
      BY Zenon
    <2>0. c \in Conns /\ m[c] # Gone /\ b[c].op \in {"UPSERT", "REMOVE", "NONE"}
      BY Zenon DEF Present, Command
    <2>1. CASE b[c].op = "UPSERT"
      BY Zenon, <2>0, <2>1, PortsExist DEF Candidate
    <2>2. CASE b[c].op = "REMOVE"
      BY Zenon, <2>0, <2>2 DEF Candidate
    <2>3. CASE b[c].op = "NONE"
      BY Zenon, <2>0, <2>3 DEF Candidate, TablesInv, Present
    <2> QED BY Zenon, <2>0, <2>1, <2>2, <2>3
  <1>3. \A c, d \in Present(m) : m[c].in = m[d].in \/ m[c].out = m[d].out => c = d
    BY Zenon DEF Conflicts
  <1>4. matrix' = m /\ inMap' = MapOf(m, "in", "out", InPorts)
          /\ outMap' = MapOf(m, "out", "in", OutPorts)
    BY Zenon DEF Install
  <1> HIDE DEF m
  <1>5. \A i \in InPorts : /\ \A c \in Present(m) : m[c].in = i => inMap'[i] = m[c].out
                           /\ (\A c \in Present(m) : m[c].in # i) => inMap'[i] = 0
    BY Zenon, <1>3, <1>4 DEF MapOf
  <1>6. \A o \in OutPorts : /\ \A c \in Present(m) : m[c].out = o => outMap'[o] = m[c].in
                            /\ (\A c \in Present(m) : m[c].out # o) => outMap'[o] = 0
    BY Zenon, <1>3, <1>4 DEF MapOf
  <1>7. inMap' \in [InPorts -> Nat] /\ outMap' \in [OutPorts -> Nat]
    <2>1. \A i \in InPorts : inMap'[i] \in Nat
      BY <1>1, <1>5 DEF Present, Entries
    <2>2. \A o \in OutPorts : outMap'[o] \in Nat
      BY <1>1, <1>6 DEF Present, Entries
    <2> QED BY Zenon, <1>4, <2>1, <2>2 DEF MapOf
  <1>8. MapsAgree'
    <2> SUFFICES ASSUME NEW i \in InPorts, NEW o \in OutPorts
                 PROVE LET joined == \E c \in Present(m) : m[c].in = i /\ m[c].out = o
                       IN  (inMap'[i] = o <=> joined) /\ (outMap'[o] = i <=> joined)
      BY <1>4 DEF MapsAgree
    <2>1. i # 0 /\ o # 0
      BY Zenon, DeviceAssumption
    <2> QED BY Zenon, <1>5, <1>6, <2>1
  <1>9. lastVer' \in [Conns -> Nat]
    BY Zenon DEF Install, TablesInv, Command
  <1> QED BY Zenon, <1>1, <1>2, <1>3, <1>4, <1>7, <1>8, <1>9 DEF TablesInv, Conflicts

\* A drift takes one connection out of all three tables.
LEMMA DriftKeepsTables ==
  ASSUME TablesInv, Drift
  PROVE  TablesInv'
  <1> DEFINE first == CHOOSE c \in Present(matrix) : \A d \in Present(matrix) : c <= d
  <1>1. first \in Present(matrix)
    <2>1. Present(matrix) \in SUBSET Nat /\ Present(matrix) # {}
      BY Zenon, DeviceAssumption DEF Present, Drift
    <2>2. \E x \in Present(matrix) : \A y \in Present(matrix) : x <= y
      BY Zenon, <2>1, Least
    <2> QED BY Zenon, <2>2
  <1>2. /\ inMap' = [inMap EXCEPT ![matrix[first].in] = 0]
        /\ outMap' = [outMap EXCEPT ![matrix[first].out] = 0]
        /\ matrix' = [matrix EXCEPT ![first] = Gone]
        /\ lastVer' = lastVer
    BY Zenon DEF Drift
  <1> HIDE DEF first
  <1>3. Present(matrix') = Present(matrix) \ {first}
          /\ \A c \in Present(matrix') : matrix'[c] = matrix[c]
    BY Zenon, <1>1, <1>2 DEF TablesInv, Present
  <1>4. \A c \in Present(matrix) :
          c # first => matrix[c].in # matrix[first].in /\ matrix[c].out # matrix[first].out
    BY Zenon, <1>1 DEF TablesInv, Conflicts
  <1>5. matrix' \in [Conns -> Entries] /\ inMap' \in [InPorts -> Nat]
          /\ outMap' \in [OutPorts -> Nat]
    BY Zenon, <1>2 DEF TablesInv, Entries, Gone
  <1>6. ~Conflicts(matrix')
    BY Zenon, <1>3 DEF TablesInv, Conflicts
  <1>7. MapsAgree'
    <2> SUFFICES ASSUME NEW i \in InPorts, NEW o \in OutPorts
                 PROVE LET joined == \E c \in Present(matrix') :
                                       matrix'[c].in = i /\ matrix'[c].out = o
                       IN  (inMap'[i] = o <=> joined) /\ (outMap'[o] = i <=> joined)
      BY Zenon DEF MapsAgree
    <2>1. i # 0 /\ o # 0 /\ matrix[first].in \in InPorts /\ matrix[first].out \in OutPorts
      BY Zenon, <1>1, DeviceAssumption DEF TablesInv
    <2>2. LET joined == \E c \in Present(matrix) : matrix[c].in = i /\ matrix[c].out = o
          IN  (inMap[i] = o <=> joined) /\ (outMap[o] = i <=> joined)
      BY Zenon DEF TablesInv, MapsAgree
    <2>3. (\E c \in Present(matrix') : matrix'[c].in = i /\ matrix'[c].out = o)
            <=> (\E c \in Present(matrix) : matrix[c].in = i /\ matrix[c].out = o)
                  /\ i # matrix[first].in /\ o # matrix[first].out
      BY Zenon, <1>1, <1>3, <1>4
    <2>4. inMap'[i] = IF i = matrix[first].in THEN 0 ELSE inMap[i]
      BY Zenon, <1>2 DEF TablesInv
    <2>5. outMap'[o] = IF o = matrix[first].out THEN 0 ELSE outMap[o]
      BY Zenon, <1>2 DEF TablesInv
    <2>6. inMap[matrix[first].in] = matrix[first].out
            /\ outMap[matrix[first].out] = matrix[first].in
      BY <1>1, <2>1 DEF TablesInv, MapsAgree
    <2> QED BY Zenon, <2>1, <2>2, <2>3, <2>4, <2>5, <2>6
  <1> QED BY Zenon, <1>2, <1>3, <1>5, <1>6, <1>7 DEF TablesInv

\* A new device process has nothing on any port.
LEMMA EmptyTables ==
  ASSUME NEW m, m = [c \in Conns |-> Gone]
  PROVE  m \in [Conns -> Entries] /\ Present(m) = {} /\ ~Conflicts(m)
  BY Zenon DEF Present, Conflicts, Entries, Gone

\* applyConnections installs the whole batch after all checks, or nothing.
LEMMA ApplyKeepsTables ==
  ASSUME TablesInv, NEW o, NEW b \in [Conns -> Command], ApplyConnections(o, b)
  PROVE  TablesInv'
  <1>1. CASE UNCHANGED fabric
    BY <1>1 DEF fabric, TablesInv, MapsAgree
  <1>2. CASE Verdict(b) = "OK" /\ Install(b)
    <2>1. FirstPortError(b) = "OK" /\ ~Conflicts(Candidate(b))
      BY Zenon, <1>2 DEF Verdict
    <2> QED BY Zenon, <1>2, <2>1, InstallKeepsTables
  <1> QED BY Zenon, <1>1, <1>2 DEF ApplyConnections, Execute, deviceVars

\* A batch that passes the fence takes no version back.
LEMMA FenceHolds ==
  ASSUME TablesInv, NEW b \in [Conns -> Command], ~Overtaken(b), Install(b),
         \A c \in Conns : b[c].op # "NONE" => b[c].ver # 0,
         NEW c \in Conns
  PROVE  /\ lastVer'[c] >= lastVer[c]
         /\ matrix'[c] # matrix[c] /\ matrix'[c] # Gone => matrix'[c].ver >= lastVer[c]
  <1>1. lastVer[c] \in Nat /\ b[c].ver \in Nat /\ b[c].op \in {"UPSERT", "REMOVE", "NONE"}
    BY Zenon DEF TablesInv, Command
  <1>2. b[c].op # "NONE" => b[c].ver # 0 /\ lastVer[c] <= b[c].ver
    BY <1>1 DEF Overtaken
  <1>3. lastVer'[c] = IF b[c].op # "NONE" /\ b[c].ver # 0 THEN b[c].ver ELSE lastVer[c]
    BY Zenon DEF Install
  <1>4. matrix'[c] = Candidate(b)[c]
    BY Zenon DEF Install
  <1>5. CASE b[c].op = "UPSERT"
    BY <1>1, <1>2, <1>3, <1>4, <1>5 DEF Candidate
  <1>6. CASE b[c].op = "REMOVE"
    BY Zenon, <1>1, <1>2, <1>3, <1>4, <1>6 DEF Candidate
  <1>7. CASE b[c].op = "NONE"
    BY <1>1, <1>3, <1>4, <1>7 DEF Candidate
  <1> QED BY Zenon, <1>1, <1>5, <1>6, <1>7

-----------------------------------------------------------------------------
(* The exchange. *)

Packets ==
  [id : Nat, type : {"none", "HELLO", "INFO", "APPLY", "READ"}, op : OpIds \cup {0},
   code : Codes \cup {"none"}]
Links == [client : BOOLEAN, peer : BOOLEAN, req : Packets, rep : Packets]

\* The sockets: a request is about a command, and nothing is left to read on
\* a socket its client has closed.
SocketsOK ==
  /\ link \in [Slots -> Links]
  /\ \A s \in Slots : /\ link[s].req # NoPacket => link[s].req.op \in OpIds
                      /\ ~link[s].client => link[s].rep = NoPacket

\* The client: it has a socket exactly in the phases that use one.
ClientOK ==
  /\ sock \in Slots \cup {0} /\ nextId \in Nat /\ op \in OpIds
  /\ stage \in {"INFO", "APPLY", "READ", "SETTLE"}
  /\ pc \in {"idle", "connect", "send", "hello", "wait"}
  /\ call \in [type : {"none", "INFO", "APPLY", "READ"}, id : Nat, retry : BOOLEAN]
  /\ pc # "idle" => stage \in {"INFO", "APPLY", "READ"}
  /\ pc \in {"send", "hello", "wait"} => sock # 0
  /\ pc = "connect" => sock = 0

\* On the client's socket there is at most one packet: its request, or the
\* reply to it.
ExchangeOK ==
  sock # 0 =>
    /\ link[sock].req # NoPacket =>
         Awaiting /\ link[sock].req.id = call.id /\ link[sock].rep = NoPacket
    /\ link[sock].rep # NoPacket => Awaiting /\ link[sock].rep.id = call.id

CacheOK == results \in [OpIds -> Codes \cup {"none"}] /\ generation \in Nat

RequestInv == SocketsOK /\ ClientOK /\ ExchangeOK /\ CacheOK

\* After closeLocked the client has no socket.
LEMMA CloseOK ==
  ASSUME RequestInv, sock # 0, Close
  PROVE  SocketsOK' /\ sock' = 0
  <1>1. NoPacket \in Packets /\ sock \in Slots /\ link \in [Slots -> Links]
    BY Zenon DEF NoPacket, Packets, RequestInv, ClientOK, SocketsOK
  <1>2. link' = [link EXCEPT ![sock] = [@ EXCEPT !.client = FALSE, !.rep = NoPacket]]
    BY Zenon, <1>1 DEF Close, Links
  <1>3. /\ link'[sock] \in Links /\ link'[sock].rep = NoPacket /\ link'[sock].req = link[sock].req
        /\ \A s \in Slots : s # sock => link'[s] = link[s]
    BY Zenon, <1>1, <1>2 DEF Links
  <1>4. link' \in [Slots -> Links]
    BY Zenon, <1>1, <1>2, <1>3
  <1> QED BY Zenon, <1>1, <1>3, <1>4 DEF Close, RequestInv, SocketsOK

\* A call returns to the next stage of its command.
LEMMA ReturnOK ==
  ASSUME ClientOK, stage \in {"INFO", "APPLY", "READ"}, NEW r, Return(r),
         sock' \in {sock, 0}, UNCHANGED <<nextId, op>>
  PROVE  ClientOK'
  <1>1. stage' \in {"INFO", "APPLY", "READ", "SETTLE"}
    BY Zenon DEF Return
  <1>2. call' \in [type : {"none", "INFO", "APPLY", "READ"}, id : Nat, retry : BOOLEAN]
    BY Zenon DEF Return, NoCall
  <1> QED BY Zenon, <1>1, <1>2 DEF Return, ClientOK

\* A call that ends, or that is repeated, leaves no socket when it failed.
LEMMA FailedOK ==
  ASSUME RequestInv, sock # 0, pc # "idle", Failed, UNCHANGED <<results, generation, nextId, op>>
  PROVE  RequestInv'
  <1>1. SocketsOK' /\ sock' = 0
    BY Zenon, CloseOK DEF Failed
  <1>2. stage \in {"INFO", "APPLY", "READ"} /\ ClientOK
    BY Zenon DEF RequestInv, ClientOK
  <1>3. ClientOK'
    <2>1. CASE call' = [call EXCEPT !.retry = TRUE] /\ pc' = "connect" /\ UNCHANGED <<ret, stage>>
      BY Zenon, <1>1, <1>2, <2>1 DEF ClientOK
    <2>2. CASE Return("FAILED")
      BY Zenon, <1>1, <1>2, <2>2, ReturnOK
    <2> QED BY Zenon, <2>1, <2>2 DEF Failed
  <1> QED BY Zenon, <1>1, <1>3 DEF RequestInv, ExchangeOK, CacheOK

\* A request goes out on a socket with nothing on it.
LEMMA TransmitOK ==
  ASSUME RequestInv, NEW s \in Slots, link[s].rep = NoPacket,
         NEW type \in {"HELLO", "INFO", "APPLY", "READ", "none"}, Transmit(s, type),
         sock' = s, pc' \in {"hello", "wait"}, pc # "idle",
         UNCHANGED <<results, generation, op, stage>>
  PROVE  RequestInv'
  <1> DEFINE q == [id |-> nextId, type |-> type, op |-> op, code |-> "none"]
  <1>1. q \in Packets /\ q.op \in OpIds /\ q.id = nextId
    BY Zenon DEF RequestInv, ClientOK, Packets
  <1>2. link' = [link EXCEPT ![s] = [@ EXCEPT !.client = TRUE, !.peer = TRUE, !.req = q]]
    BY Zenon DEF Transmit
  <1>3. call'.id = nextId
          /\ call' \in [type : {"none", "INFO", "APPLY", "READ"}, id : Nat, retry : BOOLEAN]
    BY Zenon DEF Transmit, RequestInv, ClientOK
  <1>4. nextId' \in Nat
    BY LinkAssumption DEF Transmit, RequestInv, ClientOK
  <1> HIDE DEF q
  <1>5. /\ link' \in [Slots -> Links] /\ link'[s].req = q /\ link'[s].rep = NoPacket
        /\ \A t \in Slots : t # s => link'[t] = link[t]
        /\ link'[s].client
    BY Zenon, <1>1, <1>2 DEF RequestInv, SocketsOK, Links
  <1>6. SocketsOK'
    BY Zenon, <1>1, <1>5 DEF RequestInv, SocketsOK
  <1>7. ClientOK'
    BY Zenon, <1>3, <1>4, LinkAssumption DEF RequestInv, ClientOK
  <1>8. ExchangeOK'
    BY Zenon, <1>1, <1>3, <1>5 DEF ExchangeOK, Awaiting
  <1> QED BY Zenon, <1>6, <1>7, <1>8 DEF RequestInv, CacheOK

-----------------------------------------------------------------------------
(* The steps. *)

\* What execute leaves of the cache and of the process.
LEMMA CacheStep ==
  ASSUME CacheOK, NEW o \in OpIds, NEW b \in [Conns -> Command], ApplyConnections(o, b)
  PROVE  CacheOK' /\ Answer(o, b) \in Codes /\ generation' = generation
  <1>1. \A cmd : PortError(cmd) \in Codes
    BY Zenon DEF PortError, Codes
  <1>2. FirstPortError(b) \in Codes
    BY Zenon, <1>1 DEF FirstPortError, Codes
  <1>3. Verdict(b) \in Codes
    BY Zenon, <1>2 DEF Verdict, Codes
  <1>4. Answer(o, b) \in Codes
    BY Zenon, <1>3 DEF Answer, CacheOK
  <1>5. CASE UNCHANGED deviceVars
    BY Zenon, <1>4, <1>5 DEF CacheOK, deviceVars, replay
  <1>6. CASE Execute(o, b)
    BY Zenon, <1>3, <1>4, <1>6 DEF Execute, Remember, CacheOK
  <1> QED BY Zenon, <1>5, <1>6 DEF ApplyConnections

\* One step of the client or a crash of it.
LEMMA ClientKeeps ==
  ASSUME RequestInv, ClientStep \/ SyncdCrash
  PROVE  RequestInv' /\ UNCHANGED fabric /\ generation' = generation
  <1>0. UNCHANGED deviceVars => UNCHANGED <<fabric, results, generation>>
    BY Zenon DEF deviceVars, replay
  <1>1. CASE Call
    <2>1. ClientOK'
      BY Zenon, <1>1 DEF Call, RequestInv, ClientOK
    <2> QED BY Zenon, <1>0, <1>1, <2>1 DEF Call, linkVars, RequestInv, SocketsOK, ExchangeOK,
               CacheOK, Awaiting
  <1>2. CASE Connect
    <2>1. CASE up /\ \E s \in Slots : /\ ~link[s].client /\ link[s].req = NoPacket
                                     /\ Transmit(s, "HELLO") /\ sock' = s /\ pc' = "hello"
      <3>1. PICK s \in Slots : ~link[s].client /\ Transmit(s, "HELLO") /\ sock' = s /\ pc' = "hello"
        BY Zenon, <2>1
      <3>2. link[s].rep = NoPacket
        BY Zenon, <3>1 DEF RequestInv, SocketsOK
      <3>3. UNCHANGED <<results, generation, op, stage>>
        BY Zenon, <1>0, <1>2, <2>1 DEF Connect, Return
      <3> QED BY Zenon, <1>0, <1>2, <3>1, <3>2, <3>3, TransmitOK DEF Connect
    <2>2. CASE Return("FAILED") /\ UNCHANGED <<link, sock, nextId>>
      <3>1. ClientOK'
        BY Zenon, <1>2, <2>2, ReturnOK DEF Connect, RequestInv, ClientOK
      <3> QED BY Zenon, <1>0, <1>2, <2>2, <3>1
                 DEF Connect, RequestInv, ClientOK, SocketsOK, ExchangeOK, CacheOK
    <2> QED BY Zenon, <1>2, <2>1, <2>2 DEF Connect
  <1>3. CASE Send
    <2>1. sock \in Slots /\ sock # 0 /\ link[sock].rep = NoPacket
            /\ call.type \in {"HELLO", "INFO", "APPLY", "READ", "none"}
      BY Zenon, <1>3 DEF Send, RequestInv, ClientOK, ExchangeOK, Awaiting
    <2>2. CASE Failed /\ UNCHANGED nextId
      BY Zenon, <1>0, <1>3, <2>1, <2>2, FailedOK DEF Send
    <2>3. CASE Transmit(sock, call.type) /\ pc' = "wait" /\ UNCHANGED <<sock, ret, stage>>
      BY Zenon, <1>0, <1>3, <2>1, <2>3, TransmitOK DEF Send
    <2> QED BY Zenon, <1>3, <2>2, <2>3 DEF Send
  <1>4. CASE Disconnected \/ TimedOut
    <2>1. sock # 0 /\ pc # "idle"
      BY Zenon, <1>4 DEF Disconnected, TimedOut, Awaiting, RequestInv, ClientOK
    <2> QED BY Zenon, <1>0, <1>4, <2>1, FailedOK DEF Disconnected, TimedOut
  <1>5. CASE Settle
    <2>1. op' \in OpIds
      <3>1. Last \in Nat /\ OpIds = 1..Last
        BY Zenon, LinkAssumption, FS_CardinalityType DEF Last
      <3> QED BY <1>5, <3>1 DEF Settle, RequestInv, ClientOK
    <2>2. ClientOK'
      BY Zenon, <1>5, <2>1 DEF Settle, RequestInv, ClientOK
    <2> QED BY Zenon, <1>0, <1>5, <2>2 DEF Settle, linkVars, RequestInv, SocketsOK, ExchangeOK,
               CacheOK, Awaiting
  <1>6. CASE Receive
    <2>1. sock \in Slots /\ sock # 0 /\ pc \in {"hello", "wait"} /\ link[sock].req = NoPacket
      BY Zenon, <1>6 DEF Receive, Awaiting, RequestInv, ClientOK, ExchangeOK
    <2>2. CASE Failed
      BY Zenon, <1>0, <1>6, <2>1, <2>2, FailedOK DEF Receive
    <2>3. CASE link' = [link EXCEPT ![sock].rep = NoPacket] /\ UNCHANGED sock
      <3>1. NoPacket \in Packets /\ link \in [Slots -> Links]
        BY Zenon DEF NoPacket, Packets, RequestInv, SocketsOK
      <3>2. /\ link' \in [Slots -> Links] /\ link'[sock].rep = NoPacket
                 /\ link'[sock].req = NoPacket
            /\ link'[sock].client = link[sock].client
            /\ \A s \in Slots : s # sock => link'[s] = link[s]
        BY Zenon, <2>1, <2>3, <3>1 DEF Links
      <3>3. SocketsOK' /\ ExchangeOK'
        BY Zenon, <2>1, <2>3, <3>2 DEF RequestInv, SocketsOK, ExchangeOK
      <3>4. UNCHANGED <<nextId, op, deviceVars>>
        BY Zenon, <1>6 DEF Receive
      <3>5. CASE pc' = "send" /\ UNCHANGED <<call, ret, stage>>
        <4>1. ClientOK'
          BY Zenon, <2>1, <2>3, <3>4, <3>5 DEF RequestInv, ClientOK
        <4> QED BY Zenon, <1>0, <3>3, <3>4, <4>1 DEF RequestInv, CacheOK
      <3>6. CASE Return(link[sock].rep.code)
        <4>1. ClientOK'
          BY Zenon, <2>1, <2>3, <3>4, <3>6, ReturnOK DEF RequestInv, ClientOK
        <4> QED BY Zenon, <1>0, <3>3, <3>4, <4>1 DEF RequestInv, CacheOK
      <3>7. \/ pc' = "send" /\ UNCHANGED <<call, ret, stage>>
            \/ Return(link[sock].rep.code) \/ Failed
        BY Zenon, <1>6 DEF Receive
      <3> QED BY Zenon, <2>2, <3>5, <3>6, <3>7
    <2> QED BY Zenon, <1>6, <2>2, <2>3 DEF Receive
  <1>7. CASE SyncdCrash
    <2>1. SocketsOK' /\ sock' = 0
      BY Zenon, <1>7, CloseOK DEF SyncdCrash, RequestInv, SocketsOK
    <2>2. ClientOK'
      BY Zenon, <1>7, <2>1 DEF SyncdCrash, NoCall, RequestInv, ClientOK
    <2> QED BY Zenon, <1>0, <1>7, <2>1, <2>2 DEF SyncdCrash, RequestInv, ExchangeOK, CacheOK
  <1> QED BY Zenon, <1>1, <1>2, <1>3, <1>4, <1>5, <1>6, <1>7 DEF ClientStep

\* A worker answers the request it has read, on the socket it came from.
LEMMA ServeKeeps ==
  ASSUME RequestInv, TablesInv, NEW s \in Slots, Serve(s)
  PROVE  RequestInv' /\ TablesInv'
  <1> DEFINE q == link[s].req
             r == ReplyTo(q)
  <1>1. q \in Packets /\ q.op \in OpIds /\ Batch[q.op] \in [Conns -> Command]
          /\ NoPacket \in Packets
    BY Zenon, LinkAssumption DEF Serve, RequestInv, SocketsOK, Links, NoPacket, Packets
  <1>2. CacheOK' /\ TablesInv' /\ r \in Packets /\ r.id = q.id
    <2>1. CASE q.type = "APPLY" /\ ApplyConnections(q.op, Batch[q.op])
      <3>1. CacheOK' /\ Answer(q.op, Batch[q.op]) \in Codes
        BY Zenon, <1>1, <2>1, CacheStep DEF RequestInv
      <3>2. TablesInv'
        BY Zenon, <1>1, <2>1, ApplyKeepsTables
      <3>3. r \in Packets /\ r.id = q.id
        BY Zenon, <1>1, <2>1, <3>1 DEF ReplyTo, Packets
      <3> QED BY Zenon, <3>1, <3>2, <3>3
    <2>2. CASE q.type # "APPLY" /\ UNCHANGED deviceVars
      <3>1. r \in Packets /\ r.id = q.id
        BY Zenon, <1>1, <2>2 DEF ReplyTo, Packets, Codes
      <3> QED BY <2>2, <3>1 DEF deviceVars, replay, fabric, RequestInv, CacheOK, TablesInv,
                 MapsAgree
    <2> QED BY Zenon, <2>1, <2>2 DEF Serve, Dispatch
  <1>3. link' = [link EXCEPT ![s] = IF @.client THEN [@ EXCEPT !.req = NoPacket, !.rep = r] ELSE Closed]
    BY Zenon DEF Serve
  <1> HIDE DEF r
  <1>4. CASE link[s].client
    <2>1. /\ link' \in [Slots -> Links] /\ link'[s].req = NoPacket /\ link'[s].rep = r
          /\ link'[s].client /\ \A t \in Slots : t # s => link'[t] = link[t]
      BY Zenon, <1>1, <1>2, <1>3, <1>4 DEF RequestInv, SocketsOK, Links
    <2>2. SocketsOK'
      BY Zenon, <2>1 DEF RequestInv, SocketsOK
    <2>3. ClientOK'
      BY Zenon DEF Serve, clientVars, RequestInv, ClientOK
    <2>4. ExchangeOK'
      <3>1. q # NoPacket /\ UNCHANGED <<sock, pc, call>>
        BY Zenon DEF Serve, clientVars
      <3> QED BY Zenon, <1>2, <2>1, <3>1 DEF RequestInv, ClientOK, ExchangeOK, Awaiting
    <2> QED BY Zenon, <1>2, <2>2, <2>3, <2>4 DEF RequestInv
  <1>5. CASE ~link[s].client
    <2>1. Closed \in Links /\ Closed.req = NoPacket /\ Closed.rep = NoPacket
      BY Zenon, <1>1 DEF Closed, Links
    <2>2. link' \in [Slots -> Links] /\ link'[s] = Closed
            /\ \A t \in Slots : t # s => link'[t] = link[t]
      BY Zenon, <1>3, <1>5, <2>1 DEF RequestInv, SocketsOK
    <2>3. SocketsOK'
      BY Zenon, <2>1, <2>2 DEF RequestInv, SocketsOK
    <2>4. ClientOK'
      BY Zenon DEF Serve, clientVars, RequestInv, ClientOK
    <2>5. ExchangeOK'
      <3>1. UNCHANGED <<sock, pc, call>>
        BY Zenon DEF Serve, clientVars
      <3> QED BY Zenon, <2>1, <2>2, <3>1 DEF RequestInv, ClientOK, ExchangeOK, Awaiting
    <2> QED BY Zenon, <1>2, <2>3, <2>4, <2>5 DEF RequestInv
  <1> QED BY Zenon, <1>4, <1>5

\* The device process dies, comes back, or is disturbed.
LEMMA HwsimKeeps ==
  ASSUME RequestInv, TablesInv, HwsimCrash \/ HwsimStart \/ Fault
  PROVE  RequestInv' /\ TablesInv'
  <1>1. CASE HwsimCrash
    <2>1. NoPacket \in Packets
      BY Zenon DEF NoPacket, Packets
    <2>2. link' = [t \in Slots |-> [link[t] EXCEPT !.peer = FALSE, !.req = NoPacket]]
      BY Zenon, <1>1 DEF HwsimCrash
    <2>3. /\ link' \in [Slots -> Links]
          /\ \A t \in Slots : link'[t].req = NoPacket /\ link'[t].rep = link[t].rep
               /\ link'[t].client = link[t].client
      BY Zenon, <2>1, <2>2 DEF RequestInv, SocketsOK, Links
    <2>4. SocketsOK'
      BY Zenon, <2>3 DEF RequestInv, SocketsOK
    <2>5. ClientOK' /\ ExchangeOK'
      <3>1. UNCHANGED clientVars
        BY Zenon, <1>1 DEF HwsimCrash
      <3> QED BY Zenon, <2>3, <3>1 DEF clientVars, RequestInv, ClientOK, ExchangeOK, Awaiting
    <2>6. CacheOK'
      <3>1. results' = [o \in OpIds |-> "none"] /\ generation' = generation + 1
        BY Zenon, <1>1 DEF HwsimCrash, Restart, Fresh
      <3>2. generation \in Nat
        BY Zenon DEF RequestInv, CacheOK
      <3> QED BY <3>1, <3>2 DEF CacheOK
    <2>7. /\ matrix' = [c \in Conns |-> Gone] /\ lastVer' = [c \in Conns |-> 0]
          /\ inMap' = [p \in InPorts |-> 0] /\ outMap' = [p \in OutPorts |-> 0]
      BY Zenon, <1>1 DEF HwsimCrash, Restart, Fresh
    <2>8. matrix' \in [Conns -> Entries] /\ Present(matrix') = {} /\ ~Conflicts(matrix')
      BY Zenon, <2>7, EmptyTables
    <2>9. MapsAgree'
      BY Zenon, <2>7, <2>8, DeviceAssumption DEF MapsAgree
    <2>10. lastVer' \in [Conns -> Nat] /\ inMap' \in [InPorts -> Nat]
             /\ outMap' \in [OutPorts -> Nat]
      BY Zenon, <2>7
    <2>11. TablesInv'
      BY Zenon, <2>8, <2>9, <2>10 DEF TablesInv
    <2> QED BY Zenon, <2>4, <2>5, <2>6, <2>11 DEF RequestInv
  <1>2. CASE HwsimStart
    BY <1>2 DEF HwsimStart, deviceVars, replay, fabric, clientVars, RequestInv, SocketsOK, ClientOK,
                ExchangeOK, CacheOK, Awaiting, TablesInv, MapsAgree
  <1>3. CASE Fault
    <2>1. UNCHANGED <<results, generation>>
      BY Zenon, <1>3 DEF Fault, InjectNext, Drift, replay
    <2>2. RequestInv'
      BY Zenon, <1>3, <2>1 DEF Fault, linkVars, clientVars, RequestInv, SocketsOK, ClientOK,
         ExchangeOK, CacheOK, Awaiting
    <2>3. CASE Drift
      BY Zenon, <2>2, <2>3, DriftKeepsTables
    <2>4. CASE UNCHANGED fabric
      BY <2>2, <2>4 DEF fabric, TablesInv, MapsAgree
    <2> QED BY Zenon, <1>3, <2>3, <2>4 DEF Fault, InjectNext
  <1> QED BY Zenon, <1>1, <1>2, <1>3

-----------------------------------------------------------------------------
(* The theorems. *)

LinkInv == RequestInv /\ TablesInv

\* Nothing has been sent, and the device is empty.
LEMMA LinkInit == Init => LinkInv
  <1> SUFFICES ASSUME Init PROVE LinkInv
    BY Zenon
  <1>1. NoPacket \in Packets /\ Closed \in Links /\ Closed.req = NoPacket /\ Closed.rep = NoPacket
    BY Zenon DEF NoPacket, Packets, Closed, Links
  <1>2. SocketsOK
    BY Zenon, <1>1 DEF Init, SocketsOK
  <1>3. 1 \in OpIds
    <2>1. Last \in Nat /\ OpIds = 1..Last
      BY Zenon, LinkAssumption, FS_CardinalityType DEF Last
    <2> QED BY <2>1, LinkAssumption
  <1>4. ClientOK /\ ExchangeOK
    BY Zenon, <1>3 DEF Init, NoCall, ClientOK, ExchangeOK
  <1>5. CacheOK
    BY Zenon DEF Init, DeviceInit, CacheOK
  <1>6. matrix \in [Conns -> Entries] /\ Present(matrix) = {} /\ ~Conflicts(matrix)
    BY Zenon, EmptyTables DEF Init, DeviceInit
  <1>7. TablesInv
    BY Zenon, <1>6, DeviceAssumption DEF Init, DeviceInit, TablesInv, MapsAgree
  <1> QED BY Zenon, <1>2, <1>4, <1>5, <1>7 DEF LinkInv, RequestInv

\* Every step of syncd, of a worker, of the device process or of a fault
\* keeps the tables and the exchange in order.
LEMMA LinkNext == LinkInv /\ [Next]_vars => LinkInv'
  <1> SUFFICES ASSUME LinkInv, [Next]_vars PROVE LinkInv'
    BY Zenon
  <1>1. CASE ClientStep \/ SyncdCrash
    BY <1>1, ClientKeeps DEF LinkInv, fabric, TablesInv, MapsAgree
  <1>2. CASE \E s \in Slots : Serve(s)
    BY Zenon, <1>2, ServeKeeps DEF LinkInv
  <1>3. CASE HwsimCrash \/ HwsimStart \/ Fault
    <2>1. RequestInv' /\ TablesInv'
      BY Zenon, <1>3, HwsimKeeps DEF LinkInv
    <2> QED BY Zenon, <2>1 DEF LinkInv
  <1>4. CASE UNCHANGED vars
    BY <1>4 DEF vars, deviceVars, replay, fabric, linkVars, clientVars, LinkInv, RequestInv, SocketsOK,
                ClientOK, ExchangeOK, CacheOK, Awaiting, TablesInv, MapsAgree
  <1> QED BY Zenon, <1>1, <1>2, <1>3, <1>4 DEF Next

\* The port maps of the device and its matrix describe the same connections
\* after any applies, drifts and restarts.
THEOREM MapsDescribeMatrix == Spec => []MapsAgree
  <1>1. LinkInv => MapsAgree
    BY Zenon DEF LinkInv, TablesInv
  <1> QED BY <1>1, LinkInit, LinkNext, PTL DEF Spec

\* "UDS response request ID mismatch" is unreachable: no packet waits for
\* syncd but the reply to its own request, even when ids repeat.
THEOREM RepliesAreAwaited == Spec => []NoStrayReply
  <1>1. LinkInv => NoStrayReply
    BY Zenon DEF LinkInv, RequestInv, ExchangeOK, NoStrayReply
  <1> QED BY <1>1, LinkInit, LinkNext, PTL DEF Spec

\* A request that a worker runs after syncd has given it up takes no fence
\* and no connection back to an older version, whenever it runs.
THEOREM LateRequestsAreHarmless == Spec => LateRequestHarmless
  <1> DEFINE Kept ==
        generation' = generation =>
          \A c \in Conns : /\ lastVer'[c] >= lastVer[c]
                           /\ matrix'[c] # matrix[c] /\ matrix'[c] # Gone =>
                                matrix'[c].ver >= lastVer[c]
  <1>1. LinkInv /\ [Next]_vars => Kept
    <2> SUFFICES ASSUME LinkInv, [Next]_vars PROVE Kept
      BY Zenon
    <2>0. \A c \in Conns : lastVer[c] \in Nat
      BY Zenon DEF LinkInv, TablesInv
    <2>1. CASE UNCHANGED fabric
      BY <2>0, <2>1 DEF fabric
    <2>2. CASE \E s \in Slots : Serve(s)
      <3>1. PICK s \in Slots : Serve(s)
        BY Zenon, <2>2
      <3> DEFINE q == link[s].req
      <3>2. q.op \in OpIds /\ Batch[q.op] \in [Conns -> Command]
        BY Zenon, <3>1, LinkAssumption DEF Serve, LinkInv, RequestInv, SocketsOK
      <3>3. CASE Verdict(Batch[q.op]) = "OK" /\ Install(Batch[q.op])
        <4>1. ~Overtaken(Batch[q.op])
          BY Zenon, <3>3 DEF Verdict
        <4> QED BY Zenon, <3>2, <3>3, <4>1, FenceHolds, LinkAssumption DEF LinkInv
      <3>4. UNCHANGED fabric \/ (Verdict(Batch[q.op]) = "OK" /\ Install(Batch[q.op]))
        BY Zenon, <3>1 DEF Serve, Dispatch, ApplyConnections, Execute, deviceVars
      <3> QED BY Zenon, <2>1, <3>3, <3>4
    <2>3. CASE HwsimCrash
      <3>1. generation' = generation + 1 /\ generation \in Nat
        BY Zenon, <2>3 DEF HwsimCrash, Restart, Fresh, LinkInv, RequestInv, CacheOK
      <3> QED BY <3>1
    <2>4. CASE Drift
      BY <2>0, <2>4 DEF Drift, LinkInv, TablesInv
    <2>5. ClientStep \/ SyncdCrash => UNCHANGED fabric
      BY Zenon, ClientKeeps DEF LinkInv
    <2>6. HwsimStart \/ (Fault /\ ~Drift) => UNCHANGED fabric
      BY Zenon DEF HwsimStart, Fault, InjectNext, deviceVars
    <2>7. UNCHANGED vars => UNCHANGED fabric
      BY Zenon DEF vars, deviceVars
    <2> QED BY Zenon, <2>1, <2>2, <2>3, <2>4, <2>5, <2>6, <2>7 DEF Next
  <1> QED BY <1>1, LinkInit, LinkNext, PTL DEF Spec, LateRequestHarmless
=============================================================================
