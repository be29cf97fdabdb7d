--------------------------- MODULE IotCloudProof ---------------------------
(***************************************************************************)
(* Safety of the IoT cloud client for any list, any intervals and any      *)
(* number of losses, faults and initialisations.                           *)
(***************************************************************************)
EXTENDS IotCloud, TLAPS

TcpStates == [cfg : Addr \cup {None}, heap : [Addr -> Kinds],
              conn : ConnStates, sent : 0..N]

\* tc_servcfg holds whatever is allocated for the client and every connection
Owned(t) ==
    /\ \A a \in Addr : t.heap[a] = "iot" => t.cfg = a
    /\ t.conn # "none" => t.cfg # None /\ t.heap[t.cfg] = "iot"

Idle(t) == t \in TcpStates /\ Owned(t) /\ t.conn = "none"

\* the same, unless a stray client has changed the order of things
Ready(t) == t \in TcpStates /\ Owned(t) /\ (~stray => t.conn = "none")

\* what belongs to the process: a connection only while it runs, and a query
\* before that
Orderly(t, q, running) ==
    /\ t.conn # "none" => running
    /\ q => running /\ t.conn = "none"

BoundsOK(b) == b \in [faults : 0..MaxFaults, losses : 0..MaxLoss, inits : 0..MaxInit]

\* an ini file without requests leaves no list
ListOK(l) == l \in BOOLEAN /\ (l => N > 0)

(***************************************************************************)
(* The inductive invariant: iot_data_processing points into a list, and    *)
(* only a running process has a connection or a query, as long as no query *)
(* has outlived its configuration.                                         *)
(***************************************************************************)
Core ==
    /\ flg \in SUBSET {"inited", "running"} /\ ListOK(list) /\ dns \in BOOLEAN
    /\ current \in 0..N /\ timer \in 0..Timeout /\ age \in [Req -> 0..AgeMax]
    /\ tcp \in TcpStates /\ stray \in BOOLEAN
    /\ BoundsOK(bounds)
    /\ TimerGuardsRun
    /\ current # 0 => list
    /\ Owned(tcp)
    /\ ~stray => Orderly(tcp, dns, Running)
    /\ AnswerOfRequest

IInv == enabled \in BOOLEAN /\ got_ip \in BOOLEAN /\ services \in BOOLEAN /\ Core

\* tc_close leaves neither a connection nor a configuration of the client.
LEMMA CloseIdle ==
    ASSUME NEW t \in TcpStates, Owned(t)
    PROVE  Idle(tc_close(t)) /\ tc_close(t).cfg = None
<1>1. CASE t.cfg = None
    BY <1>1 DEF tc_close, Idle, Owned
<1>2. CASE t.cfg # None
    <2> DEFINE h == [t.heap EXCEPT ![t.cfg] = "free"]
    <2>1. t.cfg \in Addr /\ t.heap \in [Addr -> Kinds]
        BY <1>2 DEF TcpStates
    <2>2. h \in [Addr -> Kinds] /\ \A a \in Addr : h[a] # "iot"
        BY <2>1 DEF Owned, Kinds
    <2>3. tc_close(t) = [cfg |-> None, heap |-> h, conn |-> "none", sent |-> 0]
        BY <1>2 DEF tc_close
    <2>4. tc_close(t) \in TcpStates
        BY <2>2, <2>3, CloudAssumption DEF TcpStates, ConnStates, CloudAssumption
    <2> HIDE DEF h
    <2> QED BY <2>2, <2>3, <2>4 DEF Idle, Owned
<1> QED BY <1>1, <1>2

\* tc_init leaves its configuration and nothing else.
LEMMA InitIdle ==
    ASSUME NEW t \in TcpStates, Owned(t), NEW u \in tc_init(t)
    PROVE  Idle(u) /\ u.cfg \in Addr /\ u.heap[u.cfg] = "iot"
<1> DEFINE v == tc_close(t)
<1>1. Idle(v) /\ v.cfg = None
    BY CloseIdle
<1>2. PICK a \in Addr : v.heap[a] = "free" /\ u = [v EXCEPT !.cfg = a, !.heap = [v.heap EXCEPT ![a] = "iot"]]
    BY DEF tc_init
<1>3. \A b \in Addr : v.heap[b] # "iot"
    BY <1>1, CloudAssumption DEF Idle, Owned, CloudAssumption
<1>4. v \in TcpStates
    BY <1>1 DEF Idle
<1>5. u \in TcpStates /\ u.cfg = a /\ u.heap = [v.heap EXCEPT ![a] = "iot"] /\ u.conn = v.conn
    BY <1>2, <1>4 DEF TcpStates, Kinds
<1>6. \A b \in Addr : u.heap[b] = "iot" => b = a
    BY <1>3, <1>4, <1>5 DEF TcpStates
<1>7. u.heap[a] = "iot" /\ u.conn = "none"
    BY <1>1, <1>4, <1>5 DEF TcpStates, Idle
<1> QED BY <1>5, <1>6, <1>7 DEF Idle, Owned

\* tcpsrv_client_start opens a connection on that configuration, or none.
LEMMA StartOwned ==
    ASSUME NEW u, Idle(u), u.cfg \in Addr, u.heap[u.cfg] = "iot",
           NEW w \in tcpsrv_client_start(u)
    PROVE  w \in TcpStates /\ Owned(w) /\ w.conn \in {"none", "syn"}
<1>1. CASE w = u
    BY <1>1 DEF Idle
<1>2. CASE w = [u EXCEPT !.conn = "syn", !.sent = 0]
    <2>1. u \in TcpStates
        BY DEF Idle
    <2>2. 0 \in 0..N /\ "syn" \in ConnStates
        BY CloudAssumption DEF CloudAssumption, ConnStates
    <2>3. w \in TcpStates /\ w.cfg = u.cfg /\ w.heap = u.heap /\ w.conn = "syn"
        BY <1>2, <2>1, <2>2 DEF TcpStates
    <2> QED BY <2>3, CloudAssumption DEF Idle, Owned, CloudAssumption
<1> QED BY <1>1, <1>2 DEF tcpsrv_client_start

\* what the loop of tc_go_next leaves behind
Went(due) ==
    /\ flg' \in SUBSET {"inited", "running"}
    /\ current' \in 0..N /\ timer' \in 0..Timeout /\ dns' \in BOOLEAN
    /\ TimerGuardsRun'
    /\ current' # 0 => due # {}
    /\ tcp' \in TcpStates /\ Owned(tcp')
    /\ ~stray => Orderly(tcp', dns', Running') /\ tcp'.conn # "open"
    /\ BoundsOK(bounds')

\* The loop of tc_go_next, started without a process.
LEMMA TryGoes ==
    ASSUME NEW due \in SUBSET Req, NEW f \in SUBSET {"inited"}, NEW t, Ready(t),
           NEW d \in BOOLEAN, ~stray => ~d, stray \in BOOLEAN,
           BoundsOK(bounds), TryFrom(due, f, t, d)
    PROVE  Went(due)
<1> USE CloudAssumption DEF CloudAssumption
<1>1. ASSUME NEW u, Ready(u), EndOfList(f, u, d), BoundsOK(bounds')
      PROVE  Went(due)
    <2>1. /\ current' = 0 /\ flg' = f /\ timer' = 0 /\ dns' = d /\ tcp' = u
        BY <1>1 DEF EndOfList
    <2>2. ~Running'
        BY <2>1 DEF Running
    <2>3. tcp' \in TcpStates /\ Owned(tcp') /\ (~stray => tcp'.conn = "none")
        BY <2>1, <1>1 DEF Ready
    <2>4. current' \in 0..N /\ timer' \in 0..Timeout /\ flg' \in SUBSET {"inited", "running"}
        BY <2>1
    <2>5. TimerGuardsRun'
        BY <2>2 DEF TimerGuardsRun
    <2>6. BoundsOK(bounds')
        BY <1>1
    <2> QED BY <2>1, <2>3, <2>4, <2>5, <2>6 DEF Went, Orderly
<1>2. ASSUME Fault
      PROVE  BoundsOK(bounds')
    <2>1. BoundsOK(bounds) /\ MaxFaults \in Nat
        OBVIOUS
    <2> QED BY ONLY <1>2, <2>1 DEF Fault, BoundsOK
<1>3. CASE due = {} /\ EndOfList(f, t, d) /\ UNCHANGED bounds
    BY <1>3, <1>1
<1>4. t \in TcpStates /\ Owned(t)
    BY DEF Ready
<1>5. ASSUME NEW r \in due, StartRequest(r, f, t, d),
             IF \A q \in due : r <= q THEN UNCHANGED bounds ELSE Fault
      PROVE  Went(due)
    <2>1. BoundsOK(bounds')
        BY <1>2, <1>5
    <2>2. /\ current' = r /\ r \in 1..N
          /\ flg' = f \cup {"running"}
          /\ timer' = Timeout
        BY <1>5 DEF StartRequest, Req
    <2>3. /\ tcp' \in TcpStates /\ Owned(tcp') /\ tcp'.conn # "open"
          /\ dns' \in BOOLEAN /\ (~stray /\ dns' => tcp'.conn = "none")
        <3>1. PICK u \in tc_init(t) :
                \/ tcp' = u /\ dns' = TRUE
                \/ tcp' \in tcpsrv_client_start(u) /\ dns' = d
            BY <1>5 DEF StartRequest
        <3>2. Idle(u) /\ u.cfg \in Addr /\ u.heap[u.cfg] = "iot"
            BY <1>4, InitIdle
        <3>3. CASE tcp' = u /\ dns' = TRUE
            BY <3>2, <3>3 DEF Idle
        <3>4. CASE tcp' \in tcpsrv_client_start(u) /\ dns' = d
            BY <3>2, <3>4, StartOwned
        <3> QED BY <3>1, <3>3, <3>4
    <2> QED BY <2>1, <2>2, <2>3 DEF Went, TimerGuardsRun, Running, Orderly
<1>6. CASE /\ due # {}
           /\ Fault
           /\ \E u \in tc_init(t) \cup {tc_close(t)} : EndOfList(f, u, d)
    <2>1. PICK u \in tc_init(t) \cup {tc_close(t)} : EndOfList(f, u, d)
        BY <1>6
    <2>2. Ready(u)
        BY <1>4, <2>1, InitIdle, CloseIdle DEF Idle, Ready
    <2> QED BY <2>1, <2>2, <1>1, <1>2, <1>6
<1> QED BY <1>3, <1>5, <1>6 DEF TryFrom

\* What the loop leaves is fine when it found something in a list only.
LEMMA WentKeeps ==
    ASSUME NEW due, Went(due), due # {} => list', ListOK(list'),
           age' \in [Req -> 0..AgeMax], stray \in BOOLEAN, UNCHANGED stray
    PROVE  Core'
BY DEF Went, Core, AnswerOfRequest

\* Only requests behind a place in the list can be due.
LEMMA DueInList ==
    ASSUME NEW s \in 0..N, NEW ages
    PROVE  DueFrom(s, ages) \in SUBSET Req /\ (DueFrom(s, ages) # {} => s # 0)
BY DEF DueFrom

\* tc_go_next, called with the TCP state t.
LEMMA GoNextKeeps ==
    ASSUME Core, NEW cur \in 0..N, cur # 0 => list, NEW t \in TcpStates, Owned(t),
           ~stray => (t.conn # "none" => Running), tc_go_next(cur, t),
           UNCHANGED <<list, age, stray>>
    PROVE  Core'
<1> USE CloudAssumption DEF CloudAssumption
<1>1. CASE Running
    <2> DEFINE due == DueFrom(NextOf(cur), age)
    <2>1. NextOf(cur) \in 0..N /\ (NextOf(cur) # 0 => list)
        BY DEF NextOf
    <2>2. due \in SUBSET Req /\ (due # {} => list)
        BY <2>1, DueInList
    <2>3. TryFrom(due, flg \ {"running"}, tc_close(t), FALSE)
        BY <1>1 DEF tc_go_next
    <2>4. flg \ {"running"} \in SUBSET {"inited"} /\ BoundsOK(bounds)
        BY DEF Core
    <2>5. Ready(tc_close(t)) /\ stray \in BOOLEAN
        BY CloseIdle DEF Idle, Ready, Core
    <2>6. Went(due)
        BY <2>2, <2>3, <2>4, <2>5, TryGoes
    <2> QED BY <2>2, <2>6, WentKeeps DEF Core
<1>2. CASE ~Running
    <2> DEFINE due == DueFrom(cur, age)
    <2>1. due \in SUBSET Req /\ (due # {} => list)
        BY DueInList
    <2>2. /\ flg \in SUBSET {"inited"} /\ dns \in BOOLEAN /\ stray \in BOOLEAN
          /\ ~stray => ~dns
          /\ BoundsOK(bounds) /\ Ready(t)
        BY <1>2 DEF Core, Running, Ready, Orderly
    <2>3. TryFrom(due, flg, t, dns)
        BY <1>2 DEF tc_go_next
    <2>4. Went(due)
        BY <2>1, <2>2, <2>3, TryGoes
    <2> QED BY <2>1, <2>4, WentKeeps DEF Core
<1> QED BY <1>1, <1>2

\* A list that was read again has ages for its requests.
LEMMA ReadIniTypes ==
    ASSUME NEW ok \in BOOLEAN, NEW on \in BOOLEAN, ReadIni(ok, on)
    PROVE  ListOK(list') /\ age' \in [Req -> 0..AgeMax]
<1>1. ListOK(list')
    BY DEF ReadIni, ListOK
<1>2. PICK uptime \in 0..AgeMax : age' = [r \in Req |-> uptime]
    BY DEF ReadIni
<1> QED BY <1>1, <1>2

\* What iot_cloud_init stops is stopped.
LEMMA InitStopped ==
    ASSUME Core, NEW t \in TcpStates, Owned(t), ~stray => (t.conn # "none" => Running)
    PROVE  /\ Ready(InitStops(t)) /\ InitDns \in BOOLEAN /\ (~stray => ~InitDns)
           /\ InitTimer \in 0..Timeout
<1>1. InitDns \in BOOLEAN /\ (~stray => ~InitDns)
    BY DEF Core, InitDns, Orderly
<1>2. InitTimer \in 0..Timeout
    <2>1. InitTimer = timer \/ InitTimer = 0
        BY DEF InitTimer
    <2>2. timer \in 0..Timeout /\ 0 \in 0..Timeout
        BY CloudAssumption DEF Core, CloudAssumption
    <2> QED BY <2>1, <2>2
<1>3. Ready(InitStops(t))
    <2>1. CASE flg = {}
        <3>1. ~Running
            BY <2>1 DEF Running
        <3>2. InitStops(t) = t
            BY <2>1 DEF InitStops
        <3> QED BY <3>1, <3>2 DEF Ready
    <2>2. CASE flg # {}
        BY <2>2, CloseIdle DEF InitStops, Idle, Ready
    <2> QED BY <2>1, <2>2
<1> QED BY <1>1, <1>2, <1>3

\* The initialisation leaves no process.
LEMMA StoppedKeeps ==
    ASSUME Core, NEW t \in TcpStates, Owned(t), ~stray => (t.conn # "none" => Running),
           NEW ok \in BOOLEAN, NEW on \in BOOLEAN, NEW set \in BOOLEAN, ReadIni(ok, on),
           current' = IF list THEN 0 ELSE current, flg' = Inited(set), UNCHANGED stray,
           timer' = InitTimer, tcp' = InitStops(t), dns' = InitDns, BoundsOK(bounds')
    PROVE  Core'
<1>1. Ready(tcp') /\ dns' \in BOOLEAN /\ (~stray => ~dns') /\ timer' \in 0..Timeout
    BY InitStopped
<1>2. ListOK(list') /\ age' \in [Req -> 0..AgeMax]
    BY ReadIniTypes
<1>3. current' = 0 /\ 0 \in 0..N
    BY CloudAssumption DEF Core, CloudAssumption
<1>4. flg' \in SUBSET {"inited", "running"} /\ ~Running'
    BY DEF Inited, Running
<1>5. TimerGuardsRun' /\ AnswerOfRequest'
    BY <1>1, <1>4 DEF TimerGuardsRun, AnswerOfRequest, Ready
<1>6. /\ tcp' \in TcpStates /\ Owned(tcp') /\ stray' \in BOOLEAN
      /\ ~stray' => Orderly(tcp', dns', Running')
    BY <1>1 DEF Ready, Orderly, Core
<1> QED BY <1>1, <1>2, <1>3, <1>4, <1>5, <1>6 DEF Core

\* A list that is not empty begins somewhere.
LEMMA BeginningInList ==
    ASSUME NEW cur \in 0..N, N > 0
    PROVE  Beginning(cur) \in 0..N
BY CloudAssumption DEF Beginning, CloudAssumption

\* iot_cloud_send(1), called with the TCP state t.
LEMMA SendKeeps ==
    ASSUME Core, NEW t \in TcpStates, Owned(t), ~stray => Orderly(t, dns, Running),
           ~stray /\ t.conn = "open" => t.sent \in {0, current},
           NEW ip, NEW open, iot_cloud_send_start(t, ip, open), UNCHANGED stray
    PROVE  Core'
<1> USE CloudAssumption DEF CloudAssumption
<1>0. ~stray => (t.conn # "none" => Running)
    BY DEF Orderly
<1>1. CASE tcp' = t /\ UNCHANGED <<flg, list, current, age, timer, dns, bounds>>
    BY <1>1 DEF Core, TimerGuardsRun, Running, AnswerOfRequest
<1>2. CASE /\ list
           /\ tc_go_next(Beginning(current), t)
           /\ UNCHANGED <<list, age>>
    <2>1. Beginning(current) \in 0..N
        BY <1>2, BeginningInList DEF Core, ListOK
    <2> QED BY <1>0, <1>2, <2>1, GoNextKeeps
<1>3. ASSUME NEW ok \in BOOLEAN, ReadIni(ok, TRUE), ok /\ list',
             TryFrom(DueFrom(1, age'), Inited(ok), InitStops(t), InitDns)
      PROVE  Core'
    <2> DEFINE due == DueFrom(1, age')
    <2>1. due \in SUBSET Req
        BY DEF DueFrom
    <2>2. Inited(ok) \in SUBSET {"inited"} /\ BoundsOK(bounds) /\ stray \in BOOLEAN
        BY DEF Inited, Core
    <2>3. Ready(InitStops(t)) /\ InitDns \in BOOLEAN /\ (~stray => ~InitDns)
        BY <1>0, InitStopped
    <2>4. Went(due)
        BY <1>3, <2>1, <2>2, <2>3, TryGoes
    <2>5. ListOK(list') /\ age' \in [Req -> 0..AgeMax]
        BY <1>3, ReadIniTypes
    <2> QED BY <1>3, <2>2, <2>4, <2>5, WentKeeps
<1>4. ASSUME NEW ok \in BOOLEAN, ReadIni(ok, TRUE),
             /\ current' = IF list THEN 0 ELSE current
             /\ flg' = Inited(ok)
             /\ timer' = InitTimer
             /\ tcp' = InitStops(t)
             /\ dns' = InitDns
             /\ UNCHANGED bounds
      PROVE  Core'
    BY <1>0, <1>4, StoppedKeeps DEF Core
<1> QED BY <1>1, <1>2, <1>3, <1>4 DEF iot_cloud_send_start

-----------------------------------------------------------------------------
\* A step that changes the TCP state, and perhaps the query, alone.
LEMMA TcpKeeps ==
    ASSUME Core, tcp' \in TcpStates, Owned(tcp'), dns' \in BOOLEAN, stray' \in BOOLEAN,
           ~stray' => Orderly(tcp', dns', Running),
           ~stray' /\ tcp'.conn = "open" => tcp'.sent \in {0, current},
           UNCHANGED <<flg, list, current, age, timer, bounds>>
    PROVE  Core'
BY DEF Core, TimerGuardsRun, Running, AnswerOfRequest

\* The client's connection changes its state.
LEMMA ConnKeeps ==
    ASSUME Core, NEW c \in ConnStates, NEW r \in 0..N, tcp.conn # "none",
           tcp' = [tcp EXCEPT !.conn = c, !.sent = r], c = "open" => r \in {0, current},
           UNCHANGED <<flg, list, current, age, timer, dns, stray, bounds>>
    PROVE  Core'
<1>1. tcp \in TcpStates /\ Owned(tcp) /\ (~stray => Running /\ ~dns)
    BY DEF Core, Orderly
<1>2. /\ tcp' \in TcpStates /\ tcp'.cfg = tcp.cfg /\ tcp'.heap = tcp.heap
      /\ tcp'.conn = c /\ tcp'.sent = r
    BY <1>1 DEF TcpStates
<1>3. Owned(tcp')
    BY <1>1, <1>2 DEF Owned
<1>4. ~stray' => Orderly(tcp', dns', Running)
    BY <1>1 DEF Orderly
<1>5. dns' \in BOOLEAN /\ stray' \in BOOLEAN
    BY DEF Core
<1> QED BY <1>2, <1>3, <1>4, <1>5, TcpKeeps

\* tc_close leaves nothing that could be out of order.
LEMMA ClosedKeeps ==
    ASSUME Core, tcp' = tc_close(tcp), dns' \in BOOLEAN, UNCHANGED stray,
           ~stray => (dns' => dns), UNCHANGED <<flg, list, current, age, timer, bounds>>
    PROVE  Core'
<1>1. Idle(tc_close(tcp))
    BY CloseIdle DEF Core
<1>2. ~stray => Orderly(tcp', dns', Running)
    BY <1>1 DEF Core, Orderly, Idle
<1> QED BY <1>1, <1>2, TcpKeeps DEF Idle, Core

\* A port is written over in a configuration of the web server.
LEMMA DeafKeeps ==
    ASSUME Core, NEW a \in Addr, tcp.heap[a] \in {"web", "deaf"},
           tcp' = [tcp EXCEPT !.heap[a] = "deaf"], dns' \in BOOLEAN, UNCHANGED stray,
           ~stray => (dns' => dns), UNCHANGED <<flg, list, current, age, timer, bounds>>
    PROVE  Core'
<1>1. tcp \in TcpStates /\ Owned(tcp) /\ stray \in BOOLEAN
    BY DEF Core
<1>2. /\ tcp' \in TcpStates /\ tcp'.cfg = tcp.cfg /\ tcp'.conn = tcp.conn /\ tcp'.sent = tcp.sent
      /\ tcp'.heap = [tcp.heap EXCEPT ![a] = "deaf"]
    BY <1>1 DEF TcpStates, Kinds
<1>3. \A b \in Addr : tcp'.heap[b] = "iot" <=> tcp.heap[b] = "iot"
    BY <1>1, <1>2 DEF TcpStates
<1>4. Owned(tcp')
    BY <1>1, <1>2, <1>3 DEF Owned, TcpStates
<1>5. ~stray => Orderly(tcp', dns', Running) /\ (tcp'.conn = "open" => tcp'.sent \in {0, current})
    BY <1>2 DEF Core, Orderly, AnswerOfRequest
<1> QED BY <1>1, <1>2, <1>4, <1>5, TcpKeeps

\* A program that was started again is in order.
LEMMA RestartKeeps == Core /\ Restart => Core'
<1> SUFFICES ASSUME Core, Restart
             PROVE  Core'
    OBVIOUS
<1> USE CloudAssumption DEF CloudAssumption
<1>1. flg' \in SUBSET {"inited", "running"} /\ ~Running'
    BY DEF Restart, Running
<1>2. tcp' \in TcpStates /\ Owned(tcp') /\ tcp'.conn = "none"
    BY DEF Restart, TcpStates, Owned, ConnStates, Kinds
<1>3. age' \in [Req -> 0..AgeMax]
    BY DEF Restart
<1>7. ListOK(list')
    <2>1. list' = (enabled' /\ N > 0)
        BY DEF Restart
    <2> QED BY ONLY <2>1 DEF ListOK
<1>4. current' = 0 /\ timer' = 0 /\ dns' = FALSE /\ stray' = FALSE
    BY DEF Restart
<1>5. BoundsOK(bounds')
    BY DEF Restart, Core
<1>6. current' \in 0..N /\ timer' \in 0..Timeout
    BY <1>4
<1> QED BY <1>1, <1>2, <1>3, <1>4, <1>5, <1>6, <1>7
    DEF Core, TimerGuardsRun, AnswerOfRequest, Orderly

\* A query finds the server: whatever tc_servcfg points to.
LEMMA DnsKeeps == Core /\ DnsFound => Core'
<1> SUFFICES ASSUME Core, DnsFound
             PROVE  Core'
    OBVIOUS
<1>1. tcp \in TcpStates /\ Owned(tcp) /\ stray \in BOOLEAN /\ current \in 0..N
    BY DEF Core
<1>a. dns /\ (dns' = FALSE \/ dns' = stray)
    BY DEF DnsFound
<1>b. dns' \in BOOLEAN /\ (~stray => ~dns')
    <2>1. stray \in BOOLEAN
        BY <1>1
    <2>2. CASE dns' = FALSE
        BY <2>2
    <2>3. CASE dns' = stray
        BY ONLY <2>1, <2>3
    <2> QED BY <1>a, <2>2, <2>3
<1>c. ~stray => Running /\ tcp.conn = "none"
    BY <1>a DEF Core, Orderly
<1>d. UNCHANGED <<flg, list, current, age, timer, bounds>>
    BY DEF DnsFound
<1>2. /\ UNCHANGED <<flg, list, current, age, timer, bounds>>
      /\ dns' \in BOOLEAN /\ (~stray => ~dns')
      /\ ~stray => Running /\ tcp.conn = "none"
    BY <1>b, <1>c, <1>d
<1>3. CASE UNCHANGED tcp /\ stray' \in {stray, TRUE}
    <2>1. stray' \in BOOLEAN /\ (~stray' => ~stray)
        BY <1>1, <1>3
    <2>2. ~stray' => Orderly(tcp', dns', Running) /\ (tcp'.conn = "open" => tcp'.sent \in {0, current})
        BY <1>2, <1>3, <2>1 DEF Orderly
    <2> QED BY <1>1, <1>2, <1>3, <2>1, <2>2, TcpKeeps
<1>4. CASE tcp.cfg # None /\ ClientStarted
    <2>1. CASE tcp' = tc_close(tcp) /\ UNCHANGED stray
        BY <1>2, <2>1, ClosedKeeps
    <2>2. CASE tcp.heap[tcp.cfg] = "iot" /\ tcp' \in tcpsrv_client_start(tcp) /\ UNCHANGED stray
        <3>1. CASE tcp' = tcp
            BY <1>3, <2>2, <3>1
        <3>2. CASE tcp' = [tcp EXCEPT !.conn = "syn", !.sent = 0]
            <4>1. /\ tcp' \in TcpStates /\ tcp'.cfg = tcp.cfg /\ tcp'.heap = tcp.heap
                  /\ tcp'.conn = "syn"
                <5>1. 0 \in 0..N /\ "syn" \in ConnStates
                    BY CloudAssumption DEF CloudAssumption, ConnStates
                <5> QED BY <1>1, <3>2, <5>1 DEF TcpStates
            <4>2. Owned(tcp')
                BY <1>1, <1>4, <2>2, <4>1 DEF Owned
            <4>3. ~stray => Orderly(tcp', dns', Running)
                BY <1>2 DEF Orderly
            <4> QED BY <1>1, <1>2, <2>2, <4>1, <4>2, <4>3, TcpKeeps
        <3> QED BY <2>2, <3>1, <3>2 DEF tcpsrv_client_start
    <2>3. CASE stray' \in {stray, TRUE} /\ UNCHANGED tcp
        BY <1>3, <2>3
    <2>4. CASE /\ tcp.heap[tcp.cfg] \in {"web", "deaf"}
               /\ tcp' = [tcp EXCEPT !.heap[tcp.cfg] = "deaf"]
               /\ UNCHANGED stray
        <3>1. tcp.cfg \in Addr
            BY <1>1, <1>4 DEF TcpStates
        <3> QED BY <1>2, <2>4, <3>1, DeafKeeps
    <2> QED BY <1>3, <1>4, <2>1, <2>2, <2>3, <2>4 DEF ClientStarted
<1> QED BY <1>3, <1>4 DEF DnsFound

\* The client's own steps on its connection.
LEMMA TcpSteps ==
    ASSUME Core, Connected \/ Closed \/ ConnectFails \/ PollTimeout \/ Reconnect
    PROVE  Core'
<1> USE CloudAssumption DEF CloudAssumption
<1>1. tcp \in TcpStates /\ current \in 0..N /\ 0 \in 0..N /\ dns \in BOOLEAN
    BY DEF Core
<1>2. /\ UNCHANGED <<flg, list, current, age, timer, dns, stray, bounds>>
      /\ tcp.conn # "none"
    BY DEF Connected, Closed, ConnectFails, PollTimeout, Reconnect, TcpOnly
<1>3. CASE Connected
    <2>1. CASE tcp' = tc_close(tcp)
        BY <1>1, <1>2, <2>1, ClosedKeeps
    <2>2. ASSUME NEW c \in {"open", "none"}, NEW r \in {0, current},
                 tcp' = [tcp EXCEPT !.conn = c, !.sent = r]
          PROVE  Core'
        BY <1>1, <1>2, <2>2, ConnKeeps DEF ConnStates
    <2> QED BY <1>3, <2>1, <2>2 DEF Connected
<1>4. CASE Closed \/ ConnectFails \/ PollTimeout
    <2>1. \E c \in {"none", "wait"} : tcp' = [tcp EXCEPT !.conn = c, !.sent = 0]
        BY <1>4 DEF Closed, ConnectFails, PollTimeout
    <2> QED BY <1>1, <1>2, <2>1, ConnKeeps DEF ConnStates
<1>5. CASE Reconnect
    <2>1. PICK c \in {"syn", "stuck"} : tcp' = [tcp EXCEPT !.conn = c]
        BY <1>5 DEF Reconnect
    <2>2. tcp' = [tcp EXCEPT !.conn = c, !.sent = tcp.sent] /\ tcp.sent \in 0..N
        BY <1>1, <2>1 DEF TcpStates
    <2> QED BY <1>2, <2>1, <2>2, ConnKeeps DEF ConnStates
<1> QED BY <1>3, <1>4, <1>5

\* An answer ends the process or leaves it to its timer.
LEMMA AnswerKeeps ==
    ASSUME Core, stray \/ tcp.conn = "open", tc_recv
    PROVE  Core'
<1>1. CASE Restart
    BY <1>1, RestartKeeps
<1>2. ASSUME NEW ok \in BOOLEAN,
             flg' = IF ok THEN flg \ {"running"} ELSE flg,
             age' = IF ok THEN [age EXCEPT ![current] = 0] ELSE age,
             tcp' = tc_close(tcp), TcpOnly, UNCHANGED timer
      PROVE  Core'
    <2>1. UNCHANGED <<list, current, timer, dns, stray, bounds>>
        BY <1>2 DEF TcpOnly
    <2>2. tcp' \in TcpStates /\ Owned(tcp') /\ tcp'.conn = "none"
        BY <1>2, CloseIdle DEF Core, Idle
    <2>3. age' \in [Req -> 0..AgeMax]
        <3>1. age \in [Req -> 0..AgeMax] /\ 0 \in 0..AgeMax
            BY CloudAssumption DEF Core, CloudAssumption
        <3>2. [age EXCEPT ![current] = 0] \in [Req -> 0..AgeMax]
            BY <3>1
        <3> QED BY <1>2, <3>1, <3>2
    <2>4. flg' \in SUBSET {"inited", "running"} /\ flg' \subseteq flg
        BY <1>2 DEF Core
    <2>5. ~stray' => Orderly(tcp', dns', Running')
        BY <2>1, <2>2 DEF Core, Orderly
    <2> QED BY <2>1, <2>2, <2>3, <2>4, <2>5 DEF Core, TimerGuardsRun, Running, AnswerOfRequest
<1> QED BY <1>1, <1>2 DEF tc_recv

\* What a stray client may do to the process.
LEMMA StrayKeeps ==
    ASSUME Core, StrayReceives \/ StrayException \/ StrayConnects \/ StrayEnds
    PROVE  Core'
<1>1. CASE StrayReceives
    BY <1>1, AnswerKeeps DEF StrayReceives
<1>2. CASE StrayException
    BY <1>2, RestartKeeps DEF StrayException
<1>3. CASE StrayConnects
    <2>1. PICK a \in Addr : tcp.heap[a] = "web" /\ tcp' = [tcp EXCEPT !.heap[a] = "deaf"]
        BY <1>3 DEF StrayConnects
    <2>2. UNCHANGED <<flg, list, current, age, timer, dns, stray, bounds>> /\ dns \in BOOLEAN
        BY <1>3 DEF StrayConnects, TcpOnly, Core
    <2> QED BY <2>1, <2>2, DeafKeeps
<1>4. CASE StrayEnds
    <2>1. /\ UNCHANGED <<flg, list, current, age, timer, dns, stray, bounds>>
          /\ tcp.conn # "none" /\ tcp' = [tcp EXCEPT !.conn = "stuck", !.sent = 0]
        BY <1>4 DEF StrayEnds, TcpOnly
    <2>2. 0 \in 0..N /\ "stuck" \in ConnStates
        BY CloudAssumption DEF CloudAssumption, ConnStates
    <2> QED BY <2>1, <2>2, ConnKeeps
<1> QED BY <1>1, <1>2, <1>3, <1>4

\* The Wi-Fi is lost: iot_cloud_send(0) comes too late to stop anything, and
\* a query stays with its process.
LEMMA LostKeeps == Core /\ WifiLost => Core'
<1> SUFFICES ASSUME Core, WifiLost
             PROVE  Core'
    OBVIOUS
<1>1. PICK ap \in BOOLEAN :
        iot_cloud_send_end(IF ap THEN tcp ELSE close_all_service(tcp), got_ip', services')
    BY DEF WifiLost
<1>2. ~CloudSend(got_ip', services')
    BY DEF WifiLost, CloudSend
<1>3. /\ tcp' = tcp \/ tcp' = close_all_service(tcp)
      /\ UNCHANGED <<timer, flg, dns, list, current, age, stray>>
    BY <1>1, <1>2 DEF iot_cloud_send_end, WifiLost
<1>4. BoundsOK(bounds')
    <2>1. BoundsOK(bounds)
        BY DEF Core
    <2>2. bounds.losses < MaxLoss /\ bounds' = [bounds EXCEPT !.losses = @ + 1]
        BY DEF WifiLost
    <2>3. MaxLoss \in Nat
        BY CloudAssumption DEF CloudAssumption
    <2> QED BY ONLY <2>1, <2>2, <2>3 DEF BoundsOK
<1>5. CASE tcp' = tcp
    BY <1>3, <1>4, <1>5 DEF Core, TimerGuardsRun, Running, AnswerOfRequest
<1>6. CASE tcp' = [tcp EXCEPT !.heap = [a \in Addr |-> "free"], !.conn = "none", !.sent = 0]
    <2>1. tcp \in TcpStates /\ 0 \in 0..N
        BY CloudAssumption DEF Core, CloudAssumption
    <2>2. tcp' \in TcpStates /\ tcp'.conn = "none" /\ \A a \in Addr : tcp'.heap[a] = "free"
        BY <1>6, <2>1 DEF TcpStates, ConnStates, Kinds
    <2>3. Owned(tcp')
        BY <2>2 DEF Owned
    <2>4. ~stray => Orderly(tcp', dns', Running')
        BY <1>3, <2>2 DEF Core, Orderly, Running
    <2> QED BY <1>3, <1>4, <2>2, <2>3, <2>4 DEF Core, TimerGuardsRun, Running, AnswerOfRequest
<1> QED BY <1>3, <1>5, <1>6 DEF close_all_service

\* The Wi-Fi is back: the web server takes an address that is free.
LEMMA GotIpKeeps == Core /\ WifiGotIp => Core'
<1> SUFFICES ASSUME Core, WifiGotIp
             PROVE  Core'
    OBVIOUS
<1>0. PICK ap \in BOOLEAN : \E t \in open_all_service(tcp, ~ap) :
        iot_cloud_send_start(t, got_ip', services')
    BY DEF WifiGotIp
<1>1. PICK t \in open_all_service(tcp, ~ap) :
        iot_cloud_send_start(t, got_ip', services')
    BY <1>0
<1>2. tcp \in TcpStates /\ Owned(tcp)
    BY DEF Core
<1>3. \/ t = tcp
      \/ \E a \in Addr : tcp.heap[a] = "free" /\ t = [tcp EXCEPT !.heap[a] = "web"]
    BY DEF open_all_service
<1>4. /\ t \in TcpStates /\ t.cfg = tcp.cfg /\ t.conn = tcp.conn /\ t.sent = tcp.sent
      /\ \A a \in Addr : t.heap[a] = "iot" <=> tcp.heap[a] = "iot"
    <2>1. CASE t = tcp
        BY <1>2, <2>1
    <2>2. ASSUME NEW a \in Addr, tcp.heap[a] = "free", t = [tcp EXCEPT !.heap[a] = "web"]
          PROVE  /\ t \in TcpStates /\ t.cfg = tcp.cfg /\ t.conn = tcp.conn /\ t.sent = tcp.sent
                 /\ \A b \in Addr : t.heap[b] = "iot" <=> tcp.heap[b] = "iot"
        BY <1>2, <2>2 DEF TcpStates, Kinds
    <2> QED BY <1>3, <2>1, <2>2
<1>5. Owned(t)
    BY <1>2, <1>4 DEF Owned, TcpStates
<1>6. /\ ~stray => Orderly(t, dns, Running)
      /\ ~stray /\ t.conn = "open" => t.sent \in {0, current}
      /\ UNCHANGED stray
    BY <1>4 DEF Core, AnswerOfRequest, Orderly, WifiGotIp
<1> QED BY <1>1, <1>4, <1>5, <1>6, SendKeeps

\* The invariant holds at the start.
LEMMA InitOK == Init => IInv
<1> SUFFICES ASSUME Init
             PROVE  IInv
    OBVIOUS
<1> USE CloudAssumption DEF CloudAssumption
<1>1. flg \in SUBSET {"inited", "running"} /\ ~Running
    BY DEF Init, Running
<1>2. tcp \in TcpStates /\ Owned(tcp) /\ tcp.conn = "none"
    BY DEF Init, TcpStates, Owned, ConnStates, Kinds
<1>3. ListOK(list)
    BY DEF Init, ListOK
<1>4. age \in [Req -> 0..AgeMax]
    BY DEF Init
<1>5. BoundsOK(bounds)
    BY DEF Init, BoundsOK
<1>6. current = 0 /\ timer = 0 /\ dns = FALSE /\ enabled \in BOOLEAN
      /\ got_ip = FALSE /\ services = FALSE /\ stray = FALSE
    BY DEF Init
<1>7. current \in 0..N /\ timer \in 0..Timeout
    BY <1>6
<1> QED BY <1>1, <1>2, <1>3, <1>4, <1>5, <1>6, <1>7
    DEF IInv, Core, TimerGuardsRun, AnswerOfRequest, Orderly

\* Every step keeps the invariant.
LEMMA NextOK == IInv /\ [Next]_vars => IInv'
<1> SUFFICES ASSUME IInv, [Next]_vars
             PROVE  IInv'
    OBVIOUS
<1> USE CloudAssumption DEF CloudAssumption
<1>1. Core
    BY DEF IInv
<1>2. enabled' \in BOOLEAN /\ got_ip' \in BOOLEAN /\ services' \in BOOLEAN
    BY DEF IInv, Next, vars, Tick, ErrorTimer, Send, WebInit, DnsFound, Connected, Received,
           Closed, ConnectFails, PollTimeout, Reconnect, TcpOnly, WifiLost, WifiGotIp,
           tc_recv, Restart, StrayReceives, StrayException, StrayConnects, StrayEnds
<1>3. SUFFICES Core'
    BY <1>2 DEF IInv
<1>4. CASE Tick
    <2>1. timer' \in 0..Timeout /\ (timer > 0 => timer' > 0)
        BY <1>1, <1>4 DEF Core, Tick, CountDown
    <2>2. age' \in [Req -> 0..AgeMax]
        BY <1>1, <1>4 DEF Core, Tick
    <2>3. UNCHANGED <<flg, list, current, dns, tcp, stray, bounds>>
        BY <1>4 DEF Tick
    <2> QED BY <1>1, <2>1, <2>2, <2>3 DEF Core, TimerGuardsRun, Running, AnswerOfRequest
<1>5. CASE ErrorTimer
    <2>1. current \in 0..N /\ (current # 0 => list)
        BY <1>1 DEF Core
    <2>2. tcp \in TcpStates /\ Owned(tcp) /\ (~stray => (tcp.conn # "none" => Running))
        BY <1>1 DEF Core, Orderly
    <2> QED BY <1>1, <1>5, <2>1, <2>2, GoNextKeeps DEF ErrorTimer
<1>6. CASE Send
    <2>1. tcp \in TcpStates /\ Owned(tcp) /\ (~stray => Orderly(tcp, dns, Running))
        BY <1>1 DEF Core
    <2>2. ~stray /\ tcp.conn = "open" => tcp.sent \in {0, current}
        BY <1>1 DEF Core, AnswerOfRequest
    <2> QED BY <1>1, <1>6, <2>1, <2>2, SendKeeps DEF Send
<1>7. CASE WebInit
    <2>1. BoundsOK(bounds')
        <3>1. BoundsOK(bounds)
            BY <1>1 DEF Core
        <3>2. bounds.inits < MaxInit /\ bounds' = [bounds EXCEPT !.inits = @ + 1]
            BY <1>7 DEF WebInit
        <3>3. MaxInit \in Nat
            BY CloudAssumption DEF CloudAssumption
        <3> QED BY ONLY <3>1, <3>2, <3>3 DEF BoundsOK
    <2>2. PICK on \in BOOLEAN, ok \in BOOLEAN : ReadIni(ok, on) /\ flg' = Inited(on /\ ok)
        BY <1>7 DEF WebInit
    <2>3. /\ current' = IF list THEN 0 ELSE current
          /\ timer' = InitTimer /\ tcp' = InitStops(tcp) /\ dns' = InitDns
          /\ UNCHANGED stray
        BY <1>7 DEF WebInit
    <2>4. tcp \in TcpStates /\ Owned(tcp) /\ (~stray => (tcp.conn # "none" => Running))
        BY <1>1 DEF Core, Orderly
    <2> QED BY <1>1, <2>1, <2>2, <2>3, <2>4, StoppedKeeps
<1>8. CASE Connected \/ Closed \/ ConnectFails \/ PollTimeout \/ Reconnect
    BY <1>1, <1>8, TcpSteps
<1>9. CASE Received
    BY <1>1, <1>9, AnswerKeeps DEF Received
<1>10. CASE WifiLost
    BY <1>1, <1>10, LostKeeps
<1>11. CASE WifiGotIp
    BY <1>1, <1>11, GotIpKeeps
<1>12. CASE DnsFound
    BY <1>1, <1>12, DnsKeeps
<1>13. CASE StrayReceives \/ StrayException \/ StrayConnects \/ StrayEnds
    BY <1>1, <1>13, StrayKeeps
<1>14. CASE UNCHANGED vars
    BY <1>1, <1>14 DEF vars, Core, TimerGuardsRun, Running, AnswerOfRequest, Orderly
<1> QED BY <1>4, <1>5, <1>6, <1>7, <1>8, <1>9, <1>10, <1>11, <1>12, <1>13, <1>14 DEF Next

-----------------------------------------------------------------------------
\* The inductive invariant holds of every behaviour.
THEOREM CloudInvariant == Spec => []IInv
BY InitOK, NextOK, PTL DEF Spec

\* Every variable keeps its type: no index leaves the list of requests.
THEOREM TypeCorrect == Spec => []TypeOK
<1>1. IInv => TypeOK
    BY DEF IInv, Core, TypeOK, ListOK, TcpStates, BoundsOK
<1> QED BY <1>1, CloudInvariant, PTL

\* A process marked as running always has the error timer to end it, after any
\* answer, failure, new ini file or loss of the Wi-Fi (iot_cloud.c, tc_go_next
\* and tc_recv).
THEOREM TimerAlwaysGuards == Spec => []TimerGuardsRun
<1>1. IInv => TimerGuardsRun
    BY DEF IInv, Core
<1> QED BY <1>1, CloudInvariant, PTL

\* As long as no query has outlived its configuration over a loss of the Wi-Fi,
\* only the running process has a connection or a query, and the connection is
\* where tc_close finds it.
THEOREM ConnOnlyOfRun == Spec => []ConnOfRun
<1>1. IInv => ConnOfRun
    BY DEF IInv, Core, ConnOfRun, Owned, TimerGuardsRun, Orderly
<1> QED BY <1>1, CloudInvariant, PTL

\* tc_recv credits the request whose answer it is, unless a stray client has it.
THEOREM AnswerCredited == Spec => []AnswerOfRequest
<1>1. IInv => AnswerOfRequest
    BY DEF IInv, Core
<1> QED BY <1>1, CloudInvariant, PTL

\* tc_servcfg holds the only configuration the client has allocated.
THEOREM NoConfigLost == Spec => []NoLostConfig
<1>1. IInv => NoLostConfig
    BY DEF IInv, Core, Owned, NoLostConfig
<1> QED BY <1>1, CloudInvariant, PTL
=============================================================================
