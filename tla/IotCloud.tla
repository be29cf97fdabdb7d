------------------------------ MODULE IotCloud ------------------------------
(***************************************************************************)
(* The IoT cloud client, src/app/user/iot_cloud.c, on top of the client    *)
(* part of src/app/web/tcp_srv_conn.c, with the Wi-Fi events that open and *)
(* close the services (src/app/web/wifi_events.c).                         *)
(*                                                                         *)
(* One action is one call the SDK makes: a timer, a callback of lwIP, an   *)
(* event of the Wi-Fi, or the decoder of the meter asking for a send.      *)
(* Requests are numbered in the order of the list, 0 is NULL.  The heap is *)
(* a set of addresses that hold a TCP_SERV_CFG; a freed address may be     *)
(* given to the next configuration, whoever asks for it.                   *)
(***************************************************************************)
EXTENDS Integers, FiniteSets

CONSTANTS
    N,         \* requests in the ini file
    Interval,  \* Interval[r]: min_interval of request r, in ticks
    Timeout,   \* TCP_REQUEST_TIMEOUT, in ticks, and one
    AgeMax,    \* ages of an answer are not told apart from here on
    Addr,      \* addresses of a TCP_SERV_CFG
    None,      \* the null pointer to one
    MaxFaults, \* bound on requests that find no memory
    MaxLoss,   \* bound on losses of the Wi-Fi
    MaxInit    \* bound on calls of iot_cloud_init from the page

Req == 1..N

ASSUME CloudAssumption ==
    /\ N \in Nat
    /\ Timeout \in Nat \ {0, 1}
    /\ AgeMax \in Nat
    /\ Interval \in [1..N -> 0..(AgeMax - 1)]
    /\ None \notin Addr
    /\ MaxFaults \in Nat /\ MaxLoss \in Nat /\ MaxInit \in Nat

VARIABLES
    enabled,  \* cfg_glo.iot_cloud_enable
    flg,      \* iot_tc_init_flg: TC_INITED is "inited", TC_RUNNING "running"
    list,     \* iot_data_first # NULL
    current,  \* iot_data_processing
    age,      \* age[r]: time since last_run of r, up to AgeMax
    timer,    \* error_timer: 0 not armed, 1 run down, else ticks left and one
    dns,      \* a query in dns_table has tc_dns_found_callback
    tcp,      \* [cfg: tc_servcfg, heap: what is at each address, conn: the
              \*  client connection, sent: the request written to it]
    got_ip,   \* wifi_station_get_connect_status() = STATION_GOT_IP
    services, \* flg_open_all_service
    stray,    \* a client was started on a configuration that had been freed
    bounds    \* faults, losses and initialisations so far

vars == <<enabled, flg, list, current, age, timer, dns, tcp, got_ip, services, stray, bounds>>

(***************************************************************************)
(* An address is free, or has the configuration of the client, of the web  *)
(* server, or of a web server whose port a client has written over: it     *)
(* keeps the pcb that listens, and refuses whoever connects.               *)
(***************************************************************************)
Kinds == {"free", "iot", "web", "deaf"}

(***************************************************************************)
(* none; a connect is going on; connected; waiting to connect again; left  *)
(* without a pcb and without a timer.                                      *)
(***************************************************************************)
ConnStates == {"none", "syn", "open", "wait", "stuck"}

Running == "running" \in flg

CloudSend(ip, open) == ip /\ open /\ enabled \* the guards of iot_cloud_send

(***************************************************************************)
(* Parts of the handlers, as functions of the TCP state t.                 *)
(***************************************************************************)
tc_close(t) ==
    IF t.cfg = None THEN t
    ELSE [cfg |-> None, heap |-> [t.heap EXCEPT ![t.cfg] = "free"], conn |-> "none", sent |-> 0]

\* Mutation: tc_init allocates without closing what is there.
tc_init_open(t) ==
    {[t EXCEPT !.cfg = a, !.heap = [t.heap EXCEPT ![a] = "iot"]] :
        a \in {x \in Addr : t.heap[x] = "free"}}

\* what tc_init may leave when there is memory: the configuration at any
\* free address
tc_init(t) ==
    LET u == tc_close(t)
    IN {[u EXCEPT !.cfg = a, !.heap = [u.heap EXCEPT ![a] = "iot"]] :
            a \in {x \in Addr : u.heap[x] = "free"}}

\* tcpsrv_client_start returns ERR_OK also when the connect failed and there
\* is no connection
tcpsrv_client_start(t) == {[t EXCEPT !.conn = "syn", !.sent = 0], t}

(***************************************************************************)
(* The loop of tc_go_next from request s on, s = 0 at the end of the list, *)
(* with the flags f, the TCP state t and the pending query d.  tc_go       *)
(* starts the first request that is due; one that cannot be started (no    *)
(* memory for the configuration, the query or the connection) is passed    *)
(* over.                                                                   *)
(***************************************************************************)
DueFrom(s, ages) == {r \in Req : s # 0 /\ r >= s /\ ages[r] > Interval[r]}

StartRequest(r, f, t, d) ==
    /\ current' = r
    /\ flg' = f \cup {"running"}
    /\ timer' = Timeout
    /\ \E u \in tc_init(t) :
        \/ tcp' = u /\ dns' = TRUE
        \/ tcp' \in tcpsrv_client_start(u) /\ dns' = d

EndOfList(f, t, d) ==
    /\ current' = 0
    /\ flg' = f
    /\ timer' = 0
    /\ tcp' = t
    /\ dns' = d

Fault == bounds.faults < MaxFaults /\ bounds' = [bounds EXCEPT !.faults = @ + 1]

TryFrom(due, f, t, d) ==
    \/ due = {} /\ EndOfList(f, t, d) /\ UNCHANGED bounds
    \/ \E r \in due :
        /\ StartRequest(r, f, t, d)
        /\ IF \A q \in due : r <= q THEN UNCHANGED bounds ELSE Fault
    \/ /\ due # {}
       /\ Fault
       /\ \E u \in tc_init(t) \cup {tc_close(t)} : EndOfList(f, u, d)

\* the request behind one that has timed out
TryAgain(cur) == cur                    \* mutation: the same once more
NextOf(cur) == IF cur \in 1..(N - 1) THEN cur + 1 ELSE 0

\* tc_go_next: a request still running has timed out; it is closed and passed
tc_go_next(cur, t) ==
    IF Running
    THEN TryFrom(DueFrom(NextOf(cur), age),
                 flg \ {"running"}, tc_close(t), FALSE)
    ELSE TryFrom(DueFrom(cur, age), flg, t, dns)

(***************************************************************************)
(* iot_cloud_init: a process is stopped, the list is freed and read from   *)
(* the ini file again, which fails (~ok) or leaves a list.  last_run is 0  *)
(* then, and the counter it is compared with wraps: any age is possible.   *)
(***************************************************************************)
InitKeeps(t) == t                       \* mutation: no close_dns_finding
InitStops(t) == IF flg = {} THEN t ELSE tc_close(t)

InitTimer == IF flg = {} THEN timer ELSE 0

InitKeepsDns == dns                     \* mutation: the query keeps its callback
InitDns == dns /\ ~Running

ReadIni(ok, on) ==
    /\ list' \in IF on /\ N > 0 THEN {TRUE, ok} ELSE {FALSE}
    /\ \E uptime \in 0..AgeMax : age' = [r \in Req |-> uptime]

StillRunning(ok) == flg \cup (IF ok THEN {"inited"} ELSE {}) \* mutation: the flags stay
Inited(ok) == IF ok THEN {"inited"} ELSE {}

WhereItStopped(cur) == cur              \* mutation: never from the start again
Beginning(cur) == IF cur = 0 THEN 1 ELSE cur

\* iot_cloud_send(1), t being the TCP state after what its caller did
iot_cloud_send_start(t, ip, open) ==
    \/ /\ ~CloudSend(ip, open) \/ Running \/ ("inited" \in flg /\ ~list)
       /\ tcp' = t
       /\ UNCHANGED <<flg, list, current, age, timer, dns, bounds>>
    \/ /\ CloudSend(ip, open) /\ "inited" \in flg /\ ~Running /\ list
       /\ tc_go_next(Beginning(current), t)
       /\ UNCHANGED <<list, age>>
    \/ /\ CloudSend(ip, open) /\ "inited" \notin flg
       /\ \E ok \in BOOLEAN :
           /\ ReadIni(ok, TRUE)
           /\ IF ok /\ list'
              THEN TryFrom(DueFrom(1, age'), Inited(ok), InitStops(t), InitDns)
              ELSE /\ current' = IF list THEN 0 ELSE current
                   /\ flg' = Inited(ok)
                   /\ timer' = InitTimer
                   /\ tcp' = InitStops(t)
                   /\ dns' = InitDns
                   /\ UNCHANGED bounds

\* iot_cloud_send(0): close_dns_finding, unless the guards return first
iot_cloud_send_end(t, ip, open) ==
    IF CloudSend(ip, open)
    THEN /\ timer' = 0
         /\ flg' = flg \ {"running"}
         /\ dns' = InitDns
         /\ tcp' = tc_close(t)
    ELSE tcp' = t /\ UNCHANGED <<timer, flg, dns>>

-----------------------------------------------------------------------------
Init ==
    /\ enabled \in BOOLEAN
    /\ flg = IF enabled THEN {"inited"} ELSE {}
    /\ list = (enabled /\ N > 0)
    /\ current = 0
    /\ age = [r \in Req |-> 0]
    /\ timer = 0
    /\ dns = FALSE
    /\ tcp = [cfg |-> None, heap |-> [a \in Addr |-> "free"], conn |-> "none", sent |-> 0]
    /\ got_ip = FALSE
    /\ services = FALSE
    /\ stray = FALSE
    /\ bounds = [faults |-> 0, losses |-> 0, inits |-> 0]

\* an exception restarts the program; the bounds go on
Restart ==
    /\ enabled' \in BOOLEAN
    /\ flg' = IF enabled' THEN {"inited"} ELSE {}
    /\ list' = (enabled' /\ N > 0)
    /\ current' = 0
    /\ age' = [r \in Req |-> 0]
    /\ timer' = 0
    /\ dns' = FALSE
    /\ tcp' = [cfg |-> None, heap |-> [a \in Addr |-> "free"], conn |-> "none", sent |-> 0]
    /\ got_ip' = FALSE
    /\ services' = FALSE
    /\ stray' = FALSE
    /\ UNCHANGED bounds

(***************************************************************************)
(* Time.  system_get_time() and the error timer; the timer's function runs *)
(* before time goes on.                                                    *)
(***************************************************************************)
EachTick(t) == t - 1                    \* mutation: runs down when not armed
CountDown(t) == IF t = 0 THEN 0 ELSE t - 1

Tick ==
    /\ timer # 1
    /\ timer' = CountDown(timer)
    /\ age' = [r \in Req |-> IF age[r] < AgeMax THEN age[r] + 1 ELSE AgeMax]
    /\ UNCHANGED <<enabled, flg, list, current, dns, tcp, got_ip, services, stray, bounds>>

ErrorTimer ==
    /\ timer = 1
    /\ tc_go_next(current, tcp)
    /\ UNCHANGED <<enabled, list, age, got_ip, services, stray>>

\* the decoder of the meter's clock asks for a send
Send ==
    /\ iot_cloud_send_start(tcp, got_ip, services)
    /\ UNCHANGED <<enabled, got_ip, services, stray>>

\* the page switches the client on or off, or writes another ini file
WebInit ==
    /\ bounds.inits < MaxInit
    /\ bounds' = [bounds EXCEPT !.inits = @ + 1]
    /\ \E on, ok \in BOOLEAN :
        /\ enabled' = on
        /\ ReadIni(ok, on)
        /\ flg' = Inited(on /\ ok)
    /\ current' = IF list THEN 0 ELSE current
    /\ timer' = InitTimer
    /\ tcp' = InitStops(tcp)
    /\ dns' = InitDns
    /\ UNCHANGED <<got_ip, services, stray>>

(***************************************************************************)
(* DNS and TCP.  A query that found nothing, in time or not, leaves the    *)
(* request to the error timer.  One that found the server starts a client  *)
(* on whatever tc_servcfg points to: the configuration of this process, or *)
(* memory that close_all_service freed (a stray client, which no list of   *)
(* connections has), or a web server that got the same address (it has the *)
(* connection then, and loses its port to it).                             *)
(***************************************************************************)
ClientStarted ==
    \/ /\ tcp' = tc_close(tcp)             \* no memory for the connection
       /\ UNCHANGED stray
    \/ /\ tcp.heap[tcp.cfg] = "iot"
       /\ tcp' \in tcpsrv_client_start(tcp)
       /\ UNCHANGED stray
    \/ /\ tcp.heap[tcp.cfg] = "free"
       /\ stray' \in {stray, TRUE}
       /\ UNCHANGED tcp
    \/ /\ tcp.heap[tcp.cfg] \in {"web", "deaf"}
       /\ tcp' \in {tcp, [tcp EXCEPT !.heap[tcp.cfg] = "deaf"]}
       /\ UNCHANGED stray

\* a stray client ends a process before its query, which is pending then
\* beside the next one
DnsFound ==
    /\ dns
    /\ dns' \in {FALSE, stray}
    /\ \E found \in BOOLEAN :
        IF found /\ tcp.cfg # None
        THEN got_ip /\ ClientStarted
        ELSE UNCHANGED <<tcp, stray>>
    /\ UNCHANGED <<enabled, flg, list, current, age, timer, got_ip, services, bounds>>

TcpOnly == UNCHANGED <<enabled, list, current, dns, got_ip, services, stray, bounds>>

(***************************************************************************)
(* tcpsrv_connected and tc_listen: the request is written; there is no     *)
(* memory to build it (nothing is sent); a variable of it says that there  *)
(* is nothing to send (SCB_USER), or tcp_write refuses it.                 *)
(***************************************************************************)
Connected ==
    /\ tcp.conn = "syn"
    /\ got_ip
    /\ tcp' \in {[tcp EXCEPT !.conn = "open", !.sent = current],
                 [tcp EXCEPT !.conn = "open", !.sent = 0],
                 [tcp EXCEPT !.conn = "none", !.sent = 0],
                 tc_close(tcp)}
    /\ TcpOnly /\ UNCHANGED <<flg, age, timer>>

(***************************************************************************)
(* tc_recv: "200 OK" with a body that is not 0, or any other answer.  A    *)
(* good answer is written to iot_data_processing, NULL or not.             *)
(***************************************************************************)
tc_recv ==
    \/ current = 0 /\ Restart
    \/ \E ok \in BOOLEAN :
        /\ ok => current # 0
        /\ flg' = IF ok THEN flg \ {"running"} ELSE flg
        /\ age' = IF ok THEN [age EXCEPT ![current] = 0] ELSE age
        /\ tcp' = tc_close(tcp)
        /\ TcpOnly /\ UNCHANGED timer

Received ==
    /\ tcp.conn = "open" /\ tcp.sent # 0
    /\ got_ip
    /\ tc_recv

\* the server closes or resets the connection
Closed ==
    /\ tcp.conn = "open"
    /\ tcp' = [tcp EXCEPT !.conn = "none", !.sent = 0]
    /\ TcpOnly /\ UNCHANGED <<flg, age, timer>>

\* tcpsrv_error while it connects: again, or too often
ConnectFails ==
    /\ tcp.conn = "syn"
    /\ tcp' \in {[tcp EXCEPT !.conn = c, !.sent = 0] : c \in {"wait", "none"}}
    /\ TcpOnly /\ UNCHANGED <<flg, age, timer>>

\* tcpsrv_poll gives a connection up and tries another one
PollTimeout ==
    /\ tcp.conn \in {"syn", "open"}
    /\ tcp' = [tcp EXCEPT !.conn = "wait", !.sent = 0]
    /\ TcpOnly /\ UNCHANGED <<flg, age, timer>>

\* ptimer: tcpsrv_client_connect; when it fails nothing tries again
Reconnect ==
    /\ tcp.conn = "wait"
    /\ tcp' \in {[tcp EXCEPT !.conn = c] : c \in {"syn", "stuck"}}
    /\ TcpOnly /\ UNCHANGED <<flg, age, timer>>

(***************************************************************************)
(* A stray client calls through memory that is free, or somebody else's by *)
(* now, as long as the program runs; which state it is in is not followed. *)
(* The memory may be as it was left, or be the client's again: the stray   *)
(* client sends the request of the moment and has its answer (a request    *)
(* that it gives up does what a bad answer does).  A call through memory   *)
(* with other contents is an exception.                                    *)
(* When it connects again it writes its port there, the one of the web     *)
(* server perhaps; and when it is ended, find_tcp_pcb goes by that port    *)
(* and may find, and abandon, the pcb of the client's own connection.      *)
(***************************************************************************)
StrayReceives == stray /\ tc_recv

StrayException == stray /\ Restart

StrayConnects ==
    /\ stray
    /\ \E a \in Addr : tcp.heap[a] = "web" /\ tcp' = [tcp EXCEPT !.heap[a] = "deaf"]
    /\ TcpOnly /\ UNCHANGED <<flg, age, timer>>

StrayEnds ==
    /\ stray
    /\ tcp.conn # "none" /\ tcp' = [tcp EXCEPT !.conn = "stuck", !.sent = 0]
    /\ TcpOnly /\ UNCHANGED <<flg, age, timer>>

(***************************************************************************)
(* Wi-Fi events.  close_all_service closes every configuration; tc_servcfg *)
(* keeps its value.  Clients of the soft-AP (ap) keep the services open.   *)
(* When the handler calls iot_cloud_send(0), the station has no address    *)
(* any more.                                                               *)
(***************************************************************************)
close_all_service(t) ==
    IF services
    THEN [t EXCEPT !.heap = [a \in Addr |-> "free"], !.conn = "none", !.sent = 0]
    ELSE t

WebOpen(h) == \E a \in Addr : h[a] = "web"

\* what open_all_service may leave: webserver_init at any free address,
\* unless the port is bound
open_all_service(t, reopen) ==
    IF (reopen \/ ~services) /\ \A a \in Addr : t.heap[a] \notin {"web", "deaf"}
    THEN {[t EXCEPT !.heap[a] = "web"] : a \in {x \in Addr : t.heap[x] = "free"}}
    ELSE {t}

WifiLost ==
    /\ got_ip
    /\ bounds.losses < MaxLoss
    /\ bounds' = [bounds EXCEPT !.losses = @ + 1]
    /\ got_ip' = FALSE
    /\ \E ap \in BOOLEAN :
        /\ services' = (services /\ ap)
        /\ iot_cloud_send_end(IF ap THEN tcp ELSE close_all_service(tcp), got_ip', services')
    /\ UNCHANGED <<enabled, list, current, age, stray>>

WifiGotIp ==
    /\ ~got_ip
    /\ got_ip' = TRUE
    /\ services' = TRUE
    /\ \E ap \in BOOLEAN : \E t \in open_all_service(tcp, ~ap) :
        iot_cloud_send_start(t, got_ip', services')
    /\ UNCHANGED <<enabled, stray>>

Next ==
    \/ Tick \/ ErrorTimer \/ Send \/ WebInit
    \/ DnsFound \/ Connected \/ Received \/ Closed \/ ConnectFails \/ PollTimeout \/ Reconnect
    \/ StrayReceives \/ StrayException \/ StrayConnects \/ StrayEnds
    \/ WifiLost \/ WifiGotIp

Spec == Init /\ [][Next]_vars

(***************************************************************************)
(* Time passes, the timer's function runs when it is due, the Wi-Fi comes  *)
(* back, and the meter is read again and again.                            *)
(***************************************************************************)
Fairness ==
    /\ WF_vars(Tick) /\ WF_vars(ErrorTimer)
    /\ WF_vars(WifiGotIp) /\ SF_vars(Send)

LiveSpec == Spec /\ Fairness

-----------------------------------------------------------------------------
TypeOK ==
    /\ enabled \in BOOLEAN /\ list \in BOOLEAN /\ dns \in BOOLEAN
    /\ got_ip \in BOOLEAN /\ services \in BOOLEAN /\ stray \in BOOLEAN
    /\ flg \in SUBSET {"inited", "running"}
    /\ current \in 0..N
    /\ age \in [Req -> 0..AgeMax]
    /\ timer \in 0..Timeout
    /\ tcp \in [cfg : Addr \cup {None}, heap : [Addr -> Kinds],
                conn : ConnStates, sent : 0..N]
    /\ bounds \in [faults : 0..MaxFaults, losses : 0..MaxLoss, inits : 0..MaxInit]

(***************************************************************************)
(* A process that is marked as running has the error timer to end it: the  *)
(* flag, which keeps every other send out, is never left behind by an      *)
(* answer, a failure, a new ini file or a loss of the Wi-Fi.               *)
(***************************************************************************)
TimerGuardsRun == Running => timer > 0 /\ current # 0

(***************************************************************************)
(* A connection, and a query whose callback opens one, exist only for the  *)
(* process that is running, on the configuration tc_servcfg points to:     *)
(* tc_recv uses iot_data_processing without a test, and tc_close must find *)
(* the connection.  It is so until a query outlives its configuration      *)
(* (stray): whatever ends the process, but a loss of the Wi-Fi, takes the  *)
(* query with it.                                                          *)
(***************************************************************************)
ConnOfRun ==
    ~stray =>
        /\ tcp.conn # "none" => Running /\ list /\ tcp.cfg # None /\ tcp.heap[tcp.cfg] = "iot"
        /\ dns => Running

(***************************************************************************)
(* The answer is credited to the request that was written to the           *)
(* connection, whatever moved iot_data_processing meanwhile, but for the   *)
(* answer to a stray client.                                               *)
(***************************************************************************)
AnswerOfRequest == ~stray /\ tcp.conn = "open" => tcp.sent \in {0, current}

(***************************************************************************)
(* No configuration of the client is lost: the only one that is allocated  *)
(* is the one tc_servcfg points to.                                        *)
(***************************************************************************)
NoLostConfig == \A a \in Addr : tcp.heap[a] = "iot" => tcp.cfg = a

(***************************************************************************)
(* The run flag is always released: no loss, refusal, silence or new ini   *)
(* file stops the client for good.                                         *)
(***************************************************************************)
FlagReleased == Running ~> ~Running

(***************************************************************************)
(* While the client is on and the ini file it has read stays, every        *)
(* request is started again and again.                                     *)
(***************************************************************************)
EachRequestTried ==
    \A r \in Req : <>[](enabled /\ list /\ "inited" \in flg) => []<>(Running /\ current = r)

(***************************************************************************)
(* "web_port: number of the WEB port (=0 - off)", include/flash_eep.h:115: *)
(* with a port set, open services include the web server.                  *)
(***************************************************************************)
WebServerServes == services => WebOpen(tcp.heap)
=============================================================================
