------------------------------ MODULE WebServer ------------------------------
(***************************************************************************)
(* The web server: connections (src/app/web/tcp_srv_conn.c, server side),  *)
(* requests and pages with nested includes (src/app/web/web_srv.c) and the *)
(* file handles of the disk (src/app/web/webfs.c).                         *)
(*                                                                         *)
(* One action is one callback of lwIP or one event of the Wi-Fi.  A call   *)
(* of webserver_send_fdata fills a buffer; here it opens or closes at most *)
(* one file, a call that does more is several in a row.  Names, headers    *)
(* and what the page prints are left out.                                  *)
(***************************************************************************)
EXTENDS Integers, FiniteSets

CONSTANTS
    Conns,    \* connections, each with its pcb
    MaxOpen,  \* MAX_WEBFS_OPENFILES
    Depth     \* length of bffiles

ASSUME WebAssumption ==
    /\ MaxOpen \in Nat \ {0}
    /\ Depth \in Nat \ {0}

Stub == 1..MaxOpen  \* WEBFSStubs[0] is not for files
Other == 0          \* WEBFS_WEBCGI_HANDLE, WEBFS_UPLOAD_HANDLE, WEBFS_NODISK_HANDLE
Invalid == -1       \* WEBFS_INVALID_HANDLE

VARIABLES
    server, \* the configuration of the web server is in phcfg
    conn,   \* conn[c]: "none" (not in conn_links) or the state of the connection
    pcb,    \* pcb[c]: "none", "served" (all callbacks), "polled" (tcpsrv_poll
            \*  alone), "left" (to lwIP, without callbacks)
    page,   \* page[c]: see Pages
    files,  \* files[c]: bffiles
    stubs,  \* handles whose stub is in use
    locked, \* isWEBFSLocked
    dirty,  \* a page has asked for a save of the settings, none was done since
    upset   \* WEBFSInit has run under an open file; from then on pages share
            \*  stubs, and only how their connections end is followed

vars == <<server, conn, pcb, page, files, stubs, locked, dirty, upset>>

(***************************************************************************)
(* at: the header is not complete, nothing was sent; an upload goes on     *)
(* (SCB_RXDATA); the answer is being sent; SCB_DISCONNECT.  parse is       *)
(* SCB_FCALBACK, save SCB_SYSSAVE, reinit web_disc_cb = webserver_reinit,  *)
(* disk an upload that writes the disk.                                    *)
(***************************************************************************)
Pages == [at : {"head", "upload", "send", "end"},
          parse : BOOLEAN, save : BOOLEAN, reinit : BOOLEAN, disk : BOOLEAN]

NoPage == [at |-> "head", parse |-> FALSE, save |-> FALSE, reinit |-> FALSE, disk |-> FALSE]

NoFiles == [i \in 1..Depth |-> Invalid]

HandlesOf(f) == {f[i] : i \in 1..Depth} \cap Stub

Linked == {c \in Conns : conn[c] # "none"}

(***************************************************************************)
(* webfs.c                                                                 *)
(***************************************************************************)
FreeHandle(S, h) == h \in 1..(MaxOpen + 1) /\ h \notin S /\ \A k \in 1..(h - 1) : k \in S

\* Mutation: the test for the end of the table is missing.
WEBFSOpenUntested(S) == {h \in 1..(MaxOpen + 1) : FreeHandle(S, h) /\ ~locked}

\* the handle that WEBFSOpen finds, for a file that exists
WEBFSOpen(S) == {h \in 1..(MaxOpen + 1) : FreeHandle(S, h) /\ h # MaxOpen /\ ~locked}

(***************************************************************************)
(* Files of a page: web_inc_fp puts one in front, the last one falls off   *)
(* and is closed; web_inc_fclose closes the first.                         *)
(***************************************************************************)
Pushed(f, h) == [i \in 1..Depth |-> IF i = 1 THEN h ELSE f[i - 1]]
FallsOffOpen(f) == {}                   \* mutation: it is not closed
FallsOff(f) == {f[Depth]} \cap Stub

Popped(f) == [i \in 1..Depth |-> IF i = Depth THEN Invalid ELSE f[i + 1]]
First(f) == {f[1]} \cap Stub

\* what is left of a page that will not be answered any more
Ended(p) == [p EXCEPT !.at = "end", !.parse = FALSE, !.disk = FALSE]

-----------------------------------------------------------------------------
(***************************************************************************)
(* How a callback of connection c ends, its page being p, its files f, and *)
(* the stubs S.                                                            *)
(***************************************************************************)
Asked(c, p) == dirty \/ (p.save /\ ~page[c].save)

GoesOn(c, p, f, S) ==
    /\ conn' = [conn EXCEPT ![c] = "connect"]
    /\ page' = [page EXCEPT ![c] = p]
    /\ files' = [files EXCEPT ![c] = f]
    /\ stubs' = S
    /\ dirty' = Asked(c, p)
    /\ UNCHANGED <<server, pcb>>

(***************************************************************************)
(* tcpsrv_list_delete: webserver_disconnect closes the files, saves the    *)
(* settings and calls web_disc_cb.  webserver_reinit closes the            *)
(* configuration with every connection in its list, c with them, and opens *)
(* another one, if there is memory.  q is what happens to the pcb of c.    *)
(***************************************************************************)
Dropped(c, p) == IF p.reinit THEN Linked \cup {c} ELSE {c}
NothingSaved(D, c, p) == FALSE          \* mutation: SCB_SYSSAVE is not looked at
SavesAny(D, c, p) == p.save \/ \E d \in D \ {c} : page[d].save

tcpsrv_list_delete(c, p, f, S, q) ==
    LET D == Dropped(c, p)
    IN /\ conn' = [d \in Conns |-> IF d \in D THEN "none" ELSE conn[d]]
       /\ page' = [d \in Conns |-> IF d \in D THEN NoPage ELSE page[d]]
       /\ files' = [d \in Conns |-> IF d \in D THEN NoFiles ELSE files[d]]
       /\ stubs' = (S \ HandlesOf(f)) \ UNION {HandlesOf(files[d]) : d \in D \ {c}}
       /\ pcb' = [d \in Conns |-> IF d = c THEN q
                                  ELSE IF d \in D /\ pcb[d] # "none" THEN "left"
                                  ELSE pcb[d]]
       /\ dirty' = (Asked(c, p) /\ ~SavesAny(D, c, p))
       /\ server' \in IF p.reinit THEN BOOLEAN ELSE {server}

NotPolled == "left"                     \* mutation: no callback is left
StillPolled == "polled"
LeavesCallbacks == "served"             \* mutation: the callbacks stay
WithoutCallbacks == "left"

\* tcpsrv_server_close: tcp_close is done, or fails and is tried again
tcpsrv_server_close(c, p, f, S) ==
    \/ tcpsrv_list_delete(c, p, f, S, WithoutCallbacks)
    \/ /\ conn' = [conn EXCEPT ![c] = "closewait"]
       /\ pcb' = [pcb EXCEPT ![c] = StillPolled]
       /\ page' = [page EXCEPT ![c] = Ended(p)]
       /\ files' = [files EXCEPT ![c] = f]
       /\ stubs' = S
       /\ dirty' = Asked(c, p)
       /\ UNCHANGED server

\* SCB_DISCONNECT, web_int_disconnect: the connection is closed here with
\* pcb_time_wait_free only, else the client has to close it
web_int_disconnect(c, p, f, S) ==
    LET r == Ended(p)
    IN GoesOn(c, r, f, S) \/ tcpsrv_server_close(c, r, f, S)

\* SCB_FCLOSE: Close_web_conn first
FClose(c, p, f, S) ==
    web_int_disconnect(c, [p EXCEPT !.parse = FALSE], NoFiles, S \ HandlesOf(f))

(***************************************************************************)
(* The answer to a request with the status ok or not, web_print_headers    *)
(* and what follows: a redirection, an error page, nothing to send, no     *)
(* memory, or the file; a second page cannot be sent after an upload.      *)
(***************************************************************************)
Sends(c, p, f, S) == GoesOn(c, [p EXCEPT !.at = "send"], f, S)

ErrorPage(c, p, f, S) ==
    LET g == Popped(f)
        T == S \ First(f)
        r == [p EXCEPT !.parse = FALSE]
    IN \/ web_int_disconnect(c, r, g, T)
       \/ \E h \in WEBFSOpen(T), idx \in BOOLEAN :
            LET e == Pushed(g, h)
                s == [r EXCEPT !.parse = idx]
            IN \/ p.at # "upload" /\ Sends(c, s, e, T \cup {h})
               \/ web_int_disconnect(c, s, e, T \cup {h})

Answer(c, p, f, S) ==
    \/ FClose(c, p, f, S)
    \/ web_int_disconnect(c, p, f, S)
    \/ ErrorPage(c, p, f, S)
    \/ p.at # "upload" /\ f[1] \in Stub /\ Sends(c, p, f, S)

-----------------------------------------------------------------------------
Init ==
    /\ server = FALSE
    /\ conn = [c \in Conns |-> "none"]
    /\ pcb = [c \in Conns |-> "none"]
    /\ page = [c \in Conns |-> NoPage]
    /\ files = [c \in Conns |-> NoFiles]
    /\ stubs = {}
    /\ locked \in BOOLEAN
    /\ dirty = FALSE
    /\ upset = FALSE

OpenServices ==
    /\ ~server
    /\ server' = TRUE
    /\ UNCHANGED <<conn, pcb, page, files, stubs, locked, dirty, upset>>

\* close_all_service: every connection is dropped, every pcb abandoned
CloseServices ==
    /\ server
    /\ server' = FALSE
    /\ conn' = [c \in Conns |-> "none"]
    /\ pcb' = [c \in Conns |-> "none"]
    /\ page' = [c \in Conns |-> NoPage]
    /\ files' = [c \in Conns |-> NoFiles]
    /\ stubs' = stubs \ UNION {HandlesOf(files[c]) : c \in Conns}
    /\ dirty' = (dirty /\ ~\E c \in Linked : page[c].save)
    /\ UNCHANGED <<locked, upset>>

Accept(c) ==
    /\ server
    /\ conn[c] = "none" /\ pcb[c] = "none"
    /\ conn' = [conn EXCEPT ![c] = "connect"]
    /\ pcb' = [pcb EXCEPT ![c] = "served"]
    /\ UNCHANGED <<server, page, files, stubs, locked, dirty, upset>>

(***************************************************************************)
(* webserver_received_data until the request is complete.  The first file  *)
(* is opened when the header is there, the content may take longer.        *)
(***************************************************************************)
FirstOpened ==
    {<<Pushed(NoFiles, h), stubs \cup {h}, idx>> : h \in WEBFSOpen(stubs), idx \in BOOLEAN}

FirstFiles(c) ==
    IF files[c] # NoFiles THEN {<<files[c], stubs, page[c].parse>>}
    ELSE {<<NoFiles, stubs, FALSE>>, <<Pushed(NoFiles, Other), stubs, FALSE>>} \cup FirstOpened

Request(c) ==
    /\ ~upset
    /\ pcb[c] = "served" /\ page[c].at = "head"
    /\ \/ \E o \in FirstFiles(c) :
           GoesOn(c, [page[c] EXCEPT !.parse = o[3]], o[1], o[2])
       \/ \E o \in FirstFiles(c), save, reinit \in BOOLEAN :
           LET p == [page[c] EXCEPT !.parse = o[3], !.save = save, !.reinit = reinit]
           IN \/ Answer(c, p, o[1], o[2])
              \/ o[1][1] # Invalid /\ GoesOn(c, [p EXCEPT !.at = "upload", !.parse = FALSE], o[1], o[2])
    /\ UNCHANGED <<locked, upset>>

(***************************************************************************)
(* web_rx_buf: variables may come with the upload; a disk or a firmware    *)
(* locks the disk; at its end WEBFSInit frees every stub, and locks or     *)
(* unlocks the disk by what it finds there.                                *)
(***************************************************************************)
Upload(c) ==
    /\ ~upset
    /\ pcb[c] = "served" /\ page[c].at = "upload"
    /\ \E save, reinit \in BOOLEAN :
        LET p == [page[c] EXCEPT !.save = @ \/ save, !.reinit = @ \/ reinit]
        IN \/ GoesOn(c, p, files[c], stubs) /\ UNCHANGED <<locked, upset>>
           \/ /\ GoesOn(c, [p EXCEPT !.disk = TRUE], files[c], stubs)
              /\ locked' = TRUE
              /\ UNCHANGED upset
           \/ /\ ~p.disk
              /\ Answer(c, p, files[c], stubs)
              /\ UNCHANGED <<locked, upset>>
           \/ /\ p.disk
              /\ locked' \in BOOLEAN
              /\ upset' = (upset \/ stubs # {})
              /\ Answer(c, p, files[c], {})

(***************************************************************************)
(* webserver_sent_callback, webserver_send_fdata: the buffer is filled     *)
(* from the first file; there is no memory for it, or tcp_write fails; the *)
(* file is at its end; the page has ~inc:file~ in it.                      *)
(***************************************************************************)
EndOfFile(c) ==
    LET f == Popped(files[c])
    IN IF page[c].parse /\ f[1] # Invalid
       THEN GoesOn(c, page[c], f, stubs \ First(files[c]))
       ELSE FClose(c, page[c], files[c], stubs)

\* a compressed file is closed again, and the name is not found
Include(c) ==
    /\ page[c].parse
    /\ \E h \in WEBFSOpen(stubs) :
        GoesOn(c, page[c], Pushed(files[c], h), (stubs \cup {h}) \ FallsOff(files[c]))

Sent(c) ==
    /\ ~upset
    /\ pcb[c] = "served" /\ page[c].at = "send"
    /\ \/ GoesOn(c, page[c], files[c], stubs)
       \/ EndOfFile(c)
       \/ Include(c)
       \/ FClose(c, page[c], files[c], stubs)
       \/ tcpsrv_server_close(c, page[c], files[c], stubs)
    /\ UNCHANGED <<locked, upset>>

\* the client closes, tcpsrv_poll finds that it has waited too long, or that
\* the pcb is not established
CloseStarts(c) ==
    /\ pcb[c] = "served"
    /\ tcpsrv_server_close(c, page[c], files[c], stubs)
    /\ UNCHANGED <<locked, upset>>

\* tcpsrv_error
Error(c) ==
    /\ pcb[c] = "served"
    /\ tcpsrv_list_delete(c, page[c], files[c], stubs, "none")
    /\ UNCHANGED <<locked, upset>>

\* tcpsrv_poll in SRVCONN_CLOSEWAIT tries again; when it fails it will be tried
\* again and again: recv_check does not count there
CloseAgain(c) ==
    /\ pcb[c] = "polled"
    /\ tcpsrv_list_delete(c, page[c], files[c], stubs, WithoutCallbacks)
    /\ UNCHANGED <<locked, upset>>

\* lwIP is through with a pcb, or it is reset; there is no tcpsrv_error then
PcbEnds(c) ==
    /\ pcb[c] \in {"left", "polled"}
    /\ pcb' = [pcb EXCEPT ![c] = "none"]
    /\ UNCHANGED <<server, conn, page, files, stubs, locked, dirty, upset>>

Next ==
    \/ OpenServices \/ CloseServices
    \/ \E c \in Conns :
        \/ Accept(c) \/ Request(c) \/ Upload(c) \/ Sent(c)
        \/ CloseStarts(c) \/ Error(c) \/ CloseAgain(c) \/ PcbEnds(c)

Spec == Init /\ [][Next]_vars

(***************************************************************************)
(* A connection that waits too long is closed (web_twrec, web_twcls), and  *)
(* a close that failed is tried again until there is memory.               *)
(***************************************************************************)
Fairness == \A c \in Conns : WF_vars(CloseStarts(c)) /\ WF_vars(CloseAgain(c))

LiveSpec == Spec /\ Fairness

-----------------------------------------------------------------------------
\* no handle lies behind the table, nor at its last place
TypeOK ==
    /\ server \in BOOLEAN /\ locked \in BOOLEAN /\ dirty \in BOOLEAN /\ upset \in BOOLEAN
    /\ conn \in [Conns -> {"none", "connect", "closewait"}]
    /\ pcb \in [Conns -> {"none", "served", "polled", "left"}]
    /\ page \in [Conns -> Pages]
    /\ files \in [Conns -> [1..Depth -> (1..(MaxOpen - 1)) \cup {Other, Invalid}]]
    /\ stubs \in SUBSET (1..(MaxOpen - 1))

(***************************************************************************)
(* Handles are neither lost nor shared: a stub in use is in exactly one    *)
(* place of one connection in the list, whatever ends the page and however *)
(* deep its includes, as long as no upload has run WEBFSInit under it.     *)
(***************************************************************************)
HandlesOwned ==
    upset \/
    /\ \A h \in Stub : h \in stubs <=> \E c \in Linked : h \in HandlesOf(files[c])
    /\ \A c, d \in Conns : \A i, j \in 1..Depth :
        files[c][i] = files[d][j] /\ files[c][i] \in Stub => c = d /\ i = j

(***************************************************************************)
(* lwIP never calls back with a connection that was freed: a pcb has a     *)
(* callback only while its connection is in the list, in a state that the  *)
(* callback expects.                                                       *)
(***************************************************************************)
CallbacksOfLinked ==
    \A c \in Conns :
        /\ pcb[c] = "served" => conn[c] = "connect"
        /\ pcb[c] = "polled" => conn[c] = "closewait"

(***************************************************************************)
(* Settings a page has asked to save will be saved: the connection that    *)
(* has to do it is still in the list.                                      *)
(***************************************************************************)
SettingsKept == dirty => \E c \in Linked : page[c].save

(***************************************************************************)
(* Every connection is released, unless its pcb ended in the middle of a   *)
(* close that had failed.                                                  *)
(***************************************************************************)
Released == \A c \in Conns : conn[c] # "none" ~> (conn[c] = "none" \/ pcb[c] = "none")
=============================================================================
