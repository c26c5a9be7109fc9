-------------------------- MODULE ConsoleBridgeWs ---------------------------
(***************************************************************************)
(* The websocket bridge (src/console_bridge_ws.c).  Three threads share    *)
(* struct host_websocket without a lock: the HTTP server, which runs       *)
(* console_ws_http_cb when an authenticated client upgrades; the socket    *)
(* service, which runs ws_server_cb when the registered socket is          *)
(* readable; and socket_send_thread, which sends the host console log.     *)
(* Each of them may end the connection.                                    *)
(*                                                                         *)
(* wconn is the state of a client's websocket, wout the positions of the   *)
(* log delivered to it, in order, as long as it is open.                   *)
(***************************************************************************)
EXTENDS ConsoleShared, Sequences

CONSTANT WsClients

ASSUME WsAssumption == None \notin WsClients

VARIABLES ws_fd, ws_new_client,   \* fds[0].fd and new_client of host_websocket
          service,                \* the descriptor registered with host_console_ws_server
          wpc,                    \* where each of the three threads is
          after,                  \* where it goes on after ws_end_client_connection
          wbuf, wsock, wcopied,   \* the sender: unsent bytes, socket in use, progress
          hsock,                  \* ws_socket of console_ws_http_cb
          wconn, wout

WsThreads == {"ws", "http", "svc"}
wfdVars == <<ws_fd, ws_new_client, service>>
wsendVars == <<wbuf, wsock, wcopied>>
wconnVars == <<wconn, wout>>
wsVars == <<wfdVars, wpc, after, wsendVars, hsock, wconnVars>>

\* console_bridge_ws_init: no client, the sender starts.
WsInit ==
    /\ ws_fd = None /\ ws_new_client = FALSE /\ service = None
    /\ wpc = [ws |-> "check", http |-> "idle", svc |-> "poll"]
    /\ after = [t \in WsThreads |-> "idle"]
    /\ wbuf = <<0, 0>> /\ wsock = None /\ wcopied = FALSE
    /\ hsock = None
    /\ wconn = [c \in WsClients |-> "idle"]
    /\ wout = [c \in WsClients |-> <<>>]

\* The descriptors are connections or -1, and a read of the log stays within what
\* was received (console_bridge_ws.c).
WsTypeOK ==
    /\ SharedTypeOK
    /\ {ws_fd, service, wsock, hsock} \subseteq WsClients \cup {None}
    /\ ws_new_client \in BOOLEAN /\ wcopied \in BOOLEAN
    /\ wpc["ws"] \in {"check", "wait_client", "new", "read", "wait_data", "again", "enter",
                      "sendmsg", "sending", "sleep", "end_again",
                      "end_svc", "end_sock", "end_fd"}
    /\ wpc["http"] \in {"idle", "auth", "set", "mark", "register", "post",
                        "end_svc", "end_sock", "end_fd"}
    /\ wpc["svc"] \in {"poll", "recv", "end_svc", "end_sock", "end_fd"}
    /\ after \in [WsThreads -> {"idle", "set", "poll", "check", "sleep", "end_again"}]
    /\ wbuf \in (0..MaxBytes) \X (0..MaxBytes)
    /\ wconn \in [WsClients -> {"idle", "open", "gone", "closed"}]
    /\ wout \in [WsClients -> Seq(0..MaxBytes)]

Step(t, from, to) ==
    /\ wpc[t] = from
    /\ wpc' = [wpc EXCEPT ![t] = to]

\* Nothing is delivered to a connection that is not open: its history ends.
Connections(state) ==
    /\ wconn' = state
    /\ wout' = [c \in WsClients |-> IF state[c] = "open" THEN wout[c] ELSE <<>>]

\* websocket_unregister, or a close, of what fds[0].fd names now.
CloseWsFd == Connections([c \in WsClients |-> IF c = ws_fd THEN "closed" ELSE wconn[c]])

-----------------------------------------------------------------------------
(* ws_end_client_connection, in any thread: the service stops watching the *)
(* socket, the websocket fds[0].fd names is closed, fds[0].fd is reset.    *)

CallEnd(t, from, ret) ==
    /\ Step(t, from, "end_svc")
    /\ after' = [after EXCEPT ![t] = ret]

EndService(t) ==
    /\ Step(t, "end_svc", "end_sock")
    /\ service' = None
    /\ UNCHANGED <<ws_fd, ws_new_client, after, wsendVars, hsock, wconnVars, logVars, eventVars>>

EndSocket(t) ==
    /\ Step(t, "end_sock", "end_fd")
    /\ CloseWsFd
    /\ UNCHANGED <<wfdVars, after, wsendVars, hsock, logVars, eventVars>>

EndFd(t) ==
    /\ Step(t, "end_fd", after[t])
    /\ ws_fd' = None
    /\ after' = [after EXCEPT ![t] = "idle"]
    /\ UNCHANGED <<ws_new_client, service, wsendVars, hsock, wconnVars, logVars, eventVars>>

ws_end_client_connection(t) == EndService(t) \/ EndSocket(t) \/ EndFd(t)

-----------------------------------------------------------------------------
(* socket_send_thread and ws_send.                                         *)

WsStep(from, to) == ~Blocked("ws") /\ Step("ws", from, to)

\* while (1): what the last round left in buf is of no use any more.
CheckWsClient ==
    /\ \/ ws_fd = None /\ WsStep("check", "wait_client")
       \/ ws_fd # None /\ WsStep("check", "new")
    /\ wbuf' = <<0, 0>> /\ wcopied' = FALSE
    /\ UNCHANGED <<wfdVars, after, wsock, hsock, wconnVars, logVars, eventVars>>

WaitWsClient ==
    /\ WsStep("wait_client", "check")
    /\ k_event_wait_safe("ws", {EVENT_WEBSOCKET_CLIENT})
    /\ UNCHANGED <<wfdVars, after, wsendVars, hsock, wconnVars, logVars>>

\* Mutation of RewindNewClient: the new client starts at the end of the log.
SkipNewClient ==
    /\ WsStep("new", "read")
    /\ ws_new_client' = FALSE
    /\ pos' = IF ws_new_client THEN [pos EXCEPT !["ws"] = received] ELSE pos
    /\ UNCHANGED <<ws_fd, service, after, wsendVars, hsock, wconnVars, received, oldest, eventVars>>

\* A new client gets the log from its beginning, as far as that is kept.
RewindNewClient ==
    /\ WsStep("new", "read")
    /\ ws_new_client' = FALSE
    /\ pos' = IF ws_new_client THEN [pos EXCEPT !["ws"] = 0] ELSE pos
    /\ UNCHANGED <<ws_fd, service, after, wsendVars, hsock, wconnVars, received, oldest, eventVars>>

ReadWsLog ==
    /\ \/ /\ ReadStart("ws") = received
          /\ WsStep("read", "wait_data")
          /\ UNCHANGED <<wbuf, logVars>>
       \/ /\ ReadStart("ws") < received
          /\ WsStep("read", "again")
          /\ wbuf' = <<ReadStart("ws"), ReadEnd("ws")>>
          /\ Log!ReadTo("ws", ReadEnd("ws"))
    /\ UNCHANGED <<wfdVars, after, wsock, wcopied, hsock, wconnVars, eventVars>>

\* Mutation of WaitWsData: the events are reset before the wait.
WaitWsDataReset ==
    LET bits == {EVENT_WEBSOCKET_CLIENT, EVENT_CONSOLE_LOG_DATA}
    IN  /\ WsStep("wait_data", "check")
        /\ events' = events \ bits
        /\ waiting' = [waiting EXCEPT !["ws"] = bits]
        /\ UNCHANGED <<wfdVars, after, wsendVars, hsock, wconnVars, logVars>>

WaitWsData ==
    /\ WsStep("wait_data", "check")
    /\ k_event_wait_safe("ws", {EVENT_WEBSOCKET_CLIENT, EVENT_CONSOLE_LOG_DATA})
    /\ UNCHANGED <<wfdVars, after, wsendVars, hsock, wconnVars, logVars>>

Again ==
    /\ \/ ws_fd = None /\ WsStep("again", "check")
       \/ ws_fd # None /\ WsStep("again", "enter")
    /\ UNCHANGED <<wfdVars, after, wsendVars, hsock, wconnVars, logVars, eventVars>>

\* ws_send: a descriptor that is gone by now makes it fail with -ENOTCONN, and
\* the thread ends the connection.
ws_send ==
    /\ ~Blocked("ws")
    /\ \/ ws_fd = None /\ CallEnd("ws", "enter", "check")
       \/ ws_fd # None /\ Step("ws", "enter", "sendmsg") /\ UNCHANGED after
    /\ wcopied' = FALSE
    /\ UNCHANGED <<wfdVars, wbuf, wsock, hsock, wconnVars, logVars, eventVars>>

\* websocket_send_msg takes the descriptor fds[0].fd has now; it may block.
BeginSendMsg ==
    /\ WsStep("sendmsg", "sending")
    /\ wsock' = ws_fd
    /\ UNCHANGED <<wfdVars, after, wbuf, wcopied, hsock, wconnVars, logVars, eventVars>>

\* Mutation of SendMsgDone: what a short send left is dropped.
SendMsgOnce ==
    /\ WsStep("sending", "check")
    /\ wsock # None /\ wconn[wsock] = "open"
    /\ \E upto \in (wbuf[1] + 1)..wbuf[2] :
          wout' = [wout EXCEPT ![wsock] = @ \o [i \in 1..(upto - wbuf[1]) |-> wbuf[1] + i - 1]]
    /\ wcopied' = TRUE /\ wsock' = None
    /\ UNCHANGED <<wfdVars, after, wbuf, hsock, wconn, logVars, eventVars>>

SendMsgDone ==
    /\ wsock # None /\ wconn[wsock] = "open"
    /\ \E upto \in (wbuf[1] + 1)..wbuf[2] :
          /\ WsStep("sending", IF upto = wbuf[2] THEN "check" ELSE "sendmsg")
          /\ wout' = [wout EXCEPT ![wsock] = @ \o [i \in 1..(upto - wbuf[1]) |-> wbuf[1] + i - 1]]
          /\ wbuf' = <<upto, wbuf[2]>>
    /\ wcopied' = TRUE /\ wsock' = None
    /\ UNCHANGED <<wfdVars, after, hsock, wconn, logVars, eventVars>>

\* The connection has ended, or websocket_send_msg fails for a reason of its own:
\* ws_send ends the connection itself.  If it had sent something it returns that
\* and the thread retries the rest after a pause; if not, the thread ends the
\* connection a second time.
SendMsgError ==
    /\ wpc["ws"] = "sending"
    /\ CallEnd("ws", "sending", IF wcopied THEN "sleep" ELSE "end_again")
    /\ wsock' = None
    /\ UNCHANGED <<wfdVars, wbuf, wcopied, hsock, wconnVars, logVars, eventVars>>

EndAgain ==
    /\ CallEnd("ws", "end_again", "check")
    /\ UNCHANGED <<wfdVars, wsendVars, hsock, wconnVars, logVars, eventVars>>

Sleep ==
    /\ WsStep("sleep", "again")
    /\ UNCHANGED <<wfdVars, after, wsendVars, hsock, wconnVars, logVars, eventVars>>

WsSendThread ==
    \/ CheckWsClient \/ WaitWsClient \/ RewindNewClient \/ ReadWsLog \/ WaitWsData
    \/ Again \/ ws_send \/ BeginSendMsg \/ SendMsgDone \/ SendMsgError \/ EndAgain
    \/ Sleep \/ ws_end_client_connection("ws")

-----------------------------------------------------------------------------
(* console_ws_http_cb, in the HTTP server thread, which serves nobody else *)
(* meanwhile: ws_validate_auth waits for the client's credentials.         *)

Upgrade(c) ==
    /\ wconn[c] = "idle"
    /\ Step("http", "idle", "auth")
    /\ wconn' = [wconn EXCEPT ![c] = "open"]
    /\ hsock' = c
    /\ UNCHANGED <<wfdVars, after, wsendVars, wout, logVars, eventVars>>

\* The credentials are right: the previous client is kicked out.
AuthDone ==
    /\ \/ ws_fd = None /\ Step("http", "auth", "set") /\ UNCHANGED after
       \/ ws_fd # None /\ CallEnd("http", "auth", "set")
    /\ UNCHANGED <<wfdVars, wsendVars, hsock, wconnVars, logVars, eventVars>>

\* Mutation of AuthFails: the wait for the credentials has no timeout.
AuthFailsNoTimeout ==
    /\ Step("http", "auth", "idle")
    /\ wconn[hsock] = "gone"
    /\ Connections([wconn EXCEPT ![hsock] = "closed"])
    /\ hsock' = None
    /\ UNCHANGED <<wfdVars, after, wsendVars, logVars, eventVars>>

\* They are wrong, or none come within three seconds, or the client is gone.
AuthFails ==
    /\ Step("http", "auth", "idle")
    /\ Connections([wconn EXCEPT ![hsock] = "closed"])
    /\ hsock' = None
    /\ UNCHANGED <<wfdVars, after, wsendVars, logVars, eventVars>>

SetWsFd ==
    /\ Step("http", "set", "mark")
    /\ ws_fd' = hsock
    /\ UNCHANGED <<ws_new_client, service, after, wsendVars, hsock, wconnVars, logVars, eventVars>>

MarkNewWs ==
    /\ Step("http", "mark", "register")
    /\ ws_new_client' = TRUE
    /\ UNCHANGED <<ws_fd, service, after, wsendVars, hsock, wconnVars, logVars, eventVars>>

\* Registration may fail; then whatever fds[0].fd names is closed.
Register ==
    /\ \/ /\ Step("http", "register", "post")
          /\ service' = ws_fd
          /\ UNCHANGED <<ws_fd, wconnVars, hsock>>
       \/ /\ Step("http", "register", "idle")
          /\ CloseWsFd
          /\ ws_fd' = None /\ hsock' = None
          /\ UNCHANGED service
    /\ UNCHANGED <<ws_new_client, after, wsendVars, logVars, eventVars>>

PostWsClient ==
    /\ Step("http", "post", "idle")
    /\ k_event_post(EVENT_WEBSOCKET_CLIENT)
    /\ hsock' = None
    /\ UNCHANGED <<wfdVars, after, wsendVars, wconnVars, logVars>>

\* The callback runs to its end once a client asked for the upgrade.
HttpRuns ==
    \/ AuthFails \/ SetWsFd \/ MarkNewWs \/ Register \/ PostWsClient
    \/ ws_end_client_connection("http")

HttpThread == HttpRuns \/ AuthDone \/ \E c \in WsClients : Upgrade(c)

-----------------------------------------------------------------------------
(* ws_server_cb and ws_recv, in the socket service thread: the registered  *)
(* socket has data, was closed by its peer, or failed.                     *)

\* The socket is readable, or has an error; both count only for fds[0].fd.
ws_server_cb ==
    /\ service # None
    /\ service = ws_fd
    /\ \/ Step("svc", "poll", "recv") /\ UNCHANGED after
       \/ wconn[service] # "open" /\ CallEnd("svc", "poll", "poll")
    /\ UNCHANGED <<wfdVars, wsendVars, hsock, wconnVars, logVars, eventVars>>

\* Keystrokes go to host_console_write; an end or an error ends the connection
\* fds[0].fd names now.
ws_recv ==
    /\ \/ ws_fd # None /\ wconn[ws_fd] = "open" /\ Step("svc", "recv", "poll") /\ UNCHANGED after
       \/ (ws_fd # None => wconn[ws_fd] # "open") /\ CallEnd("svc", "recv", "poll")
    /\ UNCHANGED <<wfdVars, wsendVars, hsock, wconnVars, logVars, eventVars>>

ServiceThread == ws_server_cb \/ ws_recv \/ ws_end_client_connection("svc")

WsLeave(c) ==
    /\ wconn[c] = "open"
    /\ Connections([wconn EXCEPT ![c] = "gone"])
    /\ UNCHANGED <<wfdVars, wpc, after, wsendVars, hsock, logVars, eventVars>>

WsNext ==
    \/ WsSendThread
    \/ HttpThread
    \/ ServiceThread
    \/ \E c \in WsClients : WsLeave(c)

-----------------------------------------------------------------------------
(* The bridge on its own, as built without CONFIG_CONSOLE_BRIDGE.          *)

wvars == <<logVars, eventVars, wsVars>>

WsAloneInit == SharedInit /\ WsInit

WsSpec ==
    /\ WsAloneInit
    /\ [][WsNext \/ (UartCallback /\ UNCHANGED wsVars)]_wvars

\* The threads run, and a peer takes what is sent to it or goes away; the host
\* and the clients do what they like.
WsFairSpec ==
    /\ WsSpec
    /\ WF_wvars(WsSendThread)
    /\ WF_wvars(HttpRuns)
    /\ WF_wvars(ServiceThread)

-----------------------------------------------------------------------------
(* Properties.                                                             *)

\* A client misses no byte the log still has: after a byte it gets the next one, or
\* an earlier one when the sender starts over for it, or one up to which the log has
\* overwritten everything (console_bridge_ws.c:119-170, console_logger.c:162-163).
WsNoGap ==
    \A c \in WsClients : \A i \in 1..(Len(wout[c]) - 1) :
        wout[c][i + 1] <= wout[c][i] + 1 \/ wout[c][i + 1] <= oldest

Delivered(c) == {wout[c][i] : i \in DOMAIN wout[c]}

\* The active client gets the history that is kept, from the oldest byte to the
\* last, or another client takes its place (the comment at console_bridge.c:49).
WsAllHistory ==
    []<>(ws_fd = None \/ oldest..(received - 1) \subseteq Delivered(ws_fd))

\* No client can hold up the HTTP server for ever, which serves nothing else while
\* it waits for the credentials and for the end of an earlier connection
\* (http.c:135-172, console_bridge_ws.c:210-254).
HttpReturns == []<>(wpc["http"] = "idle")

-----------------------------------------------------------------------------
(* What the code does not give; README.md says how each one fails.         *)

\* A client misses nothing in the middle, however slowly it takes what is sent.
WsNothingMissed ==
    \A c \in WsClients : \A i \in 1..(Len(wout[c]) - 1) : wout[c][i + 1] <= wout[c][i] + 1

\* The comment at console_bridge.c:49, taken literally: what a client gets is the
\* log from its beginning, each byte once.
WsExactHistory ==
    \A c \in WsClients : \A i \in DOMAIN wout[c] : wout[c][i] = i - 1

\* The comment at console_bridge_ws.c:225-227: a new connection kicks the previous
\* one out, so that between upgrades at most one connection is left.
WsOneConnection ==
    wpc["http"] = "idle" =>
        \A c, d \in WsClients : {wconn[c], wconn[d]} \subseteq {"open", "gone"} => c = d

=============================================================================
