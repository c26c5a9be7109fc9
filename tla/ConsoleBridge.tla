--------------------------- MODULE ConsoleBridge ----------------------------
(***************************************************************************)
(* The telnet bridge (src/console_bridge.c): console_bridge_daemon_thread  *)
(* accepts one client at a time and receives its keystrokes;               *)
(* socket_send_thread reads the host console log and sends it to the       *)
(* client.  They share active_client_fd and new_client without a lock, so  *)
(* every access of a shared variable and every blocking call is a step.    *)
(*                                                                         *)
(* A client is also the descriptor its connection gets.  conn is the state *)
(* of its connection, out the positions of the log delivered to it, and    *)
(* joined the end of the log when it was accepted.                         *)
(***************************************************************************)
EXTENDS ConsoleShared

CONSTANT TelnetClients

ASSUME TelnetAssumption == None \notin TelnetClients

VARIABLES active_client_fd, new_client,
          tpc, tbuf, tsock,               \* the sender: position, buf, socket in send()
          dpc, client_fd,                 \* the daemon
          conn, out, joined

sendVars == <<tpc, tbuf, tsock>>
daemonVars == <<dpc, client_fd>>
fdVars == <<active_client_fd, new_client>>
connVars == <<conn, out, joined>>
telnetVars == <<sendVars, daemonVars, fdVars, connVars>>

TelnetInit ==
    /\ active_client_fd = None /\ new_client = FALSE
    /\ tpc = "check" /\ tbuf = <<0, 0>> /\ tsock = None
    /\ dpc = "accept" /\ client_fd = None
    /\ conn = [c \in TelnetClients |-> "idle"]
    /\ out = [c \in TelnetClients |-> {}]
    /\ joined = [c \in TelnetClients |-> 0]

\* The descriptors are connections or -1, and a read of the log stays within what
\* was received (socket_send_thread, handle_client).
TelnetTypeOK ==
    /\ SharedTypeOK
    /\ active_client_fd \in TelnetClients \cup {None} /\ new_client \in BOOLEAN
    /\ tpc \in {"check", "wait_client", "new", "clear", "read", "wait_data",
                "recheck", "send", "sending", "fail", "drop"}
    /\ tbuf \in (0..MaxBytes) \X (0..MaxBytes)
    /\ tsock \in TelnetClients \cup {None}
    /\ dpc \in {"accept", "set", "mark", "post", "loop", "arg", "recv", "fail", "drop", "close"}
    /\ client_fd \in TelnetClients \cup {None}
    /\ conn \in [TelnetClients -> {"idle", "queued", "open", "gone", "shut", "closed"}]
    /\ out \in [TelnetClients -> SUBSET (0..MaxBytes)]
    /\ joined \in [TelnetClients -> 0..MaxBytes]

-----------------------------------------------------------------------------
(* socket_send_thread.                                                     *)

TelnetStep(from, to) ==
    /\ tpc = from /\ ~Blocked("telnet")
    /\ tpc' = to

\* while (1): without a client, wait for one.  What the last round left in buf
\* is of no use any more.
CheckClient ==
    /\ \/ active_client_fd = None /\ TelnetStep("check", "wait_client")
       \/ active_client_fd # None /\ TelnetStep("check", "new")
    /\ tbuf' = <<0, 0>>
    /\ UNCHANGED <<tsock, daemonVars, fdVars, connVars, logVars, eventVars>>

WaitClient ==
    /\ TelnetStep("wait_client", "check")
    /\ k_event_wait_safe("telnet", {EVENT_TELNET_CLIENT})
    /\ UNCHANGED <<tbuf, tsock, daemonVars, fdVars, connVars, logVars>>

\* A new client starts at the end of the log; the flag is cleared after that.
SeekNewClient ==
    /\ \/ new_client /\ TelnetStep("new", "clear") /\ Log!SeekEnd("telnet")
       \/ ~new_client /\ TelnetStep("new", "read") /\ UNCHANGED logVars
    /\ UNCHANGED <<tbuf, tsock, daemonVars, fdVars, connVars, eventVars>>

ClearNewClient ==
    /\ TelnetStep("clear", "read")
    /\ new_client' = FALSE
    /\ UNCHANGED <<tbuf, tsock, daemonVars, active_client_fd, connVars, logVars, eventVars>>

\* Mutation of ReadLog: the cursor stays where it was.
ReadLogAgain ==
    /\ \/ /\ ReadStart("telnet") = received
          /\ TelnetStep("read", "wait_data")
          /\ UNCHANGED tbuf
       \/ /\ ReadStart("telnet") < received
          /\ TelnetStep("read", "recheck")
          /\ tbuf' = <<ReadStart("telnet"), ReadEnd("telnet")>>
    /\ UNCHANGED <<tsock, daemonVars, fdVars, connVars, logVars, eventVars>>

ReadLog ==
    /\ \/ /\ ReadStart("telnet") = received
          /\ TelnetStep("read", "wait_data")
          /\ UNCHANGED <<tbuf, logVars>>
       \/ /\ ReadStart("telnet") < received
          /\ TelnetStep("read", "recheck")
          /\ tbuf' = <<ReadStart("telnet"), ReadEnd("telnet")>>
          /\ Log!ReadTo("telnet", ReadEnd("telnet"))
    /\ UNCHANGED <<tsock, daemonVars, fdVars, connVars, eventVars>>

\* Mutation of WaitData: the events are reset before the wait.
WaitDataReset ==
    LET bits == {EVENT_TELNET_CLIENT, EVENT_CONSOLE_LOG_DATA}
    IN  /\ TelnetStep("wait_data", "check")
        /\ events' = events \ bits
        /\ waiting' = [waiting EXCEPT !["telnet"] = bits]
        /\ UNCHANGED <<tbuf, tsock, daemonVars, fdVars, connVars, logVars>>

WaitData ==
    /\ TelnetStep("wait_data", "check")
    /\ k_event_wait_safe("telnet", {EVENT_TELNET_CLIENT, EVENT_CONSOLE_LOG_DATA})
    /\ UNCHANGED <<tbuf, tsock, daemonVars, fdVars, connVars, logVars>>

RecheckClient ==
    /\ \/ active_client_fd = None /\ TelnetStep("recheck", "check")
       \/ active_client_fd # None /\ TelnetStep("recheck", "send")
    /\ UNCHANGED <<tbuf, tsock, daemonVars, fdVars, connVars, logVars, eventVars>>

\* send() takes the descriptor active_client_fd has now; it may block.
BeginSend ==
    /\ TelnetStep("send", "sending")
    /\ tsock' = active_client_fd
    /\ UNCHANGED <<tbuf, daemonVars, fdVars, connVars, logVars, eventVars>>

\* What send() did not take is dropped: the loop reads on at pos.
SendDone ==
    /\ TelnetStep("sending", "check")
    /\ tsock # None /\ conn[tsock] = "open"
    /\ \E upto \in (tbuf[1] + 1)..tbuf[2] :
          out' = [out EXCEPT ![tsock] = @ \cup tbuf[1]..(upto - 1)]
    /\ tsock' = None
    /\ UNCHANGED <<tbuf, daemonVars, fdVars, conn, joined, logVars, eventVars>>

\* The connection has ended, or send() fails for a reason of its own.
SendError ==
    /\ TelnetStep("sending", "fail")
    /\ tsock' = None
    /\ UNCHANGED <<tbuf, daemonVars, fdVars, connVars, logVars, eventVars>>

\* shutdown() of a descriptor: the connection behind it ends.
Shutdown(fd) ==
    conn' = [c \in TelnetClients |->
               IF c = fd /\ conn[c] \in {"open", "gone"} THEN "shut" ELSE conn[c]]

\* The error path names active_client_fd again, not the descriptor that failed.
ShutAfterSend ==
    /\ TelnetStep("fail", "drop")
    /\ Shutdown(active_client_fd)
    /\ UNCHANGED <<tbuf, tsock, daemonVars, fdVars, out, joined, logVars, eventVars>>

DropAfterSend ==
    /\ TelnetStep("drop", "check")
    /\ active_client_fd' = None
    /\ UNCHANGED <<tbuf, tsock, daemonVars, new_client, connVars, logVars, eventVars>>

SocketSendThread ==
    \/ CheckClient \/ WaitClient \/ SeekNewClient \/ ClearNewClient
    \/ ReadLog \/ WaitData \/ RecheckClient \/ BeginSend
    \/ SendDone \/ SendError \/ ShutAfterSend \/ DropAfterSend

-----------------------------------------------------------------------------
(* console_bridge_daemon_thread and handle_client.                         *)

DaemonStep(from, to) == dpc = from /\ dpc' = to

\* A failed accept() is retried and changes nothing.
Accept ==
    /\ DaemonStep("accept", "set")
    /\ \E c \in TelnetClients :
          /\ conn[c] = "queued"
          /\ client_fd' = c
          /\ conn' = [conn EXCEPT ![c] = "open"]
          /\ joined' = [joined EXCEPT ![c] = received]
    /\ UNCHANGED <<sendVars, fdVars, out, logVars, eventVars>>

SetActive ==
    /\ DaemonStep("set", "mark")
    /\ active_client_fd' = client_fd
    /\ UNCHANGED <<sendVars, client_fd, new_client, connVars, logVars, eventVars>>

MarkNew ==
    /\ DaemonStep("mark", "post")
    /\ new_client' = TRUE
    /\ UNCHANGED <<sendVars, client_fd, active_client_fd, connVars, logVars, eventVars>>

PostClient ==
    /\ DaemonStep("post", "loop")
    /\ k_event_post(EVENT_TELNET_CLIENT)
    /\ UNCHANGED <<sendVars, client_fd, fdVars, connVars, logVars>>

\* The sender may have ended the client meanwhile.
RecvLoop ==
    /\ \/ active_client_fd = None /\ DaemonStep("loop", "close")
       \/ active_client_fd # None /\ DaemonStep("loop", "arg")
    /\ UNCHANGED <<sendVars, client_fd, fdVars, connVars, logVars, eventVars>>

\* recv() takes the descriptor active_client_fd has now, and fails if that is -1.
BeginRecv ==
    /\ \/ active_client_fd = None /\ DaemonStep("arg", "fail")
       \/ active_client_fd # None /\ DaemonStep("arg", "recv")
    /\ UNCHANGED <<sendVars, client_fd, fdVars, connVars, logVars, eventVars>>

\* recv() returns keystrokes, which host_console_write passes to the UART.
RecvData ==
    /\ DaemonStep("recv", "loop")
    /\ conn[client_fd] = "open"
    /\ UNCHANGED <<sendVars, client_fd, fdVars, connVars, logVars, eventVars>>

RecvEnd ==
    /\ DaemonStep("recv", "fail")
    /\ conn[client_fd] # "open"
    /\ UNCHANGED <<sendVars, client_fd, fdVars, connVars, logVars, eventVars>>

ShutAfterRecv ==
    /\ DaemonStep("fail", "drop")
    /\ Shutdown(active_client_fd)
    /\ UNCHANGED <<sendVars, client_fd, fdVars, out, joined, logVars, eventVars>>

\* Mutation of DropAfterRecv: active_client_fd is left as it is.
KeepAfterRecv ==
    /\ DaemonStep("drop", "close")
    /\ UNCHANGED <<sendVars, client_fd, fdVars, connVars, logVars, eventVars>>

DropAfterRecv ==
    /\ DaemonStep("drop", "close")
    /\ active_client_fd' = None
    /\ UNCHANGED <<sendVars, client_fd, new_client, connVars, logVars, eventVars>>

\* Mutation of CloseClient: the descriptor is leaked.
LeakClient ==
    /\ DaemonStep("close", "accept")
    /\ client_fd' = None
    /\ UNCHANGED <<sendVars, fdVars, connVars, logVars, eventVars>>

CloseClient ==
    /\ DaemonStep("close", "accept")
    /\ conn' = [conn EXCEPT ![client_fd] = "closed"]
    /\ client_fd' = None
    /\ UNCHANGED <<sendVars, fdVars, out, joined, logVars, eventVars>>

\* The steps the daemon takes on its own: all but waiting for a keystroke.
DaemonRuns ==
    \/ Accept \/ SetActive \/ MarkNew \/ PostClient \/ RecvLoop \/ BeginRecv
    \/ RecvEnd \/ ShutAfterRecv \/ DropAfterRecv \/ CloseClient

DaemonThread == DaemonRuns \/ RecvData

-----------------------------------------------------------------------------
(* Clients: connect once, and leave (or lose the connection) at any time.  *)

TelnetConnect(c) ==
    /\ conn[c] = "idle"
    /\ conn' = [conn EXCEPT ![c] = "queued"]
    /\ UNCHANGED <<sendVars, daemonVars, fdVars, out, joined, logVars, eventVars>>

TelnetLeave(c) ==
    /\ conn[c] = "open"
    /\ conn' = [conn EXCEPT ![c] = "gone"]
    /\ UNCHANGED <<sendVars, daemonVars, fdVars, out, joined, logVars, eventVars>>

TelnetNext ==
    \/ SocketSendThread
    \/ DaemonThread
    \/ \E c \in TelnetClients : TelnetConnect(c) \/ TelnetLeave(c)

-----------------------------------------------------------------------------
(* The bridge on its own, as built without CONFIG_CONSOLE_BRIDGE_WS.       *)

tvars == <<logVars, eventVars, telnetVars>>

TelnetAloneInit == SharedInit /\ TelnetInit

TelnetSpec ==
    /\ TelnetAloneInit
    /\ [][TelnetNext \/ (UartCallback /\ UNCHANGED telnetVars)]_tvars

\* The threads run, and a peer takes what is sent to it or goes away; the host
\* and the clients do what they like.
TelnetFairSpec ==
    /\ TelnetSpec
    /\ WF_tvars(SocketSendThread)
    /\ WF_tvars(DaemonRuns)

-----------------------------------------------------------------------------
(* Properties.                                                             *)

\* No client gets a byte of the log twice or out of order, whoever was served
\* before it: what is about to be sent lies behind everything the client got
\* (socket_send_thread, console_bridge.c:34-77).
TelnetInOrder ==
    tpc = "sending" /\ tsock # None => \A p \in out[tsock] : p < tbuf[1]

\* active_client_fd never names a connection that was closed: the daemon closes
\* a descriptor only after both threads gave it up (console_bridge.c:99-117, 170).
ActiveNotClosed ==
    active_client_fd # None => conn[active_client_fd] # "closed"

\* While a client is connected the sender does not fall asleep on output it has
\* not read (the read, wait and post of console_bridge.c:56-65).
TelnetCatchesUp ==
    []<>(active_client_fd = None \/ pos["telnet"] = received)

\* A connection that ended on either side is closed, and the daemon accepts the
\* next client (console_bridge.c:99-117, 156-172).
TelnetCloses ==
    \A c \in TelnetClients : conn[c] \in {"gone", "shut"} ~> conn[c] = "closed"

-----------------------------------------------------------------------------
(* What the code does not give; README.md says how each one fails.         *)

\* The comment at console_bridge.c:49-50: a telnet client gets only output that
\* is subsequent to its connection.
TelnetOnlySubsequent ==
    \A c \in TelnetClients : \A p \in out[c] : p >= joined[c]

\* A connected client is not forgotten: the daemon does not sit in recv() on a
\* healthy connection that the sender no longer knows of.
TelnetServed ==
    []<>~(dpc = "recv" /\ conn[client_fd] = "open" /\ active_client_fd = None)

=============================================================================
