-------------------------- MODULE HostConsoleProofs -------------------------
(***************************************************************************)
(* Proofs about the telnet bridge (ConsoleBridge) and the websocket bridge *)
(* (ConsoleBridgeWs), each on its own, and about the host console          *)
(* (HostConsole), in which both read the same log and consume the same     *)
(* events: what each bridge guarantees on its own survives the other one,  *)
(* for every number of clients and any amount of output.                   *)
(***************************************************************************)
EXTENDS HostConsole, TLAPS

-----------------------------------------------------------------------------
(* The telnet bridge on its own.                                           *)

\* What the logger's interrupt does here is a step of the bridge too.
TelnetStepOrRx == TelnetNext \/ (UartCallback /\ UNCHANGED telnetVars)

-----------------------------------------------------------------------------
(* Descriptors.                                                            *)

\* Only the daemon makes a descriptor active, and the one it serves; it closes
\* it only when none is active.  The sender can only take it away.
DescriptorInv ==
    /\ client_fd \in TelnetClients \cup {None}
    /\ conn \in [TelnetClients -> {"idle", "queued", "open", "gone", "shut", "closed"}]
    /\ client_fd = None <=> dpc = "accept"
    /\ client_fd # None => conn[client_fd] # "closed"
    /\ active_client_fd \in {None, client_fd}
    /\ dpc \in {"accept", "set", "close"} => active_client_fd = None

\* Every step of the two threads and of a client keeps it (console_bridge.c:34-172).
LEMMA DescriptorStep == DescriptorInv /\ TelnetNext => DescriptorInv'
  <1> USE TelnetAssumption
  <1> SUFFICES ASSUME DescriptorInv, TelnetNext
               PROVE  DescriptorInv'
    OBVIOUS
  <1> USE DEF DescriptorInv
  <1>1. ASSUME UNCHANGED <<dpc, client_fd, active_client_fd, conn>>
        PROVE  DescriptorInv'
    BY <1>1
  <1>2. CASE CheckClient \/ WaitClient \/ SeekNewClient \/ ClearNewClient \/ ReadLog
             \/ WaitData \/ RecheckClient \/ BeginSend \/ SendDone \/ SendError
    BY <1>1, <1>2 DEF CheckClient, WaitClient, SeekNewClient, ClearNewClient, ReadLog,
           WaitData, RecheckClient, BeginSend, SendDone, SendError,
           daemonVars, fdVars, connVars
  <1>3. CASE ShutAfterSend \/ ShutAfterRecv
    <2>1. Shutdown(active_client_fd) /\ UNCHANGED <<client_fd, active_client_fd>>
          /\ (dpc' = dpc \/ (dpc = "fail" /\ dpc' = "drop"))
      BY <1>3 DEF ShutAfterSend, ShutAfterRecv, DaemonStep, daemonVars, fdVars
    <2>2. \A c \in TelnetClients : conn'[c] = "closed" => conn[c] = "closed"
      BY <2>1 DEF Shutdown
    <2>3. conn' \in [TelnetClients -> {"idle", "queued", "open", "gone", "shut", "closed"}]
      BY <2>1 DEF Shutdown
    <2> QED
      BY <2>1, <2>2, <2>3
  <1>4. CASE DropAfterSend
    BY <1>4 DEF DropAfterSend, daemonVars, connVars
  <1>5. CASE Accept
    BY <1>5 DEF Accept, DaemonStep, fdVars
  <1>6. CASE SetActive
    BY <1>6 DEF SetActive, DaemonStep, connVars
  <1>7. CASE MarkNew \/ PostClient \/ RecvLoop \/ BeginRecv \/ RecvData \/ RecvEnd
    BY <1>7 DEF MarkNew, PostClient, RecvLoop, BeginRecv, RecvData, RecvEnd, DaemonStep,
                fdVars, connVars
  <1>8. CASE DropAfterRecv
    BY <1>8 DEF DropAfterRecv, DaemonStep, connVars
  <1>9. CASE CloseClient
    BY <1>9 DEF CloseClient, DaemonStep, fdVars
  <1>10. ASSUME NEW c \in TelnetClients, TelnetConnect(c) \/ TelnetLeave(c)
         PROVE  DescriptorInv'
    BY <1>10 DEF TelnetConnect, TelnetLeave, daemonVars, fdVars
  <1> QED
    BY <1>2, <1>3, <1>4, <1>5, <1>6, <1>7, <1>8, <1>9, <1>10
       DEF TelnetNext, SocketSendThread, DaemonThread, DaemonRuns

\* A step that leaves the bridge alone keeps it.
LEMMA DescriptorKept == DescriptorInv /\ UNCHANGED telnetVars => DescriptorInv'
  BY DEF DescriptorInv, telnetVars, daemonVars, fdVars, connVars

\* No client is served at the start (console_bridge.c:34-172).
LEMMA DescriptorInit == TelnetInit => DescriptorInv
  BY TelnetAssumption DEF TelnetInit, DescriptorInv

\* What the lemmas above say of one step, for every behaviour of the bridge.
LEMMA DescriptorInductive == TelnetSpec => []DescriptorInv
  <1>1. DescriptorInv /\ [TelnetStepOrRx]_tvars => DescriptorInv'
    BY DescriptorStep, DescriptorKept DEF TelnetStepOrRx, tvars
  <1> QED
    BY <1>1, DescriptorInit, PTL DEF TelnetSpec, TelnetAloneInit, TelnetStepOrRx

\* active_client_fd never names a closed descriptor, however the sender and the
\* daemon interleave when a client ends (console_bridge.c:66-76, 99-117, 156-172).
THEOREM ActiveNotClosedHolds == TelnetSpec => []ActiveNotClosed
  <1>1. DescriptorInv => ActiveNotClosed
    BY DEF DescriptorInv, ActiveNotClosed
  <1> QED
    BY <1>1, DescriptorInductive, PTL

\* A connection that was accepted and is not closed is the one the daemon serves.
OnlyServedOpen ==
    \A c \in TelnetClients : conn[c] \in {"open", "gone", "shut"} => client_fd = c

\* Every step of the two threads and of a client keeps it: the sender may shut the
\* connection down and forget it, but only the daemon lets go of a descriptor, and
\* closes it (console_bridge.c:67-76, 99-117, 156-172).
LEMMA OpenStep == DescriptorInv /\ OnlyServedOpen /\ TelnetNext => OnlyServedOpen'
  <1> SUFFICES ASSUME DescriptorInv, OnlyServedOpen, TelnetNext, NEW c \in TelnetClients,
                      conn'[c] \in {"open", "gone", "shut"}
               PROVE  client_fd' = c
    BY DEF OnlyServedOpen
  <1>0. conn \in [TelnetClients -> {"idle", "queued", "open", "gone", "shut", "closed"}]
    BY DEF DescriptorInv
  <1>1. ASSUME UNCHANGED <<conn, client_fd>> PROVE client_fd' = c
    BY <1>1 DEF OnlyServedOpen
  <1>2. CASE CheckClient \/ WaitClient \/ SeekNewClient \/ ClearNewClient \/ ReadLog
             \/ WaitData \/ RecheckClient \/ BeginSend \/ SendDone \/ SendError \/ DropAfterSend
    BY <1>1, <1>2 DEF CheckClient, WaitClient, SeekNewClient, ClearNewClient, ReadLog, WaitData,
           RecheckClient, BeginSend, SendDone, SendError, DropAfterSend, daemonVars, connVars
  <1>3. CASE ShutAfterSend \/ ShutAfterRecv
    <2>1. client_fd' = client_fd /\ Shutdown(active_client_fd)
      BY <1>3 DEF ShutAfterSend, ShutAfterRecv, daemonVars
    <2>2. conn[c] \in {"open", "gone", "shut"}
      BY <2>1 DEF Shutdown
    <2> QED
      BY <2>1, <2>2 DEF OnlyServedOpen
  <1>4. CASE Accept
    <2>1. dpc = "accept" /\ client_fd = None
      BY <1>4 DEF Accept, DaemonStep, DescriptorInv
    <2>2. PICK d \in TelnetClients : client_fd' = d /\ conn' = [conn EXCEPT ![d] = "open"]
      BY <1>4 DEF Accept
    <2>3. c # d => conn[c] \in {"open", "gone", "shut"}
      BY <1>0, <2>2
    <2> QED
      BY <2>1, <2>2, <2>3, TelnetAssumption DEF OnlyServedOpen
  <1>5. CASE SetActive \/ MarkNew \/ PostClient \/ RecvLoop \/ BeginRecv \/ RecvData \/ RecvEnd
             \/ DropAfterRecv
    BY <1>1, <1>5 DEF SetActive, MarkNew, PostClient, RecvLoop, BeginRecv, RecvData, RecvEnd,
           DropAfterRecv, connVars
  <1>6. CASE CloseClient
    <2>1. conn' = [conn EXCEPT ![client_fd] = "closed"]
      BY <1>6 DEF CloseClient
    <2>2. c # client_fd /\ conn'[c] = conn[c]
      BY <1>0, <2>1
    <2> QED
      BY <2>2 DEF OnlyServedOpen
  <1>7. ASSUME NEW d \in TelnetClients, TelnetConnect(d) \/ TelnetLeave(d) PROVE client_fd' = c
    <2>1. /\ client_fd' = client_fd
          /\ \/ conn' = [conn EXCEPT ![d] = "queued"]
             \/ conn[d] = "open" /\ conn' = [conn EXCEPT ![d] = "gone"]
      BY <1>7 DEF TelnetConnect, TelnetLeave, daemonVars
    <2>2. conn[c] \in {"open", "gone", "shut"}
      BY <1>0, <2>1
    <2> QED
      BY <2>1, <2>2 DEF OnlyServedOpen
  <1> QED
    BY <1>2, <1>3, <1>4, <1>5, <1>6, <1>7
       DEF TelnetNext, SocketSendThread, DaemonThread, DaemonRuns

\* The telnet bridge never leaks a connection: whichever thread notices its end first,
\* a descriptor the daemon has let go of is closed (console_bridge.c:79-172).
THEOREM TelnetNoLeak == TelnetSpec => []OnlyServedOpen
  <1>1. TelnetInit => OnlyServedOpen
    BY DEF TelnetInit, OnlyServedOpen
  <1>2. OnlyServedOpen /\ UNCHANGED telnetVars => OnlyServedOpen'
    BY DEF OnlyServedOpen, telnetVars, daemonVars, connVars
  <1>3. DescriptorInv /\ OnlyServedOpen /\ [TelnetStepOrRx]_tvars => OnlyServedOpen'
    BY <1>2, OpenStep DEF TelnetStepOrRx, tvars
  <1> QED
    BY <1>1, <1>3, DescriptorInductive, PTL DEF TelnetSpec, TelnetAloneInit, TelnetStepOrRx

-----------------------------------------------------------------------------
(* The log's cursors.                                                      *)

Telnet == "telnet"
Ws == "ws"

\* No cursor is ahead of what was received, and the log has not given up the last
\* bytes.
CursorInv ==
    /\ received \in Nat /\ oldest \in Nat /\ pos \in [Readers -> Nat]
    /\ oldest > 0 => oldest <= received - Keep
    /\ \A r \in Readers : pos[r] <= received

\* host_console_read starts at the cursor or where the log begins, and returns what
\* is left from there or a full buffer; it returns nothing only to a sender that
\* has read everything (console_logger.c:143-182).
LEMMA ReadEndFacts ==
    ASSUME NEW r \in Readers, CursorInv
    PROVE  /\ ReadStart(r) \in Nat /\ ReadStart(r) \in {pos[r], oldest}
           /\ pos[r] <= ReadStart(r) /\ ReadStart(r) <= received
           /\ ReadStart(r) = received => pos[r] = received
           /\ ReadStart(r) < received =>
                 /\ ReadEnd(r) \in Nat
                 /\ ReadStart(r) < ReadEnd(r) /\ ReadEnd(r) <= received
  <1> DEFINE b == ReadStart(r)
             e == b + SendBuf
  <1>1. /\ b \in Nat /\ b \in {pos[r], oldest}
        /\ pos[r] <= b /\ b <= received
        /\ b = received => pos[r] = received
    BY SharedAssumption DEF CursorInv, ReadStart, Log!From
  <1>2. ReadEnd(r) = Min({received, e})
    BY DEF ReadEnd
  <1> HIDE DEF b
  <1>3. e \in Nat /\ b < e /\ received \in Nat
    BY <1>1, SharedAssumption DEF CursorInv
  <1> HIDE DEF e
  <1>4. Min({received, e}) \in {received, e} /\ Min({received, e}) <= received
    <2>1. \E x \in {received, e} : \A y \in {received, e} : x <= y
      BY <1>3
    <2> QED
      BY <2>1 DEF Min
  <1>5. b < received => ReadEnd(r) \in Nat /\ b < ReadEnd(r) /\ ReadEnd(r) <= received
    BY <1>1, <1>2, <1>3, <1>4
  <1> QED
    BY <1>1, <1>5 DEF b

\* The telnet bridge moves only its own cursor (console_bridge.c:47-56).
LEMMA TelnetMoves ==
    ASSUME TelnetNext
    PROVE  /\ received' = received /\ oldest' = oldest
           /\ \/ pos' = pos
              \/ pos' = [pos EXCEPT !["telnet"] = received]
              \/ ReadStart("telnet") < received /\ pos' = [pos EXCEPT !["telnet"] = ReadEnd("telnet")]
  <1>1. CASE SeekNewClient
    BY <1>1 DEF SeekNewClient, Log!SeekEnd, logVars
  <1>2. CASE ReadLog
    BY <1>2 DEF ReadLog, Log!ReadTo, logVars
  <1>3. CASE ~SeekNewClient /\ ~ReadLog
    BY <1>3 DEF TelnetNext, SocketSendThread, DaemonThread, DaemonRuns, CheckClient, WaitClient,
         ClearNewClient, WaitData, RecheckClient, BeginSend, SendDone, SendError, ShutAfterSend,
         DropAfterSend, Accept, SetActive, MarkNew, PostClient, RecvLoop, BeginRecv, RecvEnd,
         RecvData,
         ShutAfterRecv, DropAfterRecv, CloseClient, TelnetConnect, TelnetLeave, logVars
  <1> QED
    BY <1>1, <1>2, <1>3

\* So does the websocket bridge (console_bridge_ws.c:134-139).
LEMMA WsMoves ==
    ASSUME WsNext
    PROVE  /\ received' = received /\ oldest' = oldest
           /\ \/ pos' = pos
              \/ pos' = [pos EXCEPT !["ws"] = 0]
              \/ ReadStart("ws") < received /\ pos' = [pos EXCEPT !["ws"] = ReadEnd("ws")]
  <1>1. CASE RewindNewClient
    BY <1>1 DEF RewindNewClient
  <1>2. CASE ReadWsLog
    BY <1>2 DEF ReadWsLog, Log!ReadTo, logVars
  <1>3. CASE ~RewindNewClient /\ ~ReadWsLog
    BY <1>3 DEF WsNext, WsSendThread, HttpThread, HttpRuns, ServiceThread, CheckWsClient,
         WaitWsClient, WaitWsData, Again, ws_send, BeginSendMsg, SendMsgDone, SendMsgError,
         EndAgain, Sleep, ws_end_client_connection, EndService, EndSocket, EndFd, AuthFails,
         SetWsFd, MarkNewWs, Register, PostWsClient, AuthDone, Upgrade, ws_server_cb, ws_recv,
         WsLeave, logVars
  <1> QED
    BY <1>1, <1>2, <1>3

\* Neither bridge puts a cursor ahead of what was received (console_logger.c:208-224).
LEMMA CursorTelnet ==
    ASSUME Telnet \in Readers
    PROVE  CursorInv /\ TelnetNext => CursorInv'
  BY TelnetMoves, ReadEndFacts, SharedAssumption DEF CursorInv, Telnet

\* The same of the websocket bridge.
LEMMA CursorWs ==
    ASSUME Ws \in Readers
    PROVE  CursorInv /\ WsNext => CursorInv'
  BY WsMoves, ReadEndFacts, SharedAssumption DEF CursorInv, Ws

\* New output, and what it overwrites, moves no cursor and leaves the last bytes in
\* the log (console_logger.c:69-94).
LEMMA CursorRx ==
    ASSUME CursorInv, UartCallback
    PROVE  /\ CursorInv' /\ pos' = pos
           /\ oldest' >= oldest /\ received' >= received
  <1>1. CASE uart_rx_ready
    <2>1. PICK n \in 1..(MaxBytes - received) : Log!Append(n)
      BY <1>1 DEF uart_rx_ready, Report
    <2>2. n \in Nat
      BY <2>1, SharedAssumption DEF CursorInv
    <2> QED
      BY <2>1, <2>2, SharedAssumption DEF Log!Append, Log!Kept, CursorInv
  <1>2. CASE uart_rx_allocate
    BY <1>2, SharedAssumption DEF uart_rx_allocate, Log!Retire, Log!Kept, CursorInv
  <1> QED
    BY <1>1, <1>2 DEF UartCallback

\* Nothing was received at the start.
LEMMA CursorInit == SharedInit => CursorInv
  BY DEF SharedInit, Log!Init, CursorInv

-----------------------------------------------------------------------------
(* Wake-ups.                                                               *)

\* The sender blocks only in its two waits, which leave it at the head of its
\* loop.  Output that arrives after it found the log empty leaves the event set
\* until it waits, and output that arrives later wakes it.
WakeInv ==
    /\ waiting \in [Readers -> SUBSET AllEvents]
    /\ CursorInv
    /\ Blocked(Telnet) => tpc = "check"
    /\ tpc = "wait_data" /\ pos[Telnet] < received => EVENT_CONSOLE_LOG_DATA \in events
    /\ EVENT_CONSOLE_LOG_DATA \in waiting[Telnet] => pos[Telnet] = received

\* WakeInv holds while telnet is the only reader (console_bridge.c:34-77).
LEMMA WakeInductive ==
    ASSUME Readers = {Telnet}
    PROVE  TelnetSpec => []WakeInv
  <1> USE SharedAssumption
  <1>1. SharedInit /\ TelnetInit => WakeInv
    BY CursorInit DEF SharedInit, TelnetInit, WakeInv, EventsInit, Log!Init, Telnet, Blocked,
         AllEvents
  <1>2. WakeInv /\ [TelnetStepOrRx]_tvars => WakeInv'
    <2> SUFFICES ASSUME WakeInv, [TelnetStepOrRx]_tvars
                 PROVE  WakeInv'
      OBVIOUS
    <2>0. Telnet \in Readers /\ CursorInv
      BY DEF WakeInv
    <2>n. received \in Nat /\ pos[Telnet] \in Nat /\ pos[Telnet] <= received
      BY <2>0 DEF CursorInv
    <2>c. CursorInv'
      <3>1. CASE TelnetNext
        BY <2>0, <3>1, CursorTelnet
      <3>2. CASE UartCallback
        BY <2>0, <3>2, CursorRx
      <3>3. CASE UNCHANGED tvars
        BY <2>0, <3>3 DEF CursorInv, tvars, logVars
      <3> QED
        BY <3>1, <3>2, <3>3 DEF TelnetStepOrRx
    <2>1. ASSUME UNCHANGED <<received, pos, eventVars>>,
                 tpc' = tpc \/ (tpc' # "wait_data" /\ ~Blocked(Telnet))
          PROVE  WakeInv'
      BY <2>c, <2>1 DEF WakeInv, eventVars, Blocked
    <2>2. CASE CheckClient \/ ClearNewClient \/ RecheckClient \/ BeginSend
               \/ SendDone \/ SendError \/ ShutAfterSend \/ DropAfterSend
      BY <2>1, <2>2 DEF CheckClient, ClearNewClient, RecheckClient, BeginSend, SendDone,
             SendError, ShutAfterSend, DropAfterSend, TelnetStep, Telnet, logVars
    <2>3. CASE WaitClient
      <3>1. /\ UNCHANGED logVars /\ tpc' = "check" /\ tpc = "wait_client"
            /\ \/ UNCHANGED waiting
               \/ waiting' = [waiting EXCEPT ![Telnet] = {EVENT_TELNET_CLIENT}]
        BY <2>3 DEF WaitClient, TelnetStep, k_event_wait_safe, Telnet
      <3> QED
        BY <3>1, <2>0, <2>c DEF WakeInv, logVars, Blocked, AllEvents, EVENT_TELNET_CLIENT,
                     EVENT_CONSOLE_LOG_DATA
    <2>4. CASE SeekNewClient
      <3>1. /\ UNCHANGED eventVars /\ received' = received /\ ~Blocked(Telnet)
            /\ tpc' \in {"clear", "read"}
            /\ pos' = pos \/ pos' = [pos EXCEPT ![Telnet] = received]
        BY <2>4 DEF SeekNewClient, TelnetStep, Log!SeekEnd, logVars, Telnet
      <3> QED
        BY <3>1, <2>0, <2>c DEF WakeInv, CursorInv, eventVars, Blocked
    <2>5. CASE ReadLog
      <3>1. CASE ReadStart(Telnet) = received /\ UNCHANGED logVars
        <4>1. pos[Telnet] = received
          BY <3>1, <2>0, ReadEndFacts
        <4>2. UNCHANGED <<events, waiting, received, pos>> /\ ~Blocked(Telnet)
          BY <2>5, <3>1 DEF ReadLog, TelnetStep, logVars, eventVars, Telnet
        <4> QED
          BY <4>1, <4>2, <2>n, <2>c DEF WakeInv, Blocked
      <3>2. CASE ReadStart(Telnet) < received /\ Log!ReadTo("telnet", ReadEnd("telnet"))
        <4>1. /\ UNCHANGED eventVars /\ ~Blocked(Telnet) /\ tpc' = "recheck"
          BY <2>5, <3>2, ReadEndFacts, <2>0 DEF ReadLog, TelnetStep, Telnet
        <4> QED
          BY <4>1, <2>c DEF WakeInv, eventVars, Blocked
      <3> QED
        BY <2>5, <3>1, <3>2 DEF ReadLog, TelnetStep, Telnet
    <2>6. CASE WaitData
      <3>1. /\ UNCHANGED logVars /\ tpc' = "check" /\ tpc = "wait_data"
            /\ \/ UNCHANGED waiting
               \/ /\ EVENT_CONSOLE_LOG_DATA \notin events
                  /\ waiting' = [waiting EXCEPT
                        ![Telnet] = {EVENT_TELNET_CLIENT, EVENT_CONSOLE_LOG_DATA}]
        BY <2>6 DEF WaitData, TelnetStep, k_event_wait_safe, Telnet
      <3>2. UNCHANGED <<received, pos>> /\ waiting' \in [Readers -> SUBSET AllEvents]
        BY <3>1, <2>0 DEF WakeInv, logVars, AllEvents
      <3> QED
        BY <3>1, <3>2, <2>0, <2>n, <2>c DEF WakeInv, Blocked
    <2>7. CASE PostClient
      <3>1. /\ UNCHANGED <<logVars, tpc>>
            /\ EVENT_CONSOLE_LOG_DATA \in events => EVENT_CONSOLE_LOG_DATA \in events'
            /\ waiting' \in [Readers -> SUBSET AllEvents]
            /\ waiting'[Telnet] \in {waiting[Telnet], {}}
        BY <2>7, <2>0 DEF PostClient, k_event_post, sendVars, WakeInv,
              EVENT_CONSOLE_LOG_DATA, EVENT_TELNET_CLIENT
      <3> QED
        BY <3>1, <2>c DEF WakeInv, logVars, Blocked
    <2>8. CASE Accept \/ SetActive \/ MarkNew \/ RecvLoop \/ BeginRecv \/ RecvData \/ RecvEnd
               \/ ShutAfterRecv \/ DropAfterRecv \/ CloseClient
      BY <2>1, <2>8 DEF Accept, SetActive, MarkNew, RecvLoop, BeginRecv, RecvData, RecvEnd,
             ShutAfterRecv, DropAfterRecv, CloseClient, sendVars, logVars
    <2>9. ASSUME NEW c \in TelnetClients, TelnetConnect(c) \/ TelnetLeave(c)
          PROVE  WakeInv'
      BY <2>1, <2>9 DEF TelnetConnect, TelnetLeave, sendVars, logVars
    <2>10. CASE uart_rx_ready /\ UNCHANGED telnetVars
      <3>1. UNCHANGED <<pos, tpc>>
        BY <2>0, <2>10, CursorRx DEF UartCallback, telnetVars, sendVars
      <3>2. /\ waiting' \in [Readers -> SUBSET AllEvents]
            /\ EVENT_CONSOLE_LOG_DATA \notin waiting'[Telnet]
            /\ waiting'[Telnet] \in {waiting[Telnet], {}}
            /\ waiting[Telnet] = {} => EVENT_CONSOLE_LOG_DATA \in events'
        BY <2>10, <2>0 DEF uart_rx_ready, k_event_post, WakeInv
      <3> QED
        BY <3>1, <3>2, <2>0, <2>c DEF WakeInv, Blocked
    <2>12. CASE uart_rx_allocate /\ UNCHANGED telnetVars
      BY <2>1, <2>12 DEF uart_rx_allocate, Log!Retire, telnetVars, sendVars
    <2>11. CASE UNCHANGED tvars
      BY <2>1, <2>11 DEF tvars, telnetVars, sendVars, logVars
    <2> QED
      BY <2>2, <2>3, <2>4, <2>5, <2>6, <2>7, <2>8, <2>9, <2>10, <2>11, <2>12
         DEF TelnetStepOrRx, UartCallback, TelnetNext, SocketSendThread, DaemonThread, DaemonRuns
  <1> QED
    BY <1>1, <1>2, PTL DEF TelnetSpec, TelnetAloneInit, TelnetStepOrRx

\* The only sender is never asleep on output it has not read, wherever between
\* its read and its wait the interrupt handler reports new output
\* (console_bridge.c:56-65 against console_logger.c:69-78).
THEOREM NoLostWakeup ==
    ASSUME Readers = {Telnet}
    PROVE  TelnetSpec => []SomeSenderAwake
  <1>1. WakeInv => SomeSenderAwake
    BY DEF WakeInv, SomeSenderAwake
  <1> QED
    BY <1>1, WakeInductive, PTL

-----------------------------------------------------------------------------
(* Order.                                                                  *)

\* Whatever any client got lies before the cursor, which only moves forward,
\* and while a read is on its way to a client it lies before that read.
OrderInv ==
    /\ tsock \in TelnetClients \cup {None}
    /\ out \in [TelnetClients -> SUBSET Nat]
    /\ tbuf \in Nat \X Nat
    /\ tbuf[2] <= pos[Telnet]
    /\ \A c \in TelnetClients : \A p \in out[c] : p < pos[Telnet]
    /\ tpc \in {"recheck", "send", "sending"} =>
          \A c \in TelnetClients : \A p \in out[c] : p < tbuf[1]

\* Every step of the two threads and of a client keeps that order, whoever else
\* reads the log (console_bridge.c:34-77, 79-117).
LEMMA OrderStep ==
    ASSUME Telnet \in Readers
    PROVE  CursorInv /\ DescriptorInv /\ OrderInv /\ TelnetNext => OrderInv'
  <1> USE SharedAssumption, TelnetAssumption
  <1> SUFFICES ASSUME CursorInv, DescriptorInv, OrderInv, TelnetNext
               PROVE  OrderInv'
    OBVIOUS
  <1>0. received \in Nat /\ pos[Telnet] \in Nat /\ pos[Telnet] <= received
    BY DEF CursorInv
  <1>a. /\ ReadStart(Telnet) \in Nat /\ pos[Telnet] <= ReadStart(Telnet)
        /\ ReadStart(Telnet) < received =>
              ReadEnd(Telnet) \in Nat /\ ReadStart(Telnet) < ReadEnd(Telnet)
    BY ReadEndFacts
  <1>1. ASSUME UNCHANGED <<pos, out, tbuf, tsock>>,
               \/ tpc' = tpc
               \/ tpc' \notin {"recheck", "send", "sending"}
               \/ tpc \in {"recheck", "send", "sending"}
        PROVE  OrderInv'
    BY <1>1 DEF OrderInv
  <1>2. CASE WaitClient \/ ClearNewClient \/ WaitData \/ RecheckClient
             \/ ShutAfterSend \/ DropAfterSend
    BY <1>1, <1>2 DEF WaitClient, ClearNewClient, WaitData, RecheckClient,
           ShutAfterSend, DropAfterSend, TelnetStep, logVars, connVars
  <1>3. CASE CheckClient
    BY <1>3, <1>0 DEF CheckClient, TelnetStep, OrderInv, logVars, connVars
  <1>4. CASE SeekNewClient
    <2>1. /\ UNCHANGED <<out, tbuf, tsock>>
          /\ tpc' \in {"clear", "read"}
          /\ pos' = pos \/ pos' = [pos EXCEPT ![Telnet] = received]
      BY <1>4 DEF SeekNewClient, TelnetStep, Log!SeekEnd, logVars, connVars, Telnet
    <2>2. pos'[Telnet] \in Nat /\ pos[Telnet] <= pos'[Telnet]
      BY <2>1, <1>0 DEF CursorInv
    <2> QED
      BY <2>1, <2>2, <1>0 DEF OrderInv
  <1>5. CASE ReadLog
    <2>1. CASE UNCHANGED <<tbuf, logVars>> /\ tpc' = "wait_data"
      BY <1>1, <1>5, <2>1 DEF ReadLog, connVars, logVars
    <2>2. CASE /\ ReadStart(Telnet) < received /\ tpc' = "recheck"
               /\ tbuf' = <<ReadStart(Telnet), ReadEnd(Telnet)>>
               /\ Log!ReadTo(Telnet, ReadEnd(Telnet))
      <3>1. ReadEnd(Telnet) \in Nat /\ ReadStart(Telnet) < ReadEnd(Telnet)
        BY <2>2, <1>a
      <3>2. pos'[Telnet] = ReadEnd(Telnet)
        BY <2>2 DEF Log!ReadTo, CursorInv
      <3>3. UNCHANGED <<out, tsock>>
        BY <1>5 DEF ReadLog, connVars
      <3> QED
        BY <2>2, <3>1, <3>2, <3>3, <1>0, <1>a DEF OrderInv
    <2> QED
      BY <1>5, <2>1, <2>2 DEF ReadLog, TelnetStep, Telnet
  <1>6. CASE BeginSend
    BY <1>6 DEF BeginSend, TelnetStep, OrderInv, DescriptorInv, connVars, logVars
  <1>7. CASE SendDone
    <2>1. /\ tpc' = "check" /\ tsock' = None /\ UNCHANGED <<tbuf, pos>>
          /\ tsock \in TelnetClients
          /\ \E upto \in (tbuf[1] + 1)..tbuf[2] :
                out' = [out EXCEPT ![tsock] = @ \cup tbuf[1]..(upto - 1)]
      BY <1>7 DEF SendDone, TelnetStep, OrderInv, logVars
    <2>2. PICK upto \in (tbuf[1] + 1)..tbuf[2] :
                out' = [out EXCEPT ![tsock] = @ \cup tbuf[1]..(upto - 1)]
      BY <2>1
    <2>3. tbuf[1] \in Nat /\ tbuf[2] \in Nat /\ upto \in Nat /\ upto <= pos[Telnet]
      BY <2>2, <1>0 DEF OrderInv
    <2>4. \A p \in tbuf[1]..(upto - 1) : p \in Nat /\ p < pos[Telnet]
      BY <2>3, <1>0
    <2> QED
      BY <2>1, <2>2, <2>4 DEF OrderInv
  <1>8. CASE SendError
    BY <1>8 DEF SendError, TelnetStep, OrderInv, connVars, logVars
  <1>9. CASE \/ Accept \/ SetActive \/ MarkNew \/ PostClient \/ RecvLoop \/ BeginRecv \/ RecvData
             \/ RecvEnd \/ ShutAfterRecv \/ DropAfterRecv \/ CloseClient
    BY <1>1, <1>9 DEF Accept, SetActive, MarkNew, PostClient, RecvLoop, BeginRecv, RecvData,
                      RecvEnd,
           ShutAfterRecv, DropAfterRecv, CloseClient, sendVars, connVars, logVars
  <1>10. ASSUME NEW c \in TelnetClients, TelnetConnect(c) \/ TelnetLeave(c)
         PROVE  OrderInv'
    BY <1>1, <1>10 DEF TelnetConnect, TelnetLeave, sendVars, logVars
  <1> QED
    BY <1>2, <1>3, <1>4, <1>5, <1>6, <1>7, <1>8, <1>9, <1>10
       DEF TelnetNext, SocketSendThread, DaemonThread, DaemonRuns

\* So does a step that leaves the bridge and its cursor alone.
LEMMA OrderKept ==
    OrderInv /\ UNCHANGED telnetVars /\ pos'[Telnet] = pos[Telnet] => OrderInv'
  BY DEF OrderInv, telnetVars, sendVars, connVars

\* Nothing was sent at the start (console_bridge.c:34-77).
LEMMA OrderInit ==
    ASSUME Telnet \in Readers
    PROVE  SharedInit /\ TelnetInit => OrderInv
  BY DEF SharedInit, TelnetInit, OrderInv, Log!Init

\* What the lemmas above say of one step, for every behaviour of the bridge.
LEMMA OrderInductive ==
    ASSUME Readers = {Telnet}
    PROVE  TelnetSpec => []OrderInv
  <1>1. Telnet \in Readers
    OBVIOUS
  <1>2. WakeInv => CursorInv
    BY DEF WakeInv
  <1>3. CursorInv /\ DescriptorInv /\ OrderInv /\ [TelnetStepOrRx]_tvars => OrderInv'
    <2>1. CursorInv /\ UartCallback => pos' = pos
      BY CursorRx
    <2> QED
      BY <1>1, <2>1, OrderStep, OrderKept DEF TelnetStepOrRx, tvars, logVars
  <1> QED
    BY <1>1, <1>2, <1>3, OrderInit, WakeInductive, DescriptorInductive, PTL
       DEF TelnetSpec, TelnetAloneInit, TelnetStepOrRx

\* No client gets a byte twice or out of order, whoever the sender served before
\* it and wherever it was when the client changed (console_bridge.c:34-77).
THEOREM TelnetInOrderHolds ==
    ASSUME Readers = {Telnet}
    PROVE  TelnetSpec => []TelnetInOrder
  <1>1. OrderInv => TelnetInOrder
    BY DEF OrderInv, TelnetInOrder
  <1> QED
    BY <1>1, OrderInductive, PTL

-----------------------------------------------------------------------------
(* The websocket bridge on its own.                                        *)

\* What the logger's interrupt does here is a step of the bridge too.
WsStepOrRx == WsNext \/ (UartCallback /\ UNCHANGED wsVars)

-----------------------------------------------------------------------------
(* The three threads.                                                      *)

Ending == {"end_svc", "end_sock", "end_fd"}

\* The threads end a connection with the same steps and go on where they said.
ThreadInv ==
    /\ wpc = [t \in WsThreads |-> wpc[t]] /\ after = [t \in WsThreads |-> after[t]]
    /\ wpc["http"] \in Ending => after["http"] = "set"
    /\ wpc["ws"] \in Ending => after["ws"] \in {"check", "sleep", "end_again"}

\* A descriptor names a client that was accepted once.  The client whose
\* credentials are checked has got nothing yet and nobody sends to it; and when
\* fds[0].fd changes under a send, it names a client that has got nothing.
ConnInv ==
    /\ wconn \in [WsClients -> {"idle", "open", "gone", "closed"}]
    /\ wout \in [WsClients -> Seq(Nat)]
    /\ ws_fd \in WsClients \cup {None}
    /\ wsock \in WsClients \cup {None}
    /\ hsock \in WsClients \cup {None}
    /\ \A c \in WsClients : wconn[c] # "open" => wout[c] = <<>>
    /\ \A c \in WsClients : wconn[c] = "idle" => c # ws_fd /\ c # wsock /\ c # hsock
    /\ wpc["http"] \in {"auth", "set"} \cup Ending =>
          hsock \in WsClients /\ wout[hsock] = <<>> /\ hsock # ws_fd /\ hsock # wsock
    /\ wpc["ws"] = "sending" /\ ws_fd # None /\ ws_fd # wsock => wout[ws_fd] = <<>>

\* The sender holds bytes that it read and still means to send.
Pending ==
    \/ wpc["ws"] \in {"again", "enter", "sendmsg", "sending", "sleep"}
    \/ wpc["ws"] \in Ending /\ after["ws"] = "sleep"

\* A send failed before it took anything, and its connection is not closed yet.
Failing == wpc["ws"] \in {"end_svc", "end_sock"} /\ after["ws"] = "end_again"

\* Byte p may follow what client c got: between them is nothing the log still has.
Follows(c, p) == wout[c] # <<>> => p <= wout[c][Len(wout[c])] + 1 \/ p <= oldest

NoGap(s, o) == \A i \in 1..(Len(s) - 1) : s[i + 1] <= s[i] + 1 \/ s[i + 1] <= o

\* What the sender has in hand, or will read next, follows what the active
\* client got, and what is being sent follows what its receiver got.
WsOrderInv ==
    /\ wbuf \in Nat \X Nat
    /\ Pending => wbuf[2] = pos["ws"]
    /\ Pending /\ ws_fd # None => Follows(ws_fd, wbuf[1])
    /\ ~Pending /\ ~Failing /\ ws_fd # None => Follows(ws_fd, pos["ws"])
    /\ wpc["ws"] = "sending" /\ wsock # None => Follows(wsock, wbuf[1])
    /\ \A c \in WsClients : NoGap(wout[c], oldest)

-----------------------------------------------------------------------------
(* The threads keep to their places.                                       *)

\* Every step of a thread or a client keeps the places (console_bridge_ws.c:45-254).
LEMMA ThreadStep == ThreadInv /\ WsNext => ThreadInv'
  <1> SUFFICES ASSUME ThreadInv, WsNext
               PROVE  ThreadInv'
    OBVIOUS
  <1> USE DEF ThreadInv, Ending, WsThreads
  <1>1. ASSUME NEW t \in WsThreads, ws_end_client_connection(t)
        PROVE  ThreadInv'
    <2>1. CASE EndService(t) \/ EndSocket(t)
      BY <2>1 DEF EndService, EndSocket, Step
    <2>2. CASE EndFd(t)
      BY <2>2 DEF EndFd, Step
    <2> QED
      BY <1>1, <2>1, <2>2 DEF ws_end_client_connection
  <1>2. CASE CheckWsClient \/ WaitWsClient \/ RewindNewClient \/ ReadWsLog \/ WaitWsData
             \/ Again \/ BeginSendMsg \/ Sleep
    BY <1>2 DEF CheckWsClient, WaitWsClient, RewindNewClient, ReadWsLog, WaitWsData,
           Again, BeginSendMsg, Sleep, WsStep, Step
  <1>3. CASE ws_send
    BY <1>3 DEF ws_send, CallEnd, Step
  <1>4. CASE SendMsgDone
    BY <1>4 DEF SendMsgDone, WsStep, Step
  <1>5. CASE SendMsgError
    BY <1>5 DEF SendMsgError, CallEnd, Step
  <1>6. CASE EndAgain
    BY <1>6 DEF EndAgain, CallEnd, Step
  <1>7. CASE AuthFails \/ SetWsFd \/ MarkNewWs \/ Register \/ PostWsClient
    BY <1>7 DEF AuthFails, SetWsFd, MarkNewWs, Register, PostWsClient, Step
  <1>8. CASE AuthDone
    BY <1>8 DEF AuthDone, CallEnd, Step
  <1>9. ASSUME NEW c \in WsClients, Upgrade(c) \/ WsLeave(c)
        PROVE  ThreadInv'
    BY <1>9 DEF Upgrade, WsLeave, Step
  <1>10. CASE ws_server_cb \/ ws_recv
    BY <1>10 DEF ws_server_cb, ws_recv, CallEnd, Step
  <1> QED
    BY <1>1, <1>2, <1>3, <1>4, <1>5, <1>6, <1>7, <1>8, <1>9, <1>10
       DEF WsNext, WsSendThread, HttpThread, HttpRuns, ServiceThread

-----------------------------------------------------------------------------
(* Connections.                                                            *)

\* Closing or losing connections keeps the types and takes histories away only
\* (websocket_unregister, console_bridge_ws.c:45-53).
LEMMA ConnectionsFacts ==
    ASSUME NEW state \in [WsClients -> {"idle", "open", "gone", "closed"}],
           ConnInv, Connections(state)
    PROVE  /\ wconn' = state
           /\ wout' \in [WsClients -> Seq(Nat)]
           /\ \A c \in WsClients : state[c] # "open" => wout'[c] = <<>>
           /\ \A c \in WsClients : wout'[c] = wout[c] \/ wout'[c] = <<>>
  BY DEF ConnInv, Connections

\* The client that fds[0].fd names is closed, the others stay as they are.
LEMMA CloseFacts ==
    ASSUME ConnInv, CloseWsFd
    PROVE  /\ wconn' \in [WsClients -> {"idle", "open", "gone", "closed"}]
           /\ wout' \in [WsClients -> Seq(Nat)]
           /\ \A c \in WsClients : wconn'[c] # "open" => wout'[c] = <<>>
           /\ \A c \in WsClients : wconn'[c] = "idle" => wconn[c] = "idle"
           /\ \A c \in WsClients : wout'[c] = wout[c] \/ wout'[c] = <<>>
  <1> DEFINE state == [c \in WsClients |-> IF c = ws_fd THEN "closed" ELSE wconn[c]]
  <1>1. state \in [WsClients -> {"idle", "open", "gone", "closed"}]
    BY DEF ConnInv
  <1>2. \A c \in WsClients : state[c] = "idle" => wconn[c] = "idle"
    OBVIOUS
  <1>3. Connections(state)
    BY DEF CloseWsFd
  <1> HIDE DEF state
  <1> QED
    BY <1>1, <1>2, <1>3, ConnectionsFacts

\* n bytes from position a on are sent without a gap.
LEMMA ChunkSent ==
    ASSUME NEW s \in Seq(Nat), NEW a \in Nat, NEW u \in Nat, NEW o \in Nat, a < u,
           NoGap(s, o), s # <<>> => a <= s[Len(s)] + 1 \/ a <= o
    PROVE  \A r : r = s \o [i \in 1..(u - a) |-> a + i - 1] =>
              r \in Seq(Nat) /\ r # <<>> /\ r[Len(r)] = u - 1 /\ NoGap(r, o)
  <1> DEFINE m == u - a
             b == [i \in 1..m |-> a + i - 1]
             t == s \o b
  <1>1. m \in Nat \ {0}
    OBVIOUS
  <1>2. b \in Seq(Nat) /\ Len(b) = m /\ \A i \in 1..m : b[i] = a + i - 1
    BY <1>1
  <1> DEFINE n == Len(s)
  <1>3. n \in Nat
    OBVIOUS
  <1> HIDE DEF m, b
  <1>4. t \in Seq(Nat) /\ Len(t) = n + m
    BY <1>1, <1>2
  <1>5. \A i \in 1..n : t[i] = s[i]
    BY <1>2
  <1>6. \A i \in (n + 1)..(n + m) : t[i] = a + (i - n) - 1
    <2> SUFFICES ASSUME NEW i \in (n + 1)..(n + m)
                 PROVE  t[i] = a + (i - n) - 1
      OBVIOUS
    <2>1. t[i] = b[i - n]
      BY <1>1, <1>2, <1>3
    <2>2. i - n \in 1..m
      BY <1>1, <1>3
    <2> QED
      BY <2>1, <2>2, <1>2
  <1> HIDE DEF m, b, t, n
  <1>7. t[Len(t)] = u - 1
    <2>1. n + m \in (n + 1)..(n + m)
      BY <1>1, <1>3
    <2>2. t[n + m] = a + ((n + m) - n) - 1
      BY <2>1, <1>6
    <2>3. (n + m) - n = u - a
      BY <1>3 DEF m
    <2> QED
      BY <2>2, <2>3, <1>4
  <1>8. NoGap(t, o)
    <2> SUFFICES ASSUME NEW i \in 1..(n + m - 1)
                 PROVE  t[i + 1] <= t[i] + 1 \/ t[i + 1] <= o
      BY <1>1, <1>3, <1>4 DEF NoGap
    <2>1. CASE i < n
      <3>1. i \in 1..(n - 1) /\ i \in 1..n /\ i + 1 \in 1..n
        BY <2>1, <1>3 DEF n
      <3>2. s[i + 1] <= s[i] + 1 \/ s[i + 1] <= o
        BY <3>1 DEF NoGap, n
      <3> QED
        BY <3>1, <3>2, <1>5
    <2>2. CASE i = n
      <3>1. n \in 1..n /\ n + 1 \in (n + 1)..(n + m)
        BY <2>2, <1>1, <1>3 DEF n
      <3>2. s # <<>>
        BY <3>1 DEF n
      <3>3. t[n + 1] = a /\ t[n] = s[n]
        BY <3>1, <1>3, <1>5, <1>6 DEF n
      <3> QED
        BY <2>2, <3>2, <3>3 DEF n
    <2>3. CASE i > n
      <3>1. i \in (n + 1)..(n + m) /\ i + 1 \in (n + 1)..(n + m)
        BY <2>3, <1>1, <1>3 DEF n
      <3>2. t[i + 1] = a + ((i + 1) - n) - 1 /\ t[i] = a + (i - n) - 1
        BY <3>1, <1>6
      <3> QED
        BY <3>2, <3>1, <1>1, <1>3 DEF n
    <2> QED
      BY <2>1, <2>2, <2>3, <1>1, <1>3 DEF n
  <1>9. t # <<>>
    BY <1>1, <1>3, <1>4 DEF n
  <1> QED
    BY <1>4, <1>7, <1>8, <1>9 DEF t, b, m

\* Where the HTTP server has a client that nobody else knows of yet.
Checking == {"auth", "set"} \cup Ending

\* Connections end, and descriptors are given up.
Shrinks ==
    /\ wconn' \in [WsClients -> {"idle", "open", "gone", "closed"}]
    /\ wout' \in [WsClients -> Seq(Nat)]
    /\ \A c \in WsClients : wconn'[c] # "open" => wout'[c] = <<>>
    /\ \A c \in WsClients : wconn'[c] = "idle" => wconn[c] = "idle"
    /\ \A c \in WsClients : wout'[c] = wout[c] \/ wout'[c] = <<>>
    /\ ws_fd' \in {ws_fd, None} /\ wsock' \in {wsock, None} /\ hsock' \in {hsock, None}

\* Giving up descriptors and connections keeps them apart.
LEMMA ConnShrinks ==
    ASSUME ConnInv, Shrinks,
           wpc'["http"] \in Checking => wpc["http"] \in Checking /\ hsock' = hsock,
           wpc'["ws"] = "sending" => wpc["ws"] = "sending" /\ wsock' = wsock
    PROVE  ConnInv'
  <1> USE WsAssumption DEF ConnInv, Shrinks, Checking
  <1>1. (/\ wconn \in [WsClients -> {"idle", "open", "gone", "closed"}]
         /\ wout \in [WsClients -> Seq(Nat)]
         /\ ws_fd \in WsClients \cup {None}
         /\ wsock \in WsClients \cup {None}
         /\ hsock \in WsClients \cup {None}
         /\ \A c \in WsClients : wconn[c] # "open" => wout[c] = <<>>
         /\ \A c \in WsClients : wconn[c] = "idle" => c # ws_fd /\ c # wsock /\ c # hsock)'
    OBVIOUS
  <1>2. wpc'["http"] \in Checking =>
           hsock' \in WsClients /\ wout'[hsock'] = <<>> /\ hsock' # ws_fd' /\ hsock' # wsock'
    OBVIOUS
  <1>3. wpc'["ws"] = "sending" /\ ws_fd' # None /\ ws_fd' # wsock' => wout'[ws_fd'] = <<>>
    OBVIOUS
  <1> QED
    BY <1>1, <1>2, <1>3

\* Nothing happens to the connections.
LEMMA ConnUnchanged ==
    ASSUME ConnInv, UNCHANGED wconnVars,
           ws_fd' \in {ws_fd, None}, wsock' \in {wsock, None}, hsock' \in {hsock, None}
    PROVE  Shrinks
  BY DEF ConnInv, Shrinks, wconnVars

\* The active client is closed.
LEMMA ConnClosed ==
    ASSUME ConnInv, CloseWsFd,
           ws_fd' \in {ws_fd, None}, wsock' \in {wsock, None}, hsock' \in {hsock, None}
    PROVE  Shrinks
  BY CloseFacts DEF Shrinks

\* Another client is closed or lost.
LEMMA ConnLost ==
    ASSUME ConnInv, NEW c \in WsClients, NEW s \in {"gone", "closed"},
           Connections([wconn EXCEPT ![c] = s]),
           ws_fd' \in {ws_fd, None}, wsock' \in {wsock, None}, hsock' \in {hsock, None}
    PROVE  Shrinks
  <1> DEFINE state == [wconn EXCEPT ![c] = s]
  <1>1. /\ state \in [WsClients -> {"idle", "open", "gone", "closed"}]
        /\ \A d \in WsClients : state[d] = "idle" => wconn[d] = "idle"
    BY DEF ConnInv
  <1>2. Connections(state)
    OBVIOUS
  <1> HIDE DEF state
  <1> QED
    BY <1>1, <1>2, ConnectionsFacts DEF Shrinks

\* Which steps only give up, and what they leave of the sender's work
\* (console_bridge_ws.c:45-254).
LEMMA ShrinkingSteps ==
    ASSUME ThreadInv, ConnInv, WsNext,
           ~BeginSendMsg, ~SendMsgDone, ~SetWsFd, ~\E c \in WsClients : Upgrade(c)
    PROVE  /\ Shrinks
           /\ wpc'["http"] \in Checking => wpc["http"] \in Checking /\ hsock' = hsock
           /\ wpc'["ws"] = "sending" => wpc["ws"] = "sending" /\ wsock' = wsock
  <1> DEFINE Goal ==
        /\ Shrinks
        /\ wpc'["http"] \in Checking => wpc["http"] \in Checking /\ hsock' = hsock
        /\ wpc'["ws"] = "sending" => wpc["ws"] = "sending" /\ wsock' = wsock
  <1> SUFFICES Goal
    OBVIOUS
  <1>1. ASSUME NEW t \in WsThreads, EndService(t) PROVE Goal
    <2>1. Shrinks
      BY <1>1, ConnUnchanged DEF EndService, wsendVars
    <2> QED
      BY <1>1, <2>1 DEF EndService, Step, ThreadInv, WsThreads, Checking, Ending, wsendVars
  <1>2. ASSUME NEW t \in WsThreads, EndSocket(t) PROVE Goal
    <2>1. Shrinks
      BY <1>2, ConnClosed DEF EndSocket, wsendVars, wfdVars
    <2> QED
      BY <1>2, <2>1 DEF EndSocket, Step, ThreadInv, WsThreads, Checking, Ending, wsendVars
  <1>3. ASSUME NEW t \in WsThreads, EndFd(t) PROVE Goal
    <2>1. Shrinks
      BY <1>3, ConnUnchanged DEF EndFd, wsendVars
    <2> QED
      BY <1>3, <2>1 DEF EndFd, Step, ThreadInv, WsThreads, Checking, Ending, wsendVars
  <1>4. CASE CheckWsClient \/ WaitWsClient \/ RewindNewClient \/ ReadWsLog \/ WaitWsData
             \/ Again \/ Sleep
    <2>1. UNCHANGED <<ws_fd, wsock, hsock, wconnVars>>
      BY <1>4 DEF CheckWsClient, WaitWsClient, RewindNewClient, ReadWsLog, WaitWsData,
           Again, Sleep, wsendVars, wfdVars
    <2>2. Shrinks
      BY <2>1, ConnUnchanged
    <2> QED
      BY <1>4, <2>1, <2>2 DEF CheckWsClient, WaitWsClient, RewindNewClient, ReadWsLog,
           WaitWsData, Again, Sleep, WsStep, Step, ThreadInv, WsThreads
  <1>5. CASE ws_send \/ SendMsgError \/ EndAgain
    <2>1. Shrinks
      BY <1>5, ConnUnchanged DEF ws_send, SendMsgError, EndAgain, wsendVars, wfdVars
    <2> QED
      BY <1>5, <2>1 DEF ws_send, SendMsgError, EndAgain, CallEnd, Step, ThreadInv, WsThreads
  <1>6. CASE AuthDone
    <2>1. Shrinks
      BY <1>6, ConnUnchanged DEF AuthDone, wsendVars, wfdVars
    <2> QED
      BY <1>6, <2>1 DEF AuthDone, CallEnd, Step, ThreadInv, WsThreads, Checking, Ending,
           wsendVars
  <1>7. CASE AuthFails
    <2>1. hsock \in WsClients
      BY <1>7 DEF AuthFails, Step, ConnInv
    <2>2. Shrinks
      BY <1>7, <2>1, ConnLost DEF AuthFails, wsendVars, wfdVars
    <2> QED
      BY <1>7, <2>2 DEF AuthFails, Step, ThreadInv, WsThreads, Checking, Ending, wsendVars
  <1>8. CASE MarkNewWs \/ PostWsClient
    <2>1. Shrinks
      BY <1>8, ConnUnchanged DEF MarkNewWs, PostWsClient, wsendVars, wfdVars
    <2> QED
      BY <1>8, <2>1 DEF MarkNewWs, PostWsClient, Step, ThreadInv, WsThreads, Checking, Ending,
           wsendVars
  <1>9. CASE Register
    <2>1. Shrinks
      BY <1>9, ConnUnchanged, ConnClosed DEF Register, wsendVars
    <2> QED
      BY <1>9, <2>1 DEF Register, Step, ThreadInv, WsThreads, Checking, Ending, wsendVars
  <1>10. CASE ws_server_cb \/ ws_recv
    <2>1. Shrinks
      BY <1>10, ConnUnchanged DEF ws_server_cb, ws_recv, wsendVars, wfdVars
    <2> QED
      BY <1>10, <2>1 DEF ws_server_cb, ws_recv, CallEnd, Step, ThreadInv, WsThreads,
           Checking, Ending, wsendVars
  <1>11. ASSUME NEW c \in WsClients, WsLeave(c) PROVE Goal
    <2>1. Shrinks
      BY <1>11, ConnLost DEF WsLeave, wsendVars, wfdVars
    <2> QED
      BY <1>11, <2>1 DEF WsLeave, wsendVars
  <1> HIDE DEF Goal
  <1> QED
    BY <1>1, <1>2, <1>3, <1>4, <1>5, <1>6, <1>7, <1>8, <1>9, <1>10, <1>11
       DEF WsNext, WsSendThread, HttpThread, HttpRuns, ServiceThread,
           ws_end_client_connection, WsThreads

\* A send that took bytes appends them to what its receiver got
\* (console_bridge_ws.c:64-85).
LEMMA SentFacts ==
    ASSUME CursorInv, ThreadInv, ConnInv, WsOrderInv, SendMsgDone
    PROVE  /\ wsock \in WsClients /\ wconn[wsock] = "open" /\ wsock' = None
           /\ wpc["ws"] = "sending" /\ UNCHANGED <<wconn, ws_fd, hsock, logVars, eventVars>>
           /\ \E u \in Nat, t \in Seq(Nat) :
                /\ wbuf[1] < u /\ u <= wbuf[2]
                /\ wbuf' = <<u, wbuf[2]>>
                /\ wpc' = [wpc EXCEPT !["ws"] = IF u = wbuf[2] THEN "check" ELSE "sendmsg"]
                /\ wout' = [wout EXCEPT ![wsock] = t]
                /\ t # <<>> /\ t[Len(t)] = u - 1 /\ NoGap(t, oldest)
  <1>1. /\ wsock \in WsClients /\ wconn[wsock] = "open" /\ wsock' = None
        /\ wpc["ws"] = "sending" /\ UNCHANGED <<wconn, ws_fd, hsock, logVars, eventVars>>
    BY DEF SendMsgDone, WsStep, Step, ConnInv, wfdVars
  <1>2. PICK upto \in (wbuf[1] + 1)..wbuf[2] :
          /\ wpc' = [wpc EXCEPT !["ws"] = IF upto = wbuf[2] THEN "check" ELSE "sendmsg"]
          /\ wout' = [wout EXCEPT ![wsock] = @ \o [i \in 1..(upto - wbuf[1]) |-> wbuf[1] + i - 1]]
          /\ wbuf' = <<upto, wbuf[2]>>
    BY DEF SendMsgDone, WsStep, Step
  <1>3. /\ upto \in Nat /\ wbuf[1] \in Nat /\ wbuf[2] \in Nat /\ wbuf[1] < upto /\ upto <= wbuf[2]
        /\ wout[wsock] \in Seq(Nat) /\ NoGap(wout[wsock], oldest) /\ oldest \in Nat
        /\ wout[wsock] # <<>> => \/ wbuf[1] <= wout[wsock][Len(wout[wsock])] + 1
                                \/ wbuf[1] <= oldest
    <2>1. wbuf[1] \in Nat /\ wbuf[2] \in Nat
      BY DEF WsOrderInv
    <2>2. upto \in Nat /\ wbuf[1] < upto /\ upto <= wbuf[2]
      BY <2>1, <1>2
    <2>3. wout[wsock] \in Seq(Nat) /\ NoGap(wout[wsock], oldest) /\ oldest \in Nat
      BY <1>1 DEF WsOrderInv, ConnInv, CursorInv
    <2>4. Follows(wsock, wbuf[1])
      BY <1>1, WsAssumption DEF WsOrderInv
    <2> QED
      BY <2>1, <2>2, <2>3, <2>4 DEF Follows
  <1> DEFINE t == wout[wsock] \o [i \in 1..(upto - wbuf[1]) |-> wbuf[1] + i - 1]
  <1>4. t \in Seq(Nat) /\ t # <<>> /\ t[Len(t)] = upto - 1 /\ NoGap(t, oldest)
    BY <1>3, ChunkSent
  <1>5. wout' = [wout EXCEPT ![wsock] = t]
    BY <1>2
  <1> HIDE DEF t
  <1> QED
    BY <1>1, <1>2, <1>3, <1>4, <1>5

\* Every step of a thread or a client keeps the descriptors apart
\* (console_bridge_ws.c:45-254).
LEMMA ConnStep == CursorInv /\ ThreadInv /\ ConnInv /\ WsOrderInv /\ WsNext => ConnInv'
  <1> SUFFICES ASSUME CursorInv, ThreadInv, ConnInv, WsOrderInv, WsNext
               PROVE  ConnInv'
    OBVIOUS
  <1> USE WsAssumption
  <1>1. CASE BeginSendMsg
    BY <1>1 DEF BeginSendMsg, WsStep, Step, ConnInv, ThreadInv, WsThreads, wfdVars, wconnVars
  <1>2. CASE SendMsgDone
    <2>1. PICK u \in Nat, t \in Seq(Nat) :
             /\ wpc' = [wpc EXCEPT !["ws"] = IF u = wbuf[2] THEN "check" ELSE "sendmsg"]
             /\ wout' = [wout EXCEPT ![wsock] = t]
      BY <1>2, SentFacts
    <2>2. /\ wsock \in WsClients /\ wconn[wsock] = "open" /\ wsock' = None
          /\ UNCHANGED <<wconn, ws_fd, hsock>>
      BY <1>2, SentFacts
    <2>3. wpc'["http"] = wpc["http"] /\ wpc'["ws"] # "sending"
      BY <2>1 DEF ThreadInv, WsThreads
    <2>4. wout' \in [WsClients -> Seq(Nat)]
      BY <2>1, <2>2 DEF ConnInv
    <2>5. \A c \in WsClients : c # wsock => wout'[c] = wout[c]
      BY <2>1 DEF ConnInv
    <2> QED
      BY <2>2, <2>3, <2>4, <2>5 DEF ConnInv
  <1>3. CASE SetWsFd
    BY <1>3 DEF SetWsFd, Step, ConnInv, ThreadInv, WsThreads, Ending, wsendVars, wconnVars
  <1>4. ASSUME NEW c \in WsClients, Upgrade(c)
        PROVE  ConnInv'
    BY <1>4 DEF Upgrade, Step, ConnInv, ThreadInv, WsThreads, Ending, wsendVars, wfdVars
  <1>5. CASE /\ ~BeginSendMsg /\ ~SendMsgDone /\ ~SetWsFd
             /\ ~\E c \in WsClients : Upgrade(c)
    BY <1>5, ShrinkingSteps, ConnShrinks
  <1> QED
    BY <1>1, <1>2, <1>3, <1>4, <1>5

-----------------------------------------------------------------------------
(* Order.                                                                  *)

\* Descriptors and connections that are given up do no harm to the order; the
\* client whose send failed may miss what was in hand, and is closed.
LEMMA WsOrderShrinks ==
    ASSUME ConnInv, WsOrderInv, Shrinks, Pending' = Pending, wbuf' = wbuf,
           pos'["ws"] = pos["ws"], oldest' = oldest,
           Failing /\ ~Failing' /\ ws_fd' # None => wout'[ws_fd'] = <<>>,
           wpc'["ws"] = "sending" => wpc["ws"] = "sending" /\ wsock' = wsock
    PROVE  WsOrderInv'
  <1>1. \A c \in WsClients : wout'[c] # <<>> => wout'[c] = wout[c]
    BY DEF Shrinks
  <1>2. \A c \in WsClients : NoGap(wout'[c], oldest')
    <2>1. NoGap(<<>>, oldest)
      BY DEF NoGap
    <2> QED
      BY <2>1, <1>1 DEF WsOrderInv
  <1>3. Pending' /\ ws_fd' # None => Follows(ws_fd, wbuf[1])'
    BY <1>1 DEF Shrinks, WsOrderInv, ConnInv, Follows
  <1>4. ~Pending' /\ ~Failing' /\ ws_fd' # None => Follows(ws_fd, pos["ws"])'
    BY <1>1 DEF Shrinks, WsOrderInv, ConnInv, Follows
  <1>5. wpc'["ws"] = "sending" /\ wsock' # None => Follows(wsock, wbuf[1])'
    BY <1>1 DEF WsOrderInv, ConnInv, Follows
  <1> QED
    BY <1>2, <1>3, <1>4, <1>5 DEF WsOrderInv

\* The other two threads and the clients do not touch what the sender holds.
LEMMA OthersKeepSender ==
    ASSUME ThreadInv,
           \/ AuthFails \/ AuthDone \/ MarkNewWs \/ Register \/ PostWsClient \/ SetWsFd
           \/ ws_server_cb \/ ws_recv
           \/ \E t \in {"http", "svc"} : ws_end_client_connection(t)
           \/ \E c \in WsClients : Upgrade(c) \/ WsLeave(c)
    PROVE  /\ wpc'["ws"] = wpc["ws"] /\ Pending' = Pending /\ Failing' = Failing
           /\ UNCHANGED <<wbuf, wsock, pos, oldest>>
  <1>1. wpc'["ws"] = wpc["ws"] /\ after'["ws"] = after["ws"]
    <2> USE DEF ThreadInv, WsThreads, Step
    <2>1. CASE AuthFails \/ MarkNewWs \/ Register \/ PostWsClient \/ SetWsFd
      BY <2>1 DEF AuthFails, MarkNewWs, Register, PostWsClient, SetWsFd
    <2>2. CASE AuthDone \/ ws_server_cb \/ ws_recv
      BY <2>2 DEF AuthDone, ws_server_cb, ws_recv, CallEnd
    <2>3. CASE \E t \in {"http", "svc"} : ws_end_client_connection(t)
      BY <2>3 DEF ws_end_client_connection, EndService, EndSocket, EndFd
    <2>4. CASE \E c \in WsClients : Upgrade(c) \/ WsLeave(c)
      BY <2>4 DEF Upgrade, WsLeave
    <2> QED
      BY <2>1, <2>2, <2>3, <2>4
  <1>2. UNCHANGED <<wbuf, wsock, pos, oldest>>
    BY DEF AuthFails, MarkNewWs, Register, PostWsClient, SetWsFd, AuthDone, ws_server_cb,
         ws_recv, ws_end_client_connection, EndService, EndSocket, EndFd, Upgrade, WsLeave,
         wsendVars, logVars
  <1> QED
    BY <1>1, <1>2 DEF Pending, Failing

\* Every step of a thread or a client keeps the order, whoever else reads the log
\* (console_bridge_ws.c:45-254).
LEMMA WsOrderStep ==
    ASSUME Ws \in Readers
    PROVE  CursorInv /\ ThreadInv /\ ConnInv /\ WsOrderInv /\ WsNext => WsOrderInv'
  <1> SUFFICES ASSUME CursorInv, ThreadInv, ConnInv, WsOrderInv, WsNext
               PROVE  WsOrderInv'
    OBVIOUS
  <1> USE WsAssumption, SharedAssumption
  <1>0. pos["ws"] \in Nat /\ received \in Nat /\ oldest \in Nat /\ oldest' = oldest
    BY WsMoves DEF CursorInv, Ws
  <1>1. CASE /\ \/ AuthFails \/ AuthDone \/ MarkNewWs \/ Register \/ PostWsClient
                \/ ws_server_cb \/ ws_recv
                \/ \E t \in {"http", "svc"} : ws_end_client_connection(t)
                \/ \E c \in WsClients : WsLeave(c)
             /\ ~SetWsFd /\ ~\E c \in WsClients : Upgrade(c)
    <2>1. /\ wpc'["ws"] = wpc["ws"] /\ Pending' = Pending /\ Failing' = Failing
          /\ UNCHANGED <<wbuf, wsock, pos, oldest>>
      BY <1>1, OthersKeepSender
    <2>2. ~BeginSendMsg /\ ~SendMsgDone
      BY <2>1 DEF BeginSendMsg, SendMsgDone, WsStep, Step, ThreadInv, WsThreads
    <2> QED
      BY <1>1, <2>1, <2>2, ShrinkingSteps, WsOrderShrinks
  <1>2. CASE SetWsFd
    <2>1. /\ wpc'["ws"] = wpc["ws"] /\ Pending' = Pending
          /\ UNCHANGED <<wbuf, wsock, pos, wout, oldest>>
      BY <1>2, OthersKeepSender DEF SetWsFd, wconnVars
    <2>2. ws_fd' = hsock /\ wout[hsock] = <<>>
      BY <1>2 DEF SetWsFd, Step, ConnInv
    <2> QED
      BY <2>1, <2>2 DEF WsOrderInv, Follows
  <1>3. ASSUME NEW c \in WsClients, Upgrade(c)
        PROVE  WsOrderInv'
    <2>1. /\ wpc'["ws"] = wpc["ws"] /\ Pending' = Pending /\ Failing' = Failing
          /\ UNCHANGED <<wbuf, wsock, pos, wout, ws_fd, oldest>>
      BY <1>3, OthersKeepSender DEF Upgrade, wfdVars
    <2> QED
      BY <2>1, <1>0 DEF WsOrderInv, Follows
  <1>4. CASE CheckWsClient
    <2>1. /\ ~Pending' /\ ~Pending /\ ~Failing /\ wpc'["ws"] # "sending"
          /\ wbuf' = <<0, 0>> /\ UNCHANGED <<pos, wout, ws_fd>>
      BY <1>4 DEF CheckWsClient, WsStep, Step, Pending, Failing, Ending, ThreadInv,
           WsThreads, wfdVars, wconnVars, logVars
    <2> QED
      BY <2>1, <1>0 DEF WsOrderInv, Follows
  <1>5. CASE WaitWsClient \/ WaitWsData
    <2>1. /\ ~Pending' /\ ~Pending /\ ~Failing /\ wpc'["ws"] # "sending"
          /\ UNCHANGED <<wbuf, pos, wout, ws_fd>>
      BY <1>5 DEF WaitWsClient, WaitWsData, WsStep, Step, Pending, Failing, Ending, ThreadInv, WsThreads,
           wfdVars, wconnVars, wsendVars, logVars
    <2> QED
      BY <2>1, <1>0 DEF WsOrderInv, Follows
  <1>6. CASE RewindNewClient
    <2>1. /\ ~Pending' /\ ~Pending /\ ~Failing /\ wpc'["ws"] # "sending"
          /\ UNCHANGED <<wbuf, wout, ws_fd>>
          /\ pos' = pos \/ pos' = [pos EXCEPT !["ws"] = 0]
      BY <1>6 DEF RewindNewClient, WsStep, Step, Pending, Failing, Ending, ThreadInv, WsThreads,
           wconnVars, wsendVars
    <2>2. pos'["ws"] = pos["ws"] \/ pos'["ws"] = 0
      BY <2>1 DEF CursorInv, Ws
    <2>3. \A c \in WsClients : wout[c] # <<>> => wout[c][Len(wout[c])] \in Nat
      BY DEF ConnInv
    <2>4. ws_fd # None => Follows(ws_fd, 0)
      BY <2>3 DEF Follows, ConnInv
    <2> QED
      BY <2>1, <2>2, <2>4, <1>0 DEF WsOrderInv, Follows
  <1>7. CASE ReadWsLog
    <2>1. CASE UNCHANGED <<wbuf, logVars>> /\ wpc' = [wpc EXCEPT !["ws"] = "wait_data"]
      <3>1. /\ ~Pending' /\ ~Pending /\ ~Failing /\ wpc'["ws"] # "sending"
            /\ UNCHANGED <<wbuf, pos, wout, ws_fd>>
        BY <1>7, <2>1 DEF ReadWsLog, WsStep, Step, Pending, Failing, Ending, ThreadInv, WsThreads,
             wfdVars, wconnVars, logVars
      <3> QED
        BY <3>1, <1>0 DEF WsOrderInv, Follows
    <2>2. CASE /\ ReadStart("ws") < received /\ wpc' = [wpc EXCEPT !["ws"] = "again"]
               /\ wbuf' = <<ReadStart("ws"), ReadEnd("ws")>>
               /\ Log!ReadTo("ws", ReadEnd("ws"))
      <3>1. ReadEnd("ws") \in Nat /\ ReadStart("ws") \in Nat /\ ReadStart("ws") \in {pos["ws"], oldest}
        BY <2>2, ReadEndFacts DEF Ws
      <3>2. pos'["ws"] = ReadEnd("ws")
        BY <2>2 DEF Log!ReadTo, CursorInv, Ws
      <3>3. Pending' /\ ~Pending /\ ~Failing /\ wpc'["ws"] # "sending" /\ UNCHANGED <<wout, ws_fd>>
        BY <1>7, <2>2 DEF ReadWsLog, WsStep, Step, Pending, Failing, Ending, ThreadInv, WsThreads,
             wfdVars, wconnVars
      <3> QED
        BY <2>2, <3>1, <3>2, <3>3, <1>0 DEF WsOrderInv, Follows
    <2> QED
      BY <1>7, <2>1, <2>2 DEF ReadWsLog, WsStep, Step
  <1>8. CASE Again
    <2>1. /\ Pending /\ wpc'["ws"] # "sending" /\ UNCHANGED <<wbuf, pos, wout, ws_fd>>
          /\ ws_fd # None => Pending'
      BY <1>8 DEF Again, WsStep, Step, Pending, Failing, Ending, ThreadInv, WsThreads,
           wfdVars, wconnVars, wsendVars, logVars
    <2> QED
      BY <2>1, <1>0 DEF WsOrderInv, Follows
  <1>9. CASE ws_send
    <2>1. /\ Pending /\ wpc'["ws"] # "sending" /\ UNCHANGED <<wbuf, pos, wout, ws_fd>>
          /\ ws_fd # None => Pending'
      BY <1>9 DEF ws_send, CallEnd, Step, Pending, Failing, Ending, ThreadInv, WsThreads,
           wfdVars, wconnVars, logVars
    <2> QED
      BY <2>1, <1>0 DEF WsOrderInv, Follows
  <1>10. CASE BeginSendMsg
    <2>1. /\ Pending /\ Pending' /\ wsock' = ws_fd /\ UNCHANGED <<wbuf, pos, wout, ws_fd>>
      BY <1>10 DEF BeginSendMsg, WsStep, Step, Pending, Failing, Ending, ThreadInv, WsThreads,
           wfdVars, wconnVars, logVars
    <2> QED
      BY <2>1, <1>0 DEF WsOrderInv, Follows
  <1>11. CASE SendMsgDone
    <2>1. /\ wsock \in WsClients /\ wpc["ws"] = "sending" /\ UNCHANGED <<ws_fd, pos>>
      BY <1>11, SentFacts DEF logVars
    <2>2. PICK u \in Nat, t \in Seq(Nat) :
                /\ wbuf[1] < u /\ u <= wbuf[2]
                /\ wbuf' = <<u, wbuf[2]>>
                /\ wpc' = [wpc EXCEPT !["ws"] = IF u = wbuf[2] THEN "check" ELSE "sendmsg"]
                /\ wout' = [wout EXCEPT ![wsock] = t]
                /\ t # <<>> /\ t[Len(t)] = u - 1 /\ NoGap(t, oldest)
      BY <1>11, SentFacts
    <2>3. /\ wout'[wsock] = t
          /\ \A c \in WsClients : c # wsock => wout'[c] = wout[c]
          /\ \A c \in WsClients : c = wsock => wout'[c] = t
      BY <2>1, <2>2 DEF ConnInv
    <2>4. wpc'["ws"] # "sending" /\ (Pending' <=> u # wbuf[2])
      BY <2>2 DEF Pending, Ending, ThreadInv, WsThreads
    <2>5. wbuf' \in Nat \X Nat /\ wbuf'[1] = u /\ wbuf'[2] = pos'["ws"] /\ wbuf[2] = pos["ws"]
      BY <2>1, <2>2 DEF WsOrderInv, Pending
    <2>6. ws_fd # None /\ ws_fd # wsock => wout'[ws_fd] = <<>>
      BY <2>1, <2>3 DEF ConnInv
    <2>7. ws_fd = wsock => wout'[ws_fd][Len(wout'[ws_fd])] + 1 = u
      BY <2>2, <2>3
    <2>8. \A c \in WsClients : NoGap(wout'[c], oldest')
      BY <2>2, <2>3, <1>0 DEF WsOrderInv
    <2>9. ws_fd' # None => wout'[ws_fd'] = <<>> \/ wout'[ws_fd'][Len(wout'[ws_fd'])] + 1 = u
      BY <2>1, <2>6, <2>7
    <2> QED
      BY <2>1, <2>4, <2>5, <2>8, <2>9 DEF WsOrderInv, Follows
  <1>12. CASE SendMsgError
    <2>1. /\ wpc["ws"] = "sending" /\ Pending /\ UNCHANGED <<ws_fd, wout, wbuf, pos>>
          /\ wpc'["ws"] = "end_svc" /\ after'["ws"] \in {"sleep", "end_again"}
      BY <1>12 DEF SendMsgError, CallEnd, Step, Pending, ThreadInv, WsThreads, wfdVars,
           wconnVars, logVars
    <2>2. wpc'["ws"] # "sending" /\ (Pending' \/ Failing')
      BY <2>1 DEF Pending, Failing, Ending
    <2> QED
      BY <2>1, <2>2, <1>0 DEF WsOrderInv, Follows
  <1>13. CASE EndAgain \/ Sleep
    <2>1. /\ Pending' = Pending /\ ~Failing /\ wpc'["ws"] # "sending"
          /\ UNCHANGED <<wbuf, pos, wout, ws_fd>>
      BY <1>13 DEF EndAgain, Sleep, WsStep, CallEnd, Step, Pending, Failing, Ending, ThreadInv, WsThreads,
           wfdVars, wconnVars, wsendVars, logVars
    <2> QED
      BY <2>1, <1>0 DEF WsOrderInv, Follows
  <1>14. CASE ws_end_client_connection("ws")
    <2>1. /\ Pending' = Pending /\ wpc'["ws"] # "sending" /\ wpc["ws"] \in Ending
          /\ UNCHANGED <<wbuf, pos, wsock>>
      BY <1>14 DEF ws_end_client_connection, EndService, EndSocket, EndFd, Step, Pending, Failing, Ending,
           ThreadInv, WsThreads, wsendVars, logVars
    <2>2. Shrinks
      BY <1>14, ConnUnchanged, ConnClosed DEF ws_end_client_connection, EndService, EndSocket,
           EndFd, wfdVars, wsendVars
    <2>3. Failing /\ ~Failing' /\ ws_fd' # None => wout'[ws_fd'] = <<>>
      <3>1. CASE EndService("ws")
        BY <3>1 DEF EndService, Step, Failing, ThreadInv, WsThreads
      <3>2. CASE EndSocket("ws")
        BY <3>2 DEF EndSocket, CloseWsFd, Connections, wfdVars, ConnInv
      <3>3. CASE EndFd("ws")
        BY <3>3 DEF EndFd
      <3> QED
        BY <1>14, <3>1, <3>2, <3>3 DEF ws_end_client_connection
    <2> QED
      BY <2>1, <2>2, <2>3, <1>0, WsOrderShrinks
  <1> QED
    BY <1>1, <1>2, <1>3, <1>4, <1>5, <1>6, <1>7, <1>8, <1>9, <1>10, <1>11, <1>12, <1>13, <1>14
       DEF WsNext, WsSendThread, HttpThread, HttpRuns, ServiceThread

-----------------------------------------------------------------------------
(* The bridge from start to end.                                           *)

\* The websocket bridge starts without a client (console_bridge_ws.c:283-299).
LEMMA WsInitial ==
    ASSUME Ws \in Readers
    PROVE  SharedInit /\ WsInit => ThreadInv /\ ConnInv /\ WsOrderInv
  <1> SUFFICES ASSUME SharedInit, WsInit
               PROVE  ThreadInv /\ ConnInv /\ WsOrderInv
    OBVIOUS
  <1>1. wpc["ws"] = "check" /\ wpc["http"] = "idle"
    BY DEF WsInit
  <1>2. ThreadInv
    BY DEF WsInit, ThreadInv, WsThreads, Ending
  <1>3. ConnInv
    BY <1>1, WsAssumption DEF WsInit, ConnInv, Ending
  <1>4. WsOrderInv
    BY <1>1 DEF WsInit, WsOrderInv, Pending, Failing, Ending, NoGap
  <1> QED
    BY <1>2, <1>3, <1>4

\* A step that leaves the bridge and its cursor alone keeps what it relies on, also
\* when the log gives up more bytes.
LEMMA WsKept ==
    ASSUME ThreadInv /\ ConnInv /\ WsOrderInv, UNCHANGED wsVars, pos'["ws"] = pos["ws"],
           pos["ws"] \in Int, oldest \in Nat, oldest' \in Nat, oldest' >= oldest
    PROVE  ThreadInv' /\ ConnInv' /\ WsOrderInv'
  <1> USE DEF wsVars, wfdVars, wsendVars, wconnVars
  <1>1. Pending' = Pending /\ Failing' = Failing
    BY DEF Pending, Failing
  <1>2. ThreadInv'
    BY DEF ThreadInv
  <1>3. ConnInv'
    BY DEF ConnInv
  <1>4. \A c \in WsClients, p \in Int : Follows(c, p) => Follows(c, p)'
    BY DEF Follows
  <1>5. \A c \in WsClients : NoGap(wout'[c], oldest')
    <2> SUFFICES ASSUME NEW c \in WsClients, NEW i \in 1..(Len(wout[c]) - 1)
                 PROVE  wout[c][i + 1] <= wout[c][i] + 1 \/ wout[c][i + 1] <= oldest'
      BY DEF NoGap
    <2>1. wout[c] \in Seq(Nat)
      BY DEF ConnInv
    <2>2. wout[c][i + 1] \in Nat
      BY <2>1
    <2>3. wout[c][i + 1] <= wout[c][i] + 1 \/ wout[c][i + 1] <= oldest
      BY DEF WsOrderInv, NoGap
    <2> QED
      BY <2>2, <2>3
  <1>6. WsOrderInv'
    BY <1>1, <1>4, <1>5 DEF WsOrderInv, ConnInv
  <1> QED
    BY <1>2, <1>3, <1>6

\* A websocket client never misses a byte the log still has, whichever of the three
\* threads ends or replaces a connection at which point, however short the sends
\* are, and however far the log has overtaken the client (console_bridge_ws.c:45-254,
\* console_logger.c:143-182).
THEOREM WsNoGapHolds ==
    ASSUME Ws \in Readers
    PROVE  WsSpec => []WsNoGap
  <1> DEFINE Inv == CursorInv /\ ThreadInv /\ ConnInv /\ WsOrderInv
  <1>1. WsAloneInit => Inv
    BY CursorInit, WsInitial DEF WsAloneInit
  <1>2. Inv /\ [WsStepOrRx]_wvars => Inv'
    <2> SUFFICES ASSUME Inv, [WsStepOrRx]_wvars
                 PROVE  Inv'
      OBVIOUS
    <2>0. oldest \in Nat /\ pos["ws"] \in Int
      BY DEF CursorInv, Ws
    <2>1. CASE WsNext
      BY <2>1, CursorWs, ThreadStep, ConnStep, WsOrderStep
    <2>2. CASE UartCallback /\ UNCHANGED wsVars
      <3>1. CursorInv' /\ pos' = pos /\ oldest' >= oldest
        BY <2>2, CursorRx
      <3> QED
        BY <2>0, <2>2, <3>1, WsKept DEF CursorInv
    <2>3. CASE UNCHANGED wvars
      BY <2>0, <2>3, WsKept DEF wvars, logVars, CursorInv
    <2> QED
      BY <2>1, <2>2, <2>3 DEF WsStepOrRx
  <1>3. Inv => WsNoGap
    BY DEF WsOrderInv, WsNoGap, NoGap
  <1> QED
    BY <1>1, <1>2, <1>3, PTL DEF WsSpec, WsStepOrRx

-----------------------------------------------------------------------------
(* Both bridges together.                                                  *)

\* What each bridge relies on holds in the whole system: neither moves the other's
\* cursor or touches its clients (main.c:264-279).
LEMMA TogetherInductive ==
    ASSUME Telnet \in Readers, Ws \in Readers
    PROVE  Spec => [](CursorInv /\ DescriptorInv /\ OrderInv /\ ThreadInv /\ ConnInv /\ WsOrderInv)
  <1> DEFINE TelnetInv == DescriptorInv /\ OrderInv
             WsInv == ThreadInv /\ ConnInv /\ WsOrderInv
  <1>1. Init => CursorInv /\ TelnetInv /\ WsInv
    BY CursorInit, DescriptorInit, OrderInit, WsInitial DEF Init
  <1>2. CursorInv /\ TelnetInv /\ WsInv /\ [Next]_vars => (CursorInv /\ TelnetInv /\ WsInv)'
    <2> SUFFICES ASSUME CursorInv, TelnetInv, WsInv, [Next]_vars
                 PROVE  (CursorInv /\ TelnetInv /\ WsInv)'
      OBVIOUS
    <2>0. oldest \in Nat /\ pos["ws"] \in Int
      BY DEF CursorInv, Ws
    <2>1. CASE HostOutput
      <3>1. CursorInv' /\ pos' = pos /\ oldest' >= oldest
        BY <2>1, CursorRx DEF HostOutput
      <3> QED
        BY <2>0, <2>1, <3>1, DescriptorKept, OrderKept, WsKept DEF HostOutput, CursorInv
    <2>2. CASE TelnetNext /\ UNCHANGED wsVars
      <3>1. pos'["ws"] = pos["ws"] /\ oldest' = oldest
        BY <2>2, TelnetMoves DEF CursorInv, Ws
      <3> QED
        BY <2>0, <2>2, <3>1, CursorTelnet, DescriptorStep, OrderStep, WsKept
    <2>3. CASE WsNext /\ UNCHANGED telnetVars
      <3>1. pos'[Telnet] = pos[Telnet]
        BY <2>3, WsMoves DEF CursorInv, Telnet
      <3> QED
        BY <2>3, <3>1, CursorWs, DescriptorKept, OrderKept, ThreadStep, ConnStep, WsOrderStep
    <2>4. CASE UNCHANGED vars
      <3>1. CursorInv' /\ pos' = pos /\ oldest' = oldest
        BY <2>4 DEF vars, logVars, CursorInv
      <3> QED
        BY <2>0, <2>4, <3>1, DescriptorKept, OrderKept, WsKept DEF vars
    <2> QED
      BY <2>1, <2>2, <2>3, <2>4 DEF Next
  <1> QED
    BY <1>1, <1>2, PTL DEF Spec

\* With both bridges running, no telnet client gets a byte twice or out of order,
\* no websocket client misses one the log still has, and no thread uses a closed
\* telnet descriptor (main.c:264-279, console_bridge.c, console_bridge_ws.c).
THEOREM BridgesKeepApart ==
    ASSUME Telnet \in Readers, Ws \in Readers
    PROVE  Spec => [](TelnetInOrder /\ WsNoGap /\ ActiveNotClosed)
  <1>1. OrderInv => TelnetInOrder
    BY DEF OrderInv, TelnetInOrder
  <1>2. WsOrderInv => WsNoGap
    BY DEF WsOrderInv, WsNoGap, NoGap
  <1>3. DescriptorInv => ActiveNotClosed
    BY DEF DescriptorInv, ActiveNotClosed
  <1> QED
    BY <1>1, <1>2, <1>3, TogetherInductive, PTL

-----------------------------------------------------------------------------
(* Wake-ups.                                                               *)

\* Sender r found the log empty and is about to wait.
AtWait(r) ==
    \/ r = Telnet /\ tpc = "wait_data"
    \/ r = Ws /\ wpc["ws"] = "wait_data"

\* Sender r has read everything, or will look at the log again before it sleeps.
Looks(r) ==
    \/ pos[r] = received
    \/ /\ EVENT_CONSOLE_LOG_DATA \notin waiting[r]
       /\ AtWait(r) => EVENT_CONSOLE_LOG_DATA \in events

\* A sender blocks only in its waits, which leave it at the head of its loop.
BlockInv ==
    /\ waiting \in [Readers -> SUBSET AllEvents]
    /\ Telnet \in Readers /\ Blocked(Telnet) => tpc = "check"
    /\ Ws \in Readers /\ Blocked(Ws) => wpc["ws"] = "check"

\* The event bit is set for one of two senders and whoever takes it first clears
\* it; but whoever takes it looks at the log again.
AwakeInv == BlockInv /\ \E r \in Readers : Looks(r)

\* New output wakes those who wait for it, or leaves the event set for the next
\* to wait (console_logger.c:69-78).
LEMMA AwakeRx ==
    ASSUME Readers # {}, AwakeInv, uart_rx_ready, wpc' = wpc,
           Telnet \in Readers => tpc' = tpc
    PROVE  AwakeInv'
  <1>1. /\ waiting' \in [Readers -> SUBSET AllEvents]
        /\ \A r \in Readers : waiting'[r] \in {waiting[r], {}}
        /\ \A r \in Readers : EVENT_CONSOLE_LOG_DATA \notin waiting'[r]
        /\ \/ EVENT_CONSOLE_LOG_DATA \in events'
           \/ \E r \in Readers : EVENT_CONSOLE_LOG_DATA \in waiting[r]
    BY DEF uart_rx_ready, k_event_post, AwakeInv, BlockInv
  <1>2. BlockInv'
    BY <1>1 DEF AwakeInv, BlockInv, Blocked
  <1>3. CASE EVENT_CONSOLE_LOG_DATA \in events'
    BY <1>1, <1>2, <1>3 DEF AwakeInv, Looks
  <1>4. ASSUME NEW r \in Readers, EVENT_CONSOLE_LOG_DATA \in waiting[r]
        PROVE  AwakeInv'
    <2>1. ~AtWait(r)'
      BY <1>4 DEF AwakeInv, BlockInv, Blocked, AtWait, Telnet, Ws
    <2> QED
      BY <1>1, <1>2, <2>1 DEF AwakeInv, Looks
  <1> QED
    BY <1>1, <1>3, <1>4

\* A step that touches neither the cursors nor the events nor the senders' places.
LEMMA AwakeKept ==
    ASSUME AwakeInv, UNCHANGED <<received, pos, eventVars>>, wpc'["ws"] = wpc["ws"],
           Telnet \in Readers => tpc' = tpc
    PROVE  AwakeInv'
  <1>1. PICK r \in Readers : Looks(r)
    BY DEF AwakeInv
  <1>2. Looks(r)'
    BY <1>1 DEF Looks, AtWait, eventVars
  <1>3. BlockInv'
    BY DEF AwakeInv, BlockInv, Blocked, eventVars
  <1> QED
    BY <1>2, <1>3 DEF AwakeInv

\* Announcing a client wakes who waits for one and sets no other event
\* (console_bridge.c:92-95, console_bridge_ws.c:243).
LEMMA AwakePost ==
    ASSUME AwakeInv, UNCHANGED logVars, wpc'["ws"] = wpc["ws"],
           Telnet \in Readers => tpc' = tpc,
           NEW e \in {EVENT_TELNET_CLIENT, EVENT_WEBSOCKET_CLIENT}, k_event_post(e)
    PROVE  AwakeInv'
  <1>1. /\ waiting' \in [Readers -> SUBSET AllEvents]
        /\ \A r \in Readers : waiting'[r] \in {waiting[r], {}}
        /\ EVENT_CONSOLE_LOG_DATA \in events => EVENT_CONSOLE_LOG_DATA \in events'
    BY DEF k_event_post, AwakeInv, BlockInv, EVENT_CONSOLE_LOG_DATA, EVENT_TELNET_CLIENT,
         EVENT_WEBSOCKET_CLIENT
  <1>2. BlockInv'
    BY <1>1 DEF AwakeInv, BlockInv, Blocked
  <1>3. PICK r \in Readers : Looks(r)
    BY DEF AwakeInv
  <1>4. Looks(r)'
    BY <1>1, <1>3 DEF Looks, AtWait, logVars
  <1> QED
    BY <1>2, <1>4 DEF AwakeInv

\* A sender that runs is one that looks at the log again.
LEMMA AwakeRuns ==
    ASSUME NEW r \in Readers, AwakeInv, UNCHANGED eventVars, ~Blocked(r),
           AtWait(r)' => pos'[r] = received',
           Telnet \in Readers => (tpc' = tpc \/ r = Telnet),
           Ws \in Readers => (wpc'["ws"] = wpc["ws"] \/ r = Ws)
    PROVE  AwakeInv'
  <1>1. BlockInv'
    BY DEF AwakeInv, BlockInv, Blocked, eventVars
  <1>2. Looks(r)'
    BY DEF Looks, Blocked, eventVars
  <1> QED
    BY <1>1, <1>2 DEF AwakeInv

\* A sender that sleeps on the log has read all of it, or finds that the event was
\* taken by the other one, which then looks (console_bridge.c:59-65,
\* console_bridge_ws.c:142-148).
LEMMA AwakeWaits ==
    ASSUME NEW r \in Readers, NEW bits \in SUBSET AllEvents, AwakeInv,
           k_event_wait_safe(r, bits), UNCHANGED logVars,
           EVENT_CONSOLE_LOG_DATA \in bits => AtWait(r),
           ~Blocked(r), ~AtWait(r)',
           Telnet \in Readers => IF r = Telnet THEN tpc' = "check" ELSE tpc' = tpc,
           Ws \in Readers => IF r = Ws THEN wpc'["ws"] = "check" ELSE wpc'["ws"] = wpc["ws"]
    PROVE  AwakeInv'
  <1>1. waiting' \in [Readers -> SUBSET AllEvents]
    BY DEF k_event_wait_safe, AwakeInv, BlockInv
  <1>2. \A q \in Readers : q # r => waiting'[q] = waiting[q]
    BY DEF k_event_wait_safe, AwakeInv, BlockInv
  <1>3. BlockInv'
    BY <1>1, <1>2 DEF AwakeInv, BlockInv, Blocked
  <1>4. CASE EVENT_CONSOLE_LOG_DATA \notin waiting'[r]
    BY <1>3, <1>4 DEF AwakeInv, Looks
  <1>5. CASE EVENT_CONSOLE_LOG_DATA \in waiting'[r]
    <2>1. EVENT_CONSOLE_LOG_DATA \in bits /\ EVENT_CONSOLE_LOG_DATA \notin events /\ AtWait(r)
      BY <1>5 DEF k_event_wait_safe, AwakeInv, BlockInv, Blocked
    <2>2. PICK q \in Readers : Looks(q)
      BY DEF AwakeInv
    <2>3. CASE pos[q] = received
      BY <1>3, <2>3 DEF AwakeInv, Looks, logVars
    <2>4. CASE pos[q] # received
      <3>1. q # r /\ EVENT_CONSOLE_LOG_DATA \notin waiting[q] /\ ~AtWait(q)
        BY <2>1, <2>2, <2>4 DEF Looks
      <3>2. ~AtWait(q)'
        BY <3>1 DEF AtWait
      <3> QED
        BY <1>2, <1>3, <3>1, <3>2 DEF AwakeInv, Looks
    <2> QED
      BY <2>3, <2>4
  <1> QED
    BY <1>4, <1>5

\* Every step of the telnet bridge leaves a sender that looks (console_bridge.c:34-172).
LEMMA AwakeTelnet ==
    ASSUME Telnet \in Readers
    PROVE  CursorInv /\ AwakeInv /\ TelnetNext /\ wpc' = wpc => AwakeInv'
  <1> SUFFICES ASSUME CursorInv, AwakeInv, TelnetNext, wpc' = wpc
               PROVE  AwakeInv'
    OBVIOUS
  <1>1. CASE CheckClient \/ SeekNewClient \/ ClearNewClient \/ RecheckClient \/ BeginSend
             \/ SendDone \/ SendError \/ ShutAfterSend \/ DropAfterSend
    <2>1. ~Blocked(Telnet) /\ UNCHANGED eventVars /\ ~AtWait(Telnet)'
      BY <1>1 DEF CheckClient, SeekNewClient, ClearNewClient, RecheckClient, BeginSend, SendDone,
           SendError, ShutAfterSend, DropAfterSend, TelnetStep, AtWait, Telnet, Ws
    <2> QED
      BY <2>1, AwakeRuns
  <1>2. CASE ReadLog
    <2>0. ReadStart(Telnet) = received => pos[Telnet] = received
      BY ReadEndFacts
    <2>1. ~Blocked(Telnet) /\ UNCHANGED eventVars
          /\ (AtWait(Telnet)' => pos'[Telnet] = received')
      BY <1>2, <2>0 DEF ReadLog, TelnetStep, AtWait, Telnet, Ws, logVars
    <2> QED
      BY <2>1, AwakeRuns
  <1>3. CASE WaitClient
    <2> DEFINE bits == {EVENT_TELNET_CLIENT}
    <2>1. /\ k_event_wait_safe(Telnet, bits) /\ UNCHANGED logVars
          /\ ~Blocked(Telnet) /\ tpc' = "check" /\ ~AtWait(Telnet)'
      BY <1>3 DEF WaitClient, TelnetStep, AtWait, Telnet, Ws
    <2>2. bits \in SUBSET AllEvents /\ EVENT_CONSOLE_LOG_DATA \notin bits
      BY DEF AllEvents, EVENT_CONSOLE_LOG_DATA, EVENT_TELNET_CLIENT
    <2> HIDE DEF bits
    <2> QED
      BY <2>1, <2>2, AwakeWaits DEF Telnet, Ws
  <1>4. CASE WaitData
    <2> DEFINE bits == {EVENT_TELNET_CLIENT, EVENT_CONSOLE_LOG_DATA}
    <2>1. /\ k_event_wait_safe(Telnet, bits) /\ UNCHANGED logVars /\ AtWait(Telnet)
          /\ ~Blocked(Telnet) /\ tpc' = "check" /\ ~AtWait(Telnet)'
      BY <1>4 DEF WaitData, TelnetStep, AtWait, Telnet, Ws
    <2>2. bits \in SUBSET AllEvents
      BY DEF AllEvents
    <2> HIDE DEF bits
    <2> QED
      BY <2>1, <2>2, AwakeWaits DEF Telnet, Ws
  <1>5. CASE PostClient
    BY <1>5, AwakePost DEF PostClient, sendVars
  <1>6. CASE Accept \/ SetActive \/ MarkNew \/ RecvLoop \/ BeginRecv \/ RecvData \/ RecvEnd
             \/ ShutAfterRecv \/ DropAfterRecv \/ CloseClient
    <2>1. UNCHANGED <<tpc, logVars, eventVars>>
      BY <1>6 DEF Accept, SetActive, MarkNew, RecvLoop, BeginRecv, RecvData, RecvEnd,
           ShutAfterRecv, DropAfterRecv, CloseClient, sendVars
    <2> QED
      BY <2>1, AwakeKept DEF logVars
  <1>7. ASSUME NEW c \in TelnetClients, TelnetConnect(c) \/ TelnetLeave(c)
        PROVE  AwakeInv'
    <2>1. UNCHANGED <<tpc, logVars, eventVars>>
      BY <1>7 DEF TelnetConnect, TelnetLeave, sendVars
    <2> QED
      BY <2>1, AwakeKept DEF logVars
  <1> QED
    BY <1>1, <1>2, <1>3, <1>4, <1>5, <1>6, <1>7
       DEF TelnetNext, SocketSendThread, DaemonThread, DaemonRuns

\* So does every step of the websocket bridge (console_bridge_ws.c:45-254).
LEMMA AwakeWs ==
    ASSUME Ws \in Readers
    PROVE  CursorInv /\ ThreadInv /\ AwakeInv /\ WsNext /\ (Telnet \in Readers => tpc' = tpc)
              => AwakeInv'
  <1> SUFFICES ASSUME CursorInv, ThreadInv, AwakeInv, WsNext, Telnet \in Readers => tpc' = tpc
               PROVE  AwakeInv'
    OBVIOUS
  <1>0. wpc["ws"] # "check" => ~Blocked(Ws)
    BY DEF AwakeInv, BlockInv
  <1>1. CASE CheckWsClient \/ RewindNewClient \/ Again \/ BeginSendMsg \/ SendMsgDone \/ Sleep
             \/ ws_send \/ SendMsgError \/ EndAgain
    <2>1. ~Blocked(Ws) /\ UNCHANGED eventVars
      BY <1>0, <1>1 DEF CheckWsClient, RewindNewClient, Again, BeginSendMsg, SendMsgDone, Sleep,
           ws_send, SendMsgError, EndAgain, CallEnd, Step, WsStep, Ws
    <2>2. wpc'["ws"] # "wait_data"
      BY <1>1 DEF CheckWsClient, RewindNewClient, Again, BeginSendMsg, SendMsgDone, Sleep,
           ws_send, SendMsgError, EndAgain, CallEnd, Step, WsStep, ThreadInv, WsThreads
    <2> QED
      BY <2>1, <2>2, AwakeRuns DEF AtWait, Telnet, Ws
  <1>2. CASE ws_end_client_connection("ws")
    <2>1. ~Blocked(Ws) /\ UNCHANGED eventVars /\ wpc'["ws"] # "wait_data"
      BY <1>0, <1>2 DEF ws_end_client_connection, EndService, EndSocket, EndFd, Step, ThreadInv,
           WsThreads, Ending
    <2> QED
      BY <2>1, AwakeRuns DEF AtWait, Telnet, Ws
  <1>3. CASE ReadWsLog
    <2>0. ReadStart(Ws) = received => pos[Ws] = received
      BY ReadEndFacts
    <2>1. ~Blocked(Ws) /\ UNCHANGED eventVars
          /\ (wpc'["ws"] = "wait_data" => pos'[Ws] = received')
      BY <1>3, <2>0 DEF ReadWsLog, WsStep, Step, ThreadInv, WsThreads, Ws, logVars
    <2> QED
      BY <2>1, AwakeRuns DEF AtWait, Telnet, Ws
  <1>4. CASE WaitWsClient
    <2> DEFINE bits == {EVENT_WEBSOCKET_CLIENT}
    <2>1. /\ k_event_wait_safe(Ws, bits) /\ UNCHANGED logVars
          /\ ~Blocked(Ws) /\ wpc'["ws"] = "check"
      BY <1>4 DEF WaitWsClient, WsStep, Step, ThreadInv, WsThreads, Ws
    <2>2. bits \in SUBSET AllEvents /\ EVENT_CONSOLE_LOG_DATA \notin bits
      BY DEF AllEvents, EVENT_CONSOLE_LOG_DATA, EVENT_WEBSOCKET_CLIENT
    <2> HIDE DEF bits
    <2> QED
      BY <2>1, <2>2, AwakeWaits DEF AtWait, Telnet, Ws
  <1>5. CASE WaitWsData
    <2> DEFINE bits == {EVENT_WEBSOCKET_CLIENT, EVENT_CONSOLE_LOG_DATA}
    <2>1. /\ k_event_wait_safe(Ws, bits) /\ UNCHANGED logVars /\ AtWait(Ws)
          /\ ~Blocked(Ws) /\ wpc'["ws"] = "check"
      BY <1>5 DEF WaitWsData, WsStep, Step, ThreadInv, WsThreads, AtWait, Ws
    <2>2. bits \in SUBSET AllEvents
      BY DEF AllEvents
    <2>3. ~AtWait(Ws)'
      BY <2>1 DEF AtWait, Telnet, Ws
    <2> HIDE DEF bits
    <2> QED
      BY <2>1, <2>2, <2>3, AwakeWaits DEF Telnet, Ws
  <1>6. CASE PostWsClient
    <2>1. UNCHANGED logVars /\ k_event_post(EVENT_WEBSOCKET_CLIENT) /\ wpc'["ws"] = wpc["ws"]
      BY <1>6 DEF PostWsClient, Step, ThreadInv, WsThreads
    <2> QED
      BY <2>1, AwakePost
  <1>7. CASE \/ AuthFails \/ AuthDone \/ MarkNewWs \/ Register \/ SetWsFd \/ ws_server_cb
             \/ ws_recv \/ \E t \in {"http", "svc"} : ws_end_client_connection(t)
             \/ \E c \in WsClients : Upgrade(c) \/ WsLeave(c)
    <2>1. wpc'["ws"] = wpc["ws"]
      BY <1>7, OthersKeepSender
    <2>2. UNCHANGED <<logVars, eventVars>>
      BY <1>7 DEF AuthFails, AuthDone, MarkNewWs, Register, SetWsFd, ws_server_cb, ws_recv,
           ws_end_client_connection, EndService, EndSocket, EndFd, Upgrade, WsLeave
    <2> QED
      BY <2>1, <2>2, AwakeKept DEF logVars
  <1> QED
    BY <1>1, <1>2, <1>3, <1>4, <1>5, <1>6, <1>7
       DEF WsNext, WsSendThread, HttpThread, HttpRuns, ServiceThread

\* The websocket sender, on its own, is never asleep on output it has not read
\* (console_bridge_ws.c:139-148 against console_logger.c:69-78).
THEOREM WsNoLostWakeup ==
    ASSUME Readers = {Ws}
    PROVE  WsSpec => []SomeSenderAwake
  <1>0. Ws \in Readers /\ Telnet \notin Readers /\ Readers # {}
    BY DEF Telnet, Ws
  <1> DEFINE Inv == CursorInv /\ ThreadInv /\ AwakeInv
  <1>1. WsAloneInit => Inv
    <2> SUFFICES ASSUME WsAloneInit PROVE Inv
      OBVIOUS
    <2>1. CursorInv /\ ThreadInv
      BY <1>0, CursorInit, WsInitial DEF WsAloneInit
    <2>2. BlockInv /\ pos[Ws] = received
      BY <1>0 DEF WsAloneInit, SharedInit, Log!Init, EventsInit, BlockInv, Blocked
    <2> QED
      BY <1>0, <2>1, <2>2 DEF AwakeInv, Looks
  <1>2. Inv /\ [WsStepOrRx]_wvars => Inv'
    <2> SUFFICES ASSUME Inv, [WsStepOrRx]_wvars
                 PROVE  Inv'
      OBVIOUS
    <2>1. CASE WsNext
      BY <1>0, <2>1, CursorWs, ThreadStep, AwakeWs
    <2>2. ASSUME UNCHANGED wsVars PROVE ThreadInv' /\ wpc' = wpc
      BY <2>2 DEF ThreadInv, wsVars
    <2>3. CASE UartCallback /\ UNCHANGED wsVars
      <3>1. CursorInv' /\ ThreadInv' /\ wpc' = wpc
        BY <2>2, <2>3, CursorRx
      <3>2. uart_rx_allocate => UNCHANGED <<received, pos, eventVars>>
        BY DEF uart_rx_allocate, Log!Retire
      <3> QED
        BY <1>0, <2>3, <3>1, <3>2, AwakeRx, AwakeKept DEF UartCallback
    <2>4. CASE UNCHANGED wvars
      <3>1. UNCHANGED <<logVars, eventVars, wsVars>>
        BY <2>4 DEF wvars
      <3>2. CursorInv'
        BY <3>1 DEF CursorInv, logVars
      <3> QED
        BY <1>0, <2>2, <3>1, <3>2, AwakeKept DEF logVars
    <2> QED
      BY <2>1, <2>3, <2>4 DEF WsStepOrRx
  <1>3. Inv => SomeSenderAwake
    BY DEF AwakeInv, Looks, SomeSenderAwake
  <1> QED
    BY <1>1, <1>2, <1>3, PTL DEF WsSpec, WsStepOrRx

\* With both senders on one event bit, whatever the host sent is seen by at least
\* one of them: never are both asleep on output they have not read.  (That each
\* of them sees it is not so: EverySenderAwake fails.)
THEOREM OneSenderAwake ==
    ASSUME Readers = {Telnet, Ws}
    PROVE  Spec => []SomeSenderAwake
  <1>0. Telnet \in Readers /\ Ws \in Readers /\ Readers # {}
    OBVIOUS
  <1>1. Init => AwakeInv
    <2> SUFFICES ASSUME Init PROVE AwakeInv
      OBVIOUS
    <2>1. BlockInv /\ pos[Ws] = received
      BY <1>0 DEF Init, SharedInit, Log!Init, EventsInit, BlockInv, Blocked
    <2> QED
      BY <1>0, <2>1 DEF AwakeInv, Looks
  <1>2. CursorInv /\ ThreadInv /\ AwakeInv /\ [Next]_vars => AwakeInv'
    <2> SUFFICES ASSUME CursorInv, ThreadInv, AwakeInv, [Next]_vars
                 PROVE  AwakeInv'
      OBVIOUS
    <2>1. UNCHANGED telnetVars => tpc' = tpc
      BY DEF telnetVars, sendVars
    <2>2. UNCHANGED wsVars => wpc' = wpc
      BY DEF wsVars
    <2>3. CASE HostOutput
      <3>1. uart_rx_allocate => UNCHANGED <<received, pos, eventVars>>
        BY DEF uart_rx_allocate, Log!Retire
      <3> QED
        BY <1>0, <2>1, <2>2, <2>3, <3>1, AwakeRx, AwakeKept DEF HostOutput, UartCallback
    <2>4. CASE TelnetNext /\ UNCHANGED wsVars
      BY <1>0, <2>2, <2>4, AwakeTelnet
    <2>5. CASE WsNext /\ UNCHANGED telnetVars
      BY <1>0, <2>1, <2>5, AwakeWs
    <2>6. CASE UNCHANGED vars
      <3>1. UNCHANGED <<logVars, eventVars, telnetVars, wsVars>>
        BY <2>6 DEF vars
      <3> QED
        BY <3>1, <2>1, <2>2, AwakeKept DEF logVars
    <2> QED
      BY <2>3, <2>4, <2>5, <2>6 DEF Next
  <1>3. AwakeInv => SomeSenderAwake
    BY DEF AwakeInv, Looks, SomeSenderAwake
  <1> QED
    BY <1>0, <1>1, <1>2, <1>3, TogetherInductive, PTL DEF Spec

-----------------------------------------------------------------------------
(* New clients.                                                            *)

\* What each sender may be waiting for.
WaitsInv ==
    /\ BlockInv
    /\ waiting[Telnet] \in
          {{}, {EVENT_TELNET_CLIENT}, {EVENT_TELNET_CLIENT, EVENT_CONSOLE_LOG_DATA}}
    /\ waiting[Ws] \in
          {{}, {EVENT_WEBSOCKET_CLIENT}, {EVENT_WEBSOCKET_CLIENT, EVENT_CONSOLE_LOG_DATA}}

\* The sender sees an announced client before it next waits for one.
TelnetToldInv ==
    active_client_fd # None /\ dpc \notin {"mark", "post"} =>
        /\ tpc = "wait_client" => EVENT_TELNET_CLIENT \in events
        /\ Blocked(Telnet) => EVENT_CONSOLE_LOG_DATA \in waiting[Telnet]

\* The same of the websocket.
WsToldInv ==
    ws_fd # None /\ wpc["http"] \notin {"mark", "register", "post"} =>
        /\ wpc["ws"] = "wait_client" => EVENT_WEBSOCKET_CLIENT \in events
        /\ Blocked(Ws) => EVENT_CONSOLE_LOG_DATA \in waiting[Ws]

\* The bits are different bits.
LEMMA EventNames ==
    /\ EVENT_TELNET_CLIENT # EVENT_CONSOLE_LOG_DATA
    /\ EVENT_WEBSOCKET_CLIENT # EVENT_CONSOLE_LOG_DATA
    /\ EVENT_WEBSOCKET_CLIENT # EVENT_TELNET_CLIENT
    /\ AllEvents = {EVENT_CONSOLE_LOG_DATA, EVENT_WEBSOCKET_CLIENT, EVENT_TELNET_CLIENT}
    /\ Telnet # Ws
  BY DEF EVENT_TELNET_CLIENT, EVENT_CONSOLE_LOG_DATA, EVENT_WEBSOCKET_CLIENT, AllEvents, Telnet, Ws

\* A post wakes and sets no bit but its own; if it wakes nobody the bit is set.
LEMMA PostFacts ==
    ASSUME Telnet \in Readers, Ws \in Readers, waiting \in [Readers -> SUBSET AllEvents],
           NEW e, k_event_post(e)
    PROVE  /\ waiting' \in [Readers -> SUBSET AllEvents]
           /\ \A r \in Readers : waiting'[r] = IF e \in waiting[r] THEN {} ELSE waiting[r]
           /\ \A f : f # e => (f \in events' <=> f \in events)
           /\ (\A r \in Readers : e \notin waiting[r]) => e \in events'
  BY DEF k_event_post

\* A wait concerns one thread and the bits it waits for.
LEMMA WaitFacts ==
    ASSUME waiting \in [Readers -> SUBSET AllEvents], NEW r \in Readers,
           NEW bits \in SUBSET AllEvents, k_event_wait_safe(r, bits)
    PROVE  /\ waiting' \in [Readers -> SUBSET AllEvents]
           /\ \A q \in Readers : q # r => waiting'[q] = waiting[q]
           /\ \A f : f \notin bits => (f \in events' <=> f \in events)
           /\ waiting'[r] \in {waiting[r], bits}
           /\ events \cap bits # {} => waiting' = waiting
  BY DEF k_event_wait_safe

\* A step outside the telnet bridge that leaves its bit set and wakes its sender or
\* leaves it asleep.
LEMMA TelnetToldKept ==
    ASSUME TelnetToldInv, UNCHANGED telnetVars,
           EVENT_TELNET_CLIENT \in events => EVENT_TELNET_CLIENT \in events',
           waiting'[Telnet] \in {waiting[Telnet], {}}
    PROVE  TelnetToldInv'
  <1>1. UNCHANGED <<active_client_fd, dpc, tpc>>
    BY DEF telnetVars, sendVars, daemonVars, fdVars
  <1> QED
    BY <1>1 DEF TelnetToldInv, Blocked

\* The same for the websocket bridge.
LEMMA WsToldKept ==
    ASSUME WsToldInv, UNCHANGED wsVars,
           EVENT_WEBSOCKET_CLIENT \in events => EVENT_WEBSOCKET_CLIENT \in events',
           waiting'[Ws] \in {waiting[Ws], {}}
    PROVE  WsToldInv'
  <1>1. UNCHANGED <<ws_fd, wpc>>
    BY DEF wsVars, wfdVars
  <1> QED
    BY <1>1 DEF WsToldInv, Blocked

\* New output leaves the bits of the clients alone (console_logger.c:69-78).
LEMMA ToldRx ==
    ASSUME Telnet \in Readers, Ws \in Readers, WaitsInv, TelnetToldInv, WsToldInv, HostOutput
    PROVE  (WaitsInv /\ TelnetToldInv /\ WsToldInv)'
  <1>1. /\ k_event_post(EVENT_CONSOLE_LOG_DATA) \/ UNCHANGED <<events, waiting>>
        /\ UNCHANGED <<telnetVars, wsVars>>
    BY DEF HostOutput, UartCallback, uart_rx_ready, uart_rx_allocate, eventVars
  <1>2. /\ waiting' \in [Readers -> SUBSET AllEvents]
        /\ waiting'[Telnet] \in {waiting[Telnet], {}} /\ waiting'[Ws] \in {waiting[Ws], {}}
        /\ \A f : f # EVENT_CONSOLE_LOG_DATA => (f \in events' <=> f \in events)
    BY <1>1, PostFacts DEF WaitsInv, BlockInv
  <1>3. UNCHANGED <<tpc, wpc>>
    BY <1>1 DEF telnetVars, sendVars, wsVars
  <1>4. WaitsInv'
    BY <1>2, <1>3 DEF WaitsInv, BlockInv, Blocked
  <1> QED
    BY <1>1, <1>2, <1>4, EventNames, TelnetToldKept, WsToldKept

\* What the telnet bridge does to the events: it waits for its own bit and for output,
\* and posts its own (console_bridge.c:42-65, 92-95).
LEMMA ToldTelnet ==
    ASSUME Telnet \in Readers, Ws \in Readers, WaitsInv, TelnetToldInv, WsToldInv,
           TelnetNext, UNCHANGED wsVars
    PROVE  (WaitsInv /\ TelnetToldInv /\ WsToldInv)'
  <1>0. /\ waiting \in [Readers -> SUBSET AllEvents] /\ wpc' = wpc
        /\ Blocked(Telnet) => tpc = "check"
    BY DEF WaitsInv, BlockInv, wsVars
  <1>1. ASSUME UNCHANGED eventVars, ~Blocked(Telnet),
               tpc' # "wait_client" \/ active_client_fd' = None
        PROVE  (WaitsInv /\ TelnetToldInv /\ WsToldInv)'
    <2>1. events' = events /\ waiting' = waiting
      BY <1>1 DEF eventVars
    <2>2. WaitsInv'
      BY <1>0, <1>1, <2>1 DEF WaitsInv, BlockInv, Blocked
    <2>3. TelnetToldInv'
      BY <1>1, <2>1 DEF TelnetToldInv, Blocked
    <2> QED
      BY <2>1, <2>2, <2>3, WsToldKept
  <1>2. ASSUME UNCHANGED <<eventVars, tpc>>,
               \/ active_client_fd' = None
               \/ dpc' \in {"mark", "post"}
               \/ active_client_fd' = active_client_fd /\ dpc \notin {"mark", "post"}
        PROVE  (WaitsInv /\ TelnetToldInv /\ WsToldInv)'
    <2>1. events' = events /\ waiting' = waiting
      BY <1>2 DEF eventVars
    <2>2. WaitsInv'
      BY <1>0, <1>2, <2>1 DEF WaitsInv, BlockInv, Blocked
    <2>3. TelnetToldInv'
      BY <1>2, <2>1 DEF TelnetToldInv, Blocked
    <2> QED
      BY <2>1, <2>2, <2>3, WsToldKept
  <1>3. CASE CheckClient
    BY <1>1, <1>3 DEF CheckClient, TelnetStep, Telnet, fdVars
  <1>4. CASE SeekNewClient \/ ClearNewClient \/ ReadLog \/ RecheckClient \/ BeginSend
             \/ SendDone \/ SendError \/ ShutAfterSend \/ DropAfterSend
    <2>1. UNCHANGED eventVars /\ ~Blocked(Telnet) /\ tpc' # "wait_client"
      BY <1>4 DEF SeekNewClient, ClearNewClient, ReadLog, RecheckClient, BeginSend, SendDone,
             SendError, ShutAfterSend, DropAfterSend, TelnetStep, Telnet
    <2> QED
      BY <1>1, <2>1
  <1>5. CASE WaitClient
    <2>1. /\ tpc = "wait_client" /\ tpc' = "check" /\ ~Blocked(Telnet)
          /\ k_event_wait_safe(Telnet, {EVENT_TELNET_CLIENT})
          /\ UNCHANGED <<active_client_fd, dpc>>
      BY <1>5 DEF WaitClient, TelnetStep, Telnet, fdVars, daemonVars
    <2>2. {EVENT_TELNET_CLIENT} \in SUBSET AllEvents
      BY EventNames
    <2>3. /\ waiting' \in [Readers -> SUBSET AllEvents] /\ waiting'[Ws] = waiting[Ws]
          /\ \A f : f \notin {EVENT_TELNET_CLIENT} => (f \in events' <=> f \in events)
          /\ waiting'[Telnet] \in {waiting[Telnet], {EVENT_TELNET_CLIENT}}
          /\ events \cap {EVENT_TELNET_CLIENT} # {} => waiting' = waiting
      BY <1>0, <2>1, <2>2, WaitFacts, EventNames
    <2>4. WaitsInv'
      BY <1>0, <2>1, <2>3 DEF WaitsInv, BlockInv, Blocked
    <2>5. TelnetToldInv'
      BY <2>1, <2>3 DEF TelnetToldInv, Blocked
    <2> QED
      BY <2>3, <2>4, <2>5, WsToldKept, EventNames
  <1>6. CASE WaitData
    <2> DEFINE bits == {EVENT_TELNET_CLIENT, EVENT_CONSOLE_LOG_DATA}
    <2>1. /\ tpc' = "check" /\ ~Blocked(Telnet) /\ k_event_wait_safe(Telnet, bits)
      BY <1>6 DEF WaitData, TelnetStep, Telnet
    <2>2. bits \in SUBSET AllEvents
      BY EventNames
    <2>3. /\ waiting' \in [Readers -> SUBSET AllEvents] /\ waiting'[Ws] = waiting[Ws]
          /\ \A f : f \notin bits => (f \in events' <=> f \in events)
          /\ waiting'[Telnet] \in {waiting[Telnet], bits}
      BY <1>0, <2>1, <2>2, WaitFacts, EventNames
    <2>4. WaitsInv'
      BY <1>0, <2>1, <2>3 DEF WaitsInv, BlockInv, Blocked
    <2>5. TelnetToldInv'
      BY <2>1, <2>3 DEF TelnetToldInv, Blocked
    <2> QED
      BY <2>3, <2>4, <2>5, WsToldKept, EventNames
  <1>7. CASE PostClient
    <2>1. k_event_post(EVENT_TELNET_CLIENT) /\ tpc' = tpc
      BY <1>7 DEF PostClient, sendVars
    <2>2. /\ waiting' \in [Readers -> SUBSET AllEvents]
          /\ \A r \in Readers :
                waiting'[r] = IF EVENT_TELNET_CLIENT \in waiting[r] THEN {} ELSE waiting[r]
          /\ \A f : f # EVENT_TELNET_CLIENT => (f \in events' <=> f \in events)
          /\ (\A r \in Readers : EVENT_TELNET_CLIENT \notin waiting[r])
                => EVENT_TELNET_CLIENT \in events'
      BY <1>0, <2>1, PostFacts
    <2>3. waiting'[Telnet] = {} /\ waiting'[Ws] = waiting[Ws]
      BY <2>2, EventNames DEF WaitsInv
    <2>4. WaitsInv'
      BY <1>0, <2>1, <2>2, <2>3 DEF WaitsInv, BlockInv, Blocked
    <2>5. tpc = "wait_client" => EVENT_TELNET_CLIENT \in events'
      <3>1. \A r \in Readers : r = Telnet \/ r = Ws
        BY SharedAssumption DEF Telnet, Ws
      <3>2. tpc = "wait_client" => waiting[Telnet] = {}
        BY <1>0 DEF Blocked
      <3>3. EVENT_TELNET_CLIENT \notin waiting[Ws]
        BY EventNames DEF WaitsInv
      <3> QED
        BY <2>2, <3>1, <3>2, <3>3
    <2>6. TelnetToldInv'
      BY <2>1, <2>3, <2>5 DEF TelnetToldInv, Blocked
    <2> QED
      BY <2>2, <2>3, <2>4, <2>6, WsToldKept, EventNames
  <1>8. CASE Accept \/ SetActive \/ MarkNew \/ RecvLoop \/ BeginRecv \/ RecvData \/ RecvEnd
             \/ ShutAfterRecv \/ DropAfterRecv \/ CloseClient
    <2>1. UNCHANGED <<eventVars, tpc>>
      BY <1>8 DEF Accept, SetActive, MarkNew, RecvLoop, BeginRecv, RecvData, RecvEnd,
             ShutAfterRecv, DropAfterRecv, CloseClient, sendVars
    <2>2. \/ active_client_fd' = None
          \/ dpc' \in {"mark", "post"}
          \/ active_client_fd' = active_client_fd /\ dpc \notin {"mark", "post"}
      BY <1>8 DEF Accept, SetActive, MarkNew, RecvLoop, BeginRecv, RecvData, RecvEnd,
             ShutAfterRecv, DropAfterRecv, CloseClient, DaemonStep, fdVars
    <2> QED
      BY <1>2, <2>1, <2>2
  <1>9. ASSUME NEW c \in TelnetClients, TelnetConnect(c) \/ TelnetLeave(c)
        PROVE  (WaitsInv /\ TelnetToldInv /\ WsToldInv)'
    <2>1. UNCHANGED <<eventVars, tpc, active_client_fd, dpc>>
      BY <1>9 DEF TelnetConnect, TelnetLeave, sendVars, fdVars, daemonVars
    <2> QED
      BY <1>2, <2>1
  <1> QED
    BY <1>3, <1>4, <1>5, <1>6, <1>7, <1>8, <1>9
       DEF TelnetNext, SocketSendThread, DaemonThread, DaemonRuns

\* The websocket bridge does the same with its own bit (console_bridge_ws.c:125-148,
\* 210-243).
LEMMA ToldWs ==
    ASSUME Telnet \in Readers, Ws \in Readers, ThreadInv, WaitsInv, TelnetToldInv, WsToldInv,
           WsNext, UNCHANGED telnetVars
    PROVE  (WaitsInv /\ TelnetToldInv /\ WsToldInv)'
  <1> DEFINE Announcing == {"mark", "register", "post"}
  <1>0. /\ waiting \in [Readers -> SUBSET AllEvents] /\ tpc' = tpc
        /\ Blocked(Ws) => wpc["ws"] = "check"
        /\ wpc = [t \in WsThreads |-> wpc[t]] /\ {"ws", "http", "svc"} \subseteq WsThreads
    BY DEF WaitsInv, BlockInv, telnetVars, sendVars, ThreadInv, WsThreads
  <1>1. ASSUME UNCHANGED eventVars, ~Blocked(Ws),
               wpc'["ws"] # "wait_client" \/ ws_fd' = None
        PROVE  (WaitsInv /\ TelnetToldInv /\ WsToldInv)'
    <2>1. events' = events /\ waiting' = waiting
      BY <1>1 DEF eventVars
    <2>2. WaitsInv'
      BY <1>0, <1>1, <2>1 DEF WaitsInv, BlockInv, Blocked
    <2>3. WsToldInv'
      BY <1>1, <2>1 DEF WsToldInv, Blocked
    <2> QED
      BY <2>1, <2>2, <2>3, TelnetToldKept
  <1>2. ASSUME UNCHANGED eventVars, wpc'["ws"] = wpc["ws"],
               \/ ws_fd' = None
               \/ wpc'["http"] \in Announcing
               \/ ws_fd' = ws_fd /\ wpc["http"] \notin Announcing
        PROVE  (WaitsInv /\ TelnetToldInv /\ WsToldInv)'
    <2>1. events' = events /\ waiting' = waiting
      BY <1>2 DEF eventVars
    <2>2. WaitsInv'
      BY <1>0, <1>2, <2>1 DEF WaitsInv, BlockInv, Blocked
    <2>3. WsToldInv'
      BY <1>2, <2>1 DEF WsToldInv, Blocked
    <2> QED
      BY <2>1, <2>2, <2>3, TelnetToldKept
  <1>3. CASE CheckWsClient
    BY <1>0, <1>1, <1>3 DEF CheckWsClient, WsStep, Step, Ws, wfdVars
  <1>4. CASE \/ RewindNewClient \/ ReadWsLog \/ Again \/ ws_send \/ BeginSendMsg \/ SendMsgDone
             \/ Sleep
    <2>1. UNCHANGED eventVars /\ ~Blocked(Ws)
      BY <1>4 DEF RewindNewClient, ReadWsLog, Again, ws_send, BeginSendMsg, SendMsgDone, Sleep,
             WsStep, Ws
    <2>2. wpc'["ws"] # "wait_client"
      BY <1>0, <1>4 DEF RewindNewClient, ReadWsLog, Again, ws_send, CallEnd, BeginSendMsg,
             SendMsgDone, Sleep, WsStep, Step
    <2> QED
      BY <1>1, <2>1, <2>2
  <1>5. CASE SendMsgError \/ EndAgain \/ ws_end_client_connection("ws")
    <2>1. UNCHANGED eventVars /\ wpc["ws"] \in {"sending", "end_again"} \cup Ending
      BY <1>5 DEF SendMsgError, EndAgain, CallEnd, ws_end_client_connection, EndService, EndSocket,
             EndFd, Step, Ending
    <2>2. ~Blocked(Ws)
      BY <1>0, <2>1 DEF Ending
    <2>3. wpc'["ws"] # "wait_client"
      BY <1>0, <1>5 DEF SendMsgError, EndAgain, CallEnd, ws_end_client_connection, EndService,
             EndSocket, EndFd, Step, ThreadInv, Ending
    <2> QED
      BY <1>1, <2>1, <2>2, <2>3
  <1>6. CASE WaitWsClient
    <2>1. /\ wpc["ws"] = "wait_client" /\ wpc' = [wpc EXCEPT !["ws"] = "check"] /\ ~Blocked(Ws)
          /\ k_event_wait_safe(Ws, {EVENT_WEBSOCKET_CLIENT}) /\ ws_fd' = ws_fd
      BY <1>6 DEF WaitWsClient, WsStep, Step, Ws, wfdVars
    <2>2. wpc'["ws"] = "check" /\ wpc'["http"] = wpc["http"]
      BY <1>0, <2>1
    <2>3. {EVENT_WEBSOCKET_CLIENT} \in SUBSET AllEvents
      BY EventNames
    <2>4. /\ waiting' \in [Readers -> SUBSET AllEvents] /\ waiting'[Telnet] = waiting[Telnet]
          /\ \A f : f \notin {EVENT_WEBSOCKET_CLIENT} => (f \in events' <=> f \in events)
          /\ waiting'[Ws] \in {waiting[Ws], {EVENT_WEBSOCKET_CLIENT}}
          /\ events \cap {EVENT_WEBSOCKET_CLIENT} # {} => waiting' = waiting
      BY <1>0, <2>1, <2>3, WaitFacts, EventNames
    <2>5. WaitsInv'
      BY <1>0, <2>2, <2>4 DEF WaitsInv, BlockInv, Blocked
    <2>6. WsToldInv'
      BY <2>1, <2>2, <2>4 DEF WsToldInv, Blocked
    <2> QED
      BY <2>4, <2>5, <2>6, TelnetToldKept, EventNames
  <1>7. CASE WaitWsData
    <2> DEFINE bits == {EVENT_WEBSOCKET_CLIENT, EVENT_CONSOLE_LOG_DATA}
    <2>1. /\ wpc' = [wpc EXCEPT !["ws"] = "check"] /\ ~Blocked(Ws) /\ k_event_wait_safe(Ws, bits)
      BY <1>7 DEF WaitWsData, WsStep, Step, Ws
    <2>2. wpc'["ws"] = "check"
      BY <1>0, <2>1
    <2>3. bits \in SUBSET AllEvents
      BY EventNames
    <2>4. /\ waiting' \in [Readers -> SUBSET AllEvents] /\ waiting'[Telnet] = waiting[Telnet]
          /\ \A f : f \notin bits => (f \in events' <=> f \in events)
          /\ waiting'[Ws] \in {waiting[Ws], bits}
      BY <1>0, <2>1, <2>3, WaitFacts, EventNames
    <2>5. WaitsInv'
      BY <1>0, <2>2, <2>4 DEF WaitsInv, BlockInv, Blocked
    <2>6. WsToldInv'
      BY <2>1, <2>2, <2>4 DEF WsToldInv, Blocked
    <2> QED
      BY <2>4, <2>5, <2>6, TelnetToldKept, EventNames
  <1>8. CASE PostWsClient
    <2>1. /\ k_event_post(EVENT_WEBSOCKET_CLIENT) /\ wpc' = [wpc EXCEPT !["http"] = "idle"]
      BY <1>8 DEF PostWsClient, Step
    <2>2. wpc'["ws"] = wpc["ws"]
      BY <1>0, <2>1
    <2>3. /\ waiting' \in [Readers -> SUBSET AllEvents]
          /\ \A r \in Readers :
                waiting'[r] = IF EVENT_WEBSOCKET_CLIENT \in waiting[r] THEN {} ELSE waiting[r]
          /\ \A f : f # EVENT_WEBSOCKET_CLIENT => (f \in events' <=> f \in events)
          /\ (\A r \in Readers : EVENT_WEBSOCKET_CLIENT \notin waiting[r])
                => EVENT_WEBSOCKET_CLIENT \in events'
      BY <1>0, <2>1, PostFacts
    <2>4. waiting'[Ws] = {} /\ waiting'[Telnet] = waiting[Telnet]
      BY <2>3, EventNames DEF WaitsInv
    <2>5. WaitsInv'
      BY <1>0, <2>2, <2>3, <2>4 DEF WaitsInv, BlockInv, Blocked
    <2>6. wpc["ws"] = "wait_client" => EVENT_WEBSOCKET_CLIENT \in events'
      <3>1. \A r \in Readers : r = Telnet \/ r = Ws
        BY SharedAssumption DEF Telnet, Ws
      <3>2. wpc["ws"] = "wait_client" => waiting[Ws] = {}
        BY <1>0 DEF Blocked
      <3>3. EVENT_WEBSOCKET_CLIENT \notin waiting[Telnet]
        BY EventNames DEF WaitsInv
      <3> QED
        BY <2>3, <3>1, <3>2, <3>3
    <2>7. WsToldInv'
      BY <2>2, <2>4, <2>6 DEF WsToldInv, Blocked
    <2> QED
      BY <2>3, <2>4, <2>5, <2>7, TelnetToldKept, EventNames
  <1>9. CASE AuthDone \/ AuthFails \/ SetWsFd \/ MarkNewWs \/ Register
    <2>1. UNCHANGED eventVars
      BY <1>9 DEF AuthDone, AuthFails, SetWsFd, MarkNewWs, Register
    <2>2. wpc'["ws"] = wpc["ws"]
      BY <1>0, <1>9 DEF AuthDone, CallEnd, AuthFails, SetWsFd, MarkNewWs, Register, Step
    <2>3. \/ ws_fd' = None
          \/ wpc'["http"] \in Announcing
          \/ ws_fd' = ws_fd /\ wpc["http"] \notin Announcing
      BY <1>0, <1>9 DEF AuthDone, CallEnd, AuthFails, SetWsFd, MarkNewWs, Register, Step, wfdVars
    <2> QED
      BY <1>2, <2>1, <2>2, <2>3
  <1>10. ASSUME NEW c \in WsClients, Upgrade(c) \/ WsLeave(c)
         PROVE  (WaitsInv /\ TelnetToldInv /\ WsToldInv)'
    <2>1. UNCHANGED <<eventVars, ws_fd>>
      BY <1>10 DEF Upgrade, WsLeave, wfdVars
    <2>2. /\ wpc'["ws"] = wpc["ws"]
          /\ wpc'["http"] \in Announcing \/ wpc["http"] \notin Announcing
      BY <1>0, <1>10 DEF Upgrade, WsLeave, Step
    <2> QED
      BY <1>2, <2>1, <2>2
  <1>11. CASE ws_server_cb \/ ws_recv \/ ws_end_client_connection("svc")
    <2>1. UNCHANGED eventVars /\ (ws_fd' = ws_fd \/ ws_fd' = None)
      BY <1>11 DEF ws_server_cb, ws_recv, ws_end_client_connection, EndService, EndSocket, EndFd,
             wfdVars
    <2>2. wpc'["ws"] = wpc["ws"] /\ wpc'["http"] = wpc["http"]
      BY <1>0, <1>11 DEF ws_server_cb, ws_recv, ws_end_client_connection, EndService, EndSocket,
             EndFd, CallEnd, Step
    <2> QED
      BY <1>2, <2>1, <2>2
  <1>12. CASE ws_end_client_connection("http")
    <2>1. UNCHANGED eventVars /\ (ws_fd' = ws_fd \/ ws_fd' = None) /\ wpc["http"] \in Ending
      BY <1>12 DEF ws_end_client_connection, EndService, EndSocket, EndFd, Step, wfdVars, Ending
    <2>2. wpc'["ws"] = wpc["ws"]
      BY <1>0, <1>12 DEF ws_end_client_connection, EndService, EndSocket, EndFd, Step
    <2> QED
      BY <1>2, <2>1, <2>2 DEF Ending
  <1> QED
    BY <1>3, <1>4, <1>5, <1>6, <1>7, <1>8, <1>9, <1>10, <1>11, <1>12
       DEF WsNext, WsSendThread, HttpThread, HttpRuns, ServiceThread

\* Once a client is announced, its sender sleeps only for want of output.
ClientsNoticed ==
    /\ active_client_fd # None /\ dpc \notin {"mark", "post"} /\ Blocked(Telnet) =>
          EVENT_CONSOLE_LOG_DATA \in waiting[Telnet]
    /\ ws_fd # None /\ wpc["http"] \notin {"mark", "register", "post"} /\ Blocked(Ws) =>
          EVENT_CONSOLE_LOG_DATA \in waiting[Ws]

\* No sender waits for a client while it has one: wherever between its check of the
\* descriptor and its wait the other thread installs and announces a client, and
\* although both bridges use one event object, the announcement is not lost
\* (console_bridge.c:42-45, 92-95; console_bridge_ws.c:129-132, 224-243).
THEOREM NoClientOverlooked ==
    ASSUME Telnet \in Readers, Ws \in Readers
    PROVE  Spec => []ClientsNoticed
  <1> DEFINE ToldInv == WaitsInv /\ TelnetToldInv /\ WsToldInv
  <1>1. Init => ToldInv
    <2> SUFFICES ASSUME Init PROVE ToldInv
      OBVIOUS
    <2>1. waiting = [t \in Readers |-> {}] /\ active_client_fd = None /\ ws_fd = None
      BY DEF Init, SharedInit, EventsInit, TelnetInit, WsInit
    <2> QED
      BY <2>1 DEF WaitsInv, BlockInv, Blocked, TelnetToldInv, WsToldInv
  <1>2. ThreadInv /\ ToldInv /\ [Next]_vars => ToldInv'
    <2> SUFFICES ASSUME ThreadInv, ToldInv, [Next]_vars PROVE ToldInv'
      OBVIOUS
    <2>1. CASE UNCHANGED vars
      <3>1. UNCHANGED <<events, waiting, telnetVars, wsVars, tpc, wpc>>
        BY <2>1 DEF vars, eventVars, telnetVars, sendVars, wsVars
      <3>2. WaitsInv'
        BY <3>1 DEF WaitsInv, BlockInv, Blocked
      <3> QED
        BY <3>1, <3>2, TelnetToldKept, WsToldKept
    <2> QED
      BY <2>1, ToldRx, ToldTelnet, ToldWs DEF Next
  <1>3. ToldInv => ClientsNoticed
    BY DEF TelnetToldInv, WsToldInv, ClientsNoticed
  <1> QED
    BY <1>1, <1>2, <1>3, TogetherInductive, PTL DEF Spec

=============================================================================
