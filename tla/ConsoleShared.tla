--------------------------- MODULE ConsoleShared ----------------------------
(***************************************************************************)
(* What the telnet and the websocket bridge share: the host console log,   *)
(* as HostLog describes it, and the event object that tells the senders    *)
(* about new output.  Each sender is a thread and a cursor of the log of   *)
(* the same name.                                                          *)
(***************************************************************************)
EXTENDS Events, Integers, FiniteSetsExt

CONSTANTS Readers,    \* the senders: "telnet", "ws"
          None,       \* descriptor -1
          SendBuf,    \* sizeof(buf) of the senders
          Keep,       \* the bytes the log keeps at least
          Chunks,     \* where the chunks of the log begin, which it gives up as a whole
          MaxBytes    \* bound: bytes the host sends

ASSUME SharedAssumption ==
    /\ Readers \subseteq {"telnet", "ws"}
    /\ {SendBuf, Keep} \subseteq Nat \ {0} /\ MaxBytes \in Nat
    /\ Chunks \subseteq 0..MaxBytes

VARIABLES received, oldest, pos

logVars == <<received, oldest, pos>>

Log == INSTANCE HostLog

SharedInit == Log!Init /\ EventsInit(Readers)

SharedTypeOK ==
    /\ received \in 0..MaxBytes /\ oldest \in 0..MaxBytes
    /\ pos \in [Readers -> 0..MaxBytes]
    /\ EventsTypeOK(Readers)

\* Bytes are reported, and may push older ones out of the log.
Report ==
    /\ oldest' \in {oldest} \cup Chunks
    /\ \E n \in 1..(MaxBytes - received) : Log!Append(n)

\* Mutation of uart_rx_ready: the event is not posted.
RxReadySilent == Report /\ UNCHANGED eventVars

\* RX_RDY, in interrupt context: received advances, then the event is posted.
uart_rx_ready == Report /\ k_event_post(EVENT_CONSOLE_LOG_DATA)

\* RX_BUF_REQUEST, in interrupt context: the ring gives up a chunk of old bytes to
\* the bytes to come.  Nobody is told.
uart_rx_allocate ==
    /\ oldest' \in Chunks
    /\ Log!Retire
    /\ UNCHANGED eventVars

\* The console logger's interrupt.
UartCallback == uart_rx_ready \/ uart_rx_allocate

\* host_console_read by sender r: up to SendBuf bytes from its cursor, or from the
\* oldest byte kept if the log has overtaken the cursor.
ReadStart(r) == Log!From(pos[r])
ReadEnd(r) == Min({received, ReadStart(r) + SendBuf})

-----------------------------------------------------------------------------
\* The senders are not all asleep on output they have not read.  With a single
\* sender this says that it never misses a wake-up between finding the log empty
\* and waiting (console_bridge.c:56-65, console_bridge_ws.c:139-148); with two,
\* which consume the same event bit, that at least one of them is woken.
SomeSenderAwake ==
    \E r \in Readers : EVENT_CONSOLE_LOG_DATA \in waiting[r] => pos[r] = received

\* No sender is asleep on output it has not read: each of the two clients gets
\* the console output as it comes.
EverySenderAwake ==
    \A r \in Readers : EVENT_CONSOLE_LOG_DATA \in waiting[r] => pos[r] = received

=============================================================================
