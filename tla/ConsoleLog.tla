----------------------------- MODULE ConsoleLog -----------------------------
(***************************************************************************)
(* The host console log (src/console_logger.c, receive side): a circular   *)
(* buffer that the UART's receive DMA fills chunk by chunk and that the    *)
(* telnet and websocket senders read through cursors of their own.         *)
(*                                                                         *)
(* allocated and received are the two counters of struct console_log.      *)
(* The variables rx, base, fill, rep, nxt and req are the state of the     *)
(* asynchronous UART driver, which is not part of the repository: it is    *)
(* modelled from the contract of the Zephyr calls and events the code uses *)
(* (uart_rx_enable, uart_rx_buf_rsp, RX_RDY, RX_BUF_REQUEST, RX_DISABLED). *)
(* The n-th byte the host sends is the number n, so a slot of the ring     *)
(* shows which byte it holds.                                              *)
(*                                                                         *)
(* Callbacks run in interrupt context and a read holds rx_lock with        *)
(* interrupts masked, so both are single steps; the DMA is not held off by *)
(* the lock and writes between, and during, them.                          *)
(***************************************************************************)
EXTENDS Integers, Sequences, FiniteSetsExt

CONSTANTS LogSize,    \* CONFIG_APP_CONSOLE_LOG_SIZE
          RxBufShare, \* the 16 of UART_RX_BUF_SIZE
          Readers,    \* the cursors that read the log
          ReadSizes,  \* sizes of a reader's buffer
          MaxBytes,   \* bound: bytes the host sends
          MaxFaults   \* bound: times the driver stops, or refuses to start or a buffer

UART_RX_BUF_SIZE == LogSize \div RxBufShare

ASSUME SizeAssumption ==
    /\ LogSize \in Nat \ {0}
    /\ RxBufShare \in Nat \ {0, 1, 2}
    /\ LogSize >= RxBufShare
ASSUME BoundAssumption ==
    /\ MaxBytes \in Nat
    /\ MaxFaults \in Nat
    /\ ReadSizes \subseteq Nat \ {0}

NoBuf == -1    \* no second buffer queued in the driver
Empty == -1    \* a slot no byte was written to yet
Slots == 0..(LogSize - 1)

VARIABLES allocated, received,        \* struct console_log
          log_buffer,                 \* what the ring holds
          pos,                        \* the readers' cursors
          rx, base, fill, rep, nxt, req,  \* the UART driver
          sent, faults                \* bytes written by DMA, faults so far

logVars == <<allocated, received, log_buffer>>
drvVars == <<rx, base, fill, rep, nxt, req>>
vars == <<logVars, pos, drvVars, sent, faults>>

-----------------------------------------------------------------------------
(* Before console_logger_init: the counters are zero and the UART is off.  *)

Init ==
    /\ allocated = 0 /\ received = 0
    /\ log_buffer = [s \in Slots |-> Empty]
    /\ pos = [r \in Readers |-> 0]
    /\ rx = "reset" /\ base = 0 /\ fill = 0 /\ rep = 0 /\ nxt = NoBuf
    /\ req = FALSE
    /\ sent = 0 /\ faults = 0

-----------------------------------------------------------------------------
(* The callbacks.                                                          *)

\* RX_RDY: the driver reports the bytes of the active buffer not yet reported.
uart_rx_ready ==
    received' = received + (fill - rep)

\* Mutations of uart_rx_allocate: the offset is not wrapped; the counter is not
\* advanced; two chunks are taken.
AllocateUnwrapped ==
    /\ nxt' = allocated
    /\ allocated' = allocated + UART_RX_BUF_SIZE
    /\ UNCHANGED faults
AllocateAgain ==
    /\ nxt' = allocated % LogSize
    /\ UNCHANGED <<allocated, faults>>
AllocateTwo ==
    /\ nxt' = allocated % LogSize
    /\ allocated' = allocated + 2 * UART_RX_BUF_SIZE
    /\ UNCHANGED faults

\* RX_BUF_REQUEST: the next chunk of the ring is queued behind the active one.  If
\* uart_rx_buf_rsp fails, the chunk is taken all the same and the error is logged.
uart_rx_allocate ==
    /\ allocated' = allocated + UART_RX_BUF_SIZE
    /\ \/ nxt' = allocated % LogSize /\ UNCHANGED faults
       \/ faults < MaxFaults /\ faults' = faults + 1 /\ UNCHANGED nxt

\* uart_rx_enable succeeds: the chunk is the active buffer and the driver asks
\* for a second one.  If it fails, the chunk is taken all the same, the error
\* is logged and reception stays off.
uart_rx_start ==
    /\ allocated' = allocated + UART_RX_BUF_SIZE
    /\ fill' = 0 /\ rep' = 0 /\ nxt' = NoBuf
    /\ \/ /\ rx' = "on" /\ base' = allocated % LogSize /\ req' = TRUE
          /\ UNCHANGED faults
       \/ /\ faults < MaxFaults /\ faults' = faults + 1
          /\ rx' = "off" /\ req' = FALSE /\ UNCHANGED base

console_logger_init ==
    /\ rx = "reset"
    /\ uart_rx_start
    /\ UNCHANGED <<received, log_buffer, pos, sent>>

BufRequestEvent ==
    /\ rx = "on" /\ req
    /\ uart_rx_allocate
    /\ req' = FALSE
    /\ UNCHANGED <<received, log_buffer, pos, rx, base, fill, rep, sent>>

\* The receive timeout (UART_RX_DELAY_US) reports a partly filled chunk.
RxTimeoutEvent ==
    /\ rx = "on" /\ rep < fill
    /\ uart_rx_ready
    /\ rep' = fill
    /\ UNCHANGED <<allocated, log_buffer, pos, rx, base, fill, nxt, req, sent, faults>>

\* A full chunk is reported, the queued one becomes active, and another is
\* requested.
ChunkFullEvent ==
    /\ rx = "on" /\ fill = UART_RX_BUF_SIZE /\ nxt # NoBuf
    /\ uart_rx_ready
    /\ base' = nxt /\ fill' = 0 /\ rep' = 0 /\ nxt' = NoBuf /\ req' = TRUE
    /\ UNCHANGED <<allocated, log_buffer, pos, rx, sent, faults>>

\* Without a queued chunk the driver stops at the end of the active one.
ChunkLastEvent ==
    /\ rx = "on" /\ fill = UART_RX_BUF_SIZE /\ nxt = NoBuf /\ ~req
    /\ uart_rx_ready
    /\ rep' = fill /\ rx' = "disabled"
    /\ UNCHANGED <<allocated, log_buffer, pos, base, fill, nxt, req, sent, faults>>

\* A line error stops the receiver: what was written is reported, both buffers
\* are given back, and RX_DISABLED is still to come.
RxStop ==
    /\ rx = "on" /\ ~req
    /\ faults < MaxFaults /\ faults' = faults + 1
    /\ uart_rx_ready
    /\ rep' = fill /\ nxt' = NoBuf
    /\ rx' = "disabled"
    /\ UNCHANGED <<allocated, log_buffer, pos, base, fill, req, sent>>

RxDisabledEvent ==
    /\ rx = "disabled"
    /\ uart_rx_start
    /\ UNCHANGED <<received, log_buffer, pos, sent>>

\* The DMA writes the host's next byte into the active chunk.  A byte beyond
\* the end of log_buffer changes memory that is not part of the ring.
DmaByte ==
    /\ rx = "on" /\ fill < UART_RX_BUF_SIZE
    /\ sent < MaxBytes
    /\ log_buffer' = [log_buffer EXCEPT ![base + fill] = sent]
    /\ fill' = fill + 1
    /\ sent' = sent + 1
    /\ UNCHANGED <<allocated, received, pos, rx, base, rep, nxt, req, faults>>

-----------------------------------------------------------------------------
(* The readers.                                                            *)

\* Mutation of Start: the bytes in flight are not taken off.
StartFromReceived == IF received < LogSize THEN 0 ELSE received - LogSize

\* The oldest position a read returns.
Start == IF received < LogSize THEN 0 ELSE allocated - LogSize

\* Where a read from position p begins: what was overwritten is skipped.
ReadFrom(p) == IF Start > p THEN Start ELSE p

\* Mutation of ReadLen: the end of the log is not looked at.
ReadLenUnbounded(p, n) == IF p > received THEN 0 ELSE n

\* How many bytes a read of size n from p returns.  The unsigned difference
\* received - pos wraps to a huge number when the start lies beyond received:
\* then the copy loop fills the whole buffer.
ReadLen(p, n) ==
    IF p > received THEN 0                 \* -EINVAL
    ELSE IF ReadFrom(p) > received THEN n
    ELSE Min({n, received - ReadFrom(p)})

\* The bytes the copy loop returns and the position it leaves behind.
ReadBytes(p, n) ==
    [i \in 1..ReadLen(p, n) |-> log_buffer[(ReadFrom(p) + i - 1) % LogSize]]
\* Mutation of ReadPos: the cursor does not skip what the read skipped.
ReadPosUnskipped(p, n) ==
    IF p > received THEN p ELSE p + ReadLen(p, n)

ReadPos(p, n) ==
    IF p > received THEN p ELSE ReadFrom(p) + ReadLen(p, n)

host_console_read(r) ==
    /\ \E n \in ReadSizes : pos' = [pos EXCEPT ![r] = ReadPos(@, n)]
    /\ UNCHANGED <<logVars, drvVars, sent, faults>>

host_console_seek_end(r) ==
    /\ pos' = [pos EXCEPT ![r] = received]
    /\ UNCHANGED <<logVars, drvVars, sent, faults>>

-----------------------------------------------------------------------------
uart_callback ==
    \/ BufRequestEvent
    \/ RxTimeoutEvent
    \/ ChunkFullEvent
    \/ ChunkLastEvent
    \/ RxDisabledEvent

Next ==
    \/ console_logger_init
    \/ uart_callback
    \/ RxStop
    \/ DmaByte
    \/ \E r \in Readers : host_console_read(r) \/ host_console_seek_end(r)

Spec == Init /\ [][Next]_vars

-----------------------------------------------------------------------------
(* Properties.                                                             *)

\* The receive DMA writes inside log_buffer, and its two buffers are different
\* chunks (console_logger.c:80-110).
DmaInBounds ==
    rx = "on" =>
        /\ base + UART_RX_BUF_SIZE <= LogSize
        /\ nxt # NoBuf => nxt + UART_RX_BUF_SIZE <= LogSize /\ nxt # base

\* The counters of struct console_log are natural numbers, the driver's buffers
\* start at slots of the ring and report no more than they hold.
TypeOK ==
    /\ allocated \in Nat /\ received \in Nat
    /\ log_buffer \in [Slots -> Nat \cup {Empty}]
    /\ pos \in [Readers -> Nat]
    /\ rx \in {"reset", "off", "on", "disabled"}
    /\ base \in Slots /\ nxt \in Slots \cup {NoBuf}
    /\ fill \in 0..UART_RX_BUF_SIZE /\ rep \in 0..fill
    /\ req \in BOOLEAN
    /\ sent \in Nat /\ faults \in Nat

\* At most two chunks of the ring are given to the driver without their bytes
\* having been reported (the comment at console_logger.c:36-42).
InFlightBound == allocated - received <= 2 * UART_RX_BUF_SIZE

\* Without a fault this is InFlightBound.  Every fault of the driver costs at most two
\* more chunks: the two it gave back when it stopped, or the one it refused, are never
\* returned to the ring (uart_rx_start, uart_rx_allocate).
InFlightPerFault ==
    allocated - received <= 2 * UART_RX_BUF_SIZE * (1 + faults)

\* Whatever position a reader asks for, and whatever size its buffer has, the
\* bytes it gets are the ones the host sent at those positions, in order: none
\* stale, none overwritten by a later lap of the ring (console_log_read).
ReadReturnsTheStream ==
    \A p \in 0..received, n \in ReadSizes :
        \A i \in 1..ReadLen(p, n) : ReadBytes(p, n)[i] = ReadFrom(p) + i - 1

\* The same as long as the driver has not stopped or refused anything.
ReadsUntilFault == faults = 0 => ReadReturnsTheStream

\* No byte a read may copy lies where the DMA is about to write, as long as the
\* driver has not failed: rx_lock does not hold the DMA off while
\* console_log_read copies.
ReadAvoidsDma ==
    rx = "on" /\ faults = 0 =>
        \A p \in Start..(received - 1) :
            p % LogSize \notin (base + fill)..(base + UART_RX_BUF_SIZE - 1)

\* A cursor never passes the end of the log: beyond it every read fails with
\* -EINVAL, and a sender would spin (console_bridge.c:56, console_bridge_ws.c:143).
\* Not given: README.md says how it fails.
ReadersBehind == \A r \in Readers : pos[r] <= received

\* While what the faults may have cost fits in the ring (with the code's 16 chunks:
\* up to seven faults since the start) no cursor passes the end of the log, however
\* the reads, the laps and the faults alternate (console_logger.c:143-182).
ReadersBehindFewFaults == 2 * (1 + faults) <= RxBufShare => ReadersBehind

\* The ring implements the abstract log that keeps all but two chunks, and two
\* more for every fault: cursors only skip what is no longer kept, and a read
\* returns something whenever there is something.
Abs == INSTANCE HostLog WITH
           Keep <- LogSize - 2 * UART_RX_BUF_SIZE * (1 + MaxFaults), oldest <- Start
ImplementsHostLog == Abs!Spec

=============================================================================
