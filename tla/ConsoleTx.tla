----------------------------- MODULE ConsoleTx ------------------------------
(***************************************************************************)
(* The transmit side of the console logger (console_log_write of           *)
(* src/console_logger.c): the telnet daemon and the websocket service      *)
(* thread send keystrokes to the host through one UART and one DMA buffer, *)
(* which tx_sem guards from the copy until TX_DONE.                        *)
(*                                                                         *)
(* Each writer writes a stream of its own bytes, numbered from 0, in calls *)
(* of at most MaxWrite bytes; a byte is the pair of writer and number.     *)
(***************************************************************************)
EXTENDS Integers, Sequences, FiniteSetsExt

CONSTANTS Writers,
          UART_TX_BUF_SIZE,
          MaxWrite,   \* the largest write: sizeof(socket_buf), WS_RX_BUF_SIZE
          MaxTyped,   \* bound: bytes each writer writes
          MaxErrors   \* bound: times uart_tx fails

ASSUME TxAssumption ==
    /\ UART_TX_BUF_SIZE \in Nat \ {0}
    /\ MaxWrite \in Nat \ {0}
    /\ MaxTyped \in Nat /\ MaxErrors \in Nat

Idle == <<>>    \* the UART is not transmitting

VARIABLES tx_sem, tx_buffer,
          uart,           \* what the driver was asked to transmit
          wire,           \* what the host received
          pc, size, copied,  \* of each writer: its position in console_log_write
          typed,          \* bytes of completed writes, and of the current one
          errors

vars == <<tx_sem, tx_buffer, uart, wire, pc, size, copied, typed, errors>>

Init ==
    /\ tx_sem = 1 /\ tx_buffer = Idle /\ uart = Idle /\ wire = <<>>
    /\ pc = [w \in Writers |-> "idle"]
    /\ size = [w \in Writers |-> 0]
    /\ copied = [w \in Writers |-> 0]
    /\ typed = [w \in Writers |-> 0]
    /\ errors = 0

\* The bytes n.. of writer w, len of them.
Bytes(w, n, len) == [i \in 1..len |-> <<w, n + i - 1>>]
ChunkLen(w) == Min({size[w] - copied[w], UART_TX_BUF_SIZE})

BeginWrite(w) ==
    /\ pc[w] = "idle"
    /\ \E n \in 1..Min({MaxWrite, MaxTyped - typed[w]}) :
          size' = [size EXCEPT ![w] = n]
    /\ copied' = [copied EXCEPT ![w] = 0]
    /\ pc' = [pc EXCEPT ![w] = "take"]
    /\ UNCHANGED <<tx_sem, tx_buffer, uart, wire, typed, errors>>

k_sem_take(w) ==
    /\ pc[w] = "take" /\ tx_sem > 0
    /\ tx_sem' = tx_sem - 1
    /\ pc' = [pc EXCEPT ![w] = "copy"]
    /\ UNCHANGED <<tx_buffer, uart, wire, size, copied, typed, errors>>

\* Mutation of CopyChunk: every chunk is copied from the beginning of the write.
CopyFirstChunk(w) ==
    /\ pc[w] = "copy"
    /\ tx_buffer' = Bytes(w, typed[w], ChunkLen(w))
    /\ pc' = [pc EXCEPT ![w] = "tx"]
    /\ UNCHANGED <<tx_sem, uart, wire, size, copied, typed, errors>>

CopyChunk(w) ==
    /\ pc[w] = "copy"
    /\ tx_buffer' = Bytes(w, typed[w] + copied[w], ChunkLen(w))
    /\ pc' = [pc EXCEPT ![w] = "tx"]
    /\ UNCHANGED <<tx_sem, uart, wire, size, copied, typed, errors>>

\* The caller does not look at the result: what was not sent is dropped.
Return(w, n) ==
    /\ pc' = [pc EXCEPT ![w] = "idle"]
    /\ typed' = [typed EXCEPT ![w] = @ + size[w]]
    /\ copied' = [copied EXCEPT ![w] = n]

\* Mutations of uart_tx: only the first chunk is sent; the semaphore is given back
\* before the transmission is done.
TxFirstChunk(w) ==
    /\ pc[w] = "tx"
    /\ uart' = tx_buffer
    /\ Return(w, copied[w] + ChunkLen(w))
    /\ UNCHANGED <<tx_sem, tx_buffer, wire, size, errors>>
TxGivesEarly(w) ==
    /\ pc[w] = "tx"
    /\ uart' = tx_buffer
    /\ tx_sem' = 1
    /\ Return(w, copied[w] + ChunkLen(w))
    /\ UNCHANGED <<tx_buffer, wire, size, errors>>

uart_tx(w) ==
    /\ pc[w] = "tx"
    /\ uart' = tx_buffer
    /\ LET n == copied[w] + ChunkLen(w)
       IN  IF n < size[w]
           THEN /\ copied' = [copied EXCEPT ![w] = n]
                /\ pc' = [pc EXCEPT ![w] = "take"]
                /\ UNCHANGED typed
           ELSE Return(w, n)
    /\ UNCHANGED <<tx_sem, tx_buffer, wire, size, errors>>

\* Mutation of UartTxError: the semaphore is not given back.
TxErrorKeepsSem(w) ==
    /\ pc[w] = "tx" /\ errors < MaxErrors
    /\ errors' = errors + 1
    /\ Return(w, copied[w])
    /\ UNCHANGED <<tx_sem, tx_buffer, uart, wire, size>>

\* uart_tx refuses: the semaphore is given back and the write ends short.
UartTxError(w) ==
    /\ pc[w] = "tx" /\ errors < MaxErrors
    /\ errors' = errors + 1
    /\ tx_sem' = tx_sem + 1
    /\ Return(w, copied[w])
    /\ UNCHANGED <<tx_buffer, uart, wire, size>>

\* The DMA reads tx_buffer while it transmits; TX_DONE gives the semaphore.
TxDone ==
    /\ uart # Idle
    /\ wire' = wire \o SubSeq(tx_buffer, 1, Len(uart))
    /\ uart' = Idle
    /\ tx_sem' = tx_sem + 1
    /\ UNCHANGED <<tx_buffer, pc, size, copied, typed, errors>>

Next ==
    \/ TxDone
    \/ \E w \in Writers :
          BeginWrite(w) \/ k_sem_take(w) \/ CopyChunk(w) \/ uart_tx(w) \/ UartTxError(w)

Fairness ==
    /\ WF_vars(TxDone)
    /\ \A w \in Writers :
          WF_vars(k_sem_take(w) \/ CopyChunk(w) \/ uart_tx(w))

Spec == Init /\ [][Next]_vars
FairSpec == Spec /\ Fairness

-----------------------------------------------------------------------------
\* tx_sem counts to one, and the buffers hold what the writers typed.
TypeOK ==
    /\ tx_sem \in {0, 1}
    /\ {tx_buffer, uart, wire} \subseteq Seq(Writers \X (0..(MaxTyped - 1)))
    /\ pc \in [Writers -> {"idle", "take", "copy", "tx"}]
    /\ size \in [Writers -> 0..MaxWrite] /\ copied \in [Writers -> 0..MaxWrite]
    /\ typed \in [Writers -> 0..MaxTyped] /\ errors \in 0..MaxErrors

\* The buffer the UART is transmitting is not overwritten by either writer.
TxBufferStable == uart # Idle => tx_buffer = uart

\* Keystrokes reach the host in the order each client typed them, none twice,
\* however the two clients' writes interleave.
WireInOrder ==
    \A i, j \in 1..Len(wire) : i < j /\ wire[i][1] = wire[j][1] => wire[i][2] < wire[j][2]

\* If uart_tx never fails, every byte of a finished write reached the host or is
\* being transmitted.
NothingDropped ==
    errors = 0 =>
        \A w \in Writers : \A n \in 0..(typed[w] - 1) :
            \E i \in 1..Len(wire \o uart) : (wire \o uart)[i] = <<w, n>>

\* Every write ends: the semaphore comes back after each chunk, sent or refused.
WritesEnd == \A w \in Writers : pc[w] = "take" ~> pc[w] = "idle"

=============================================================================
