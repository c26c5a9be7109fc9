-------------------------- MODULE ConsoleTxProofs ---------------------------
(***************************************************************************)
(* Proofs about the transmit side of the console logger (ConsoleTx): for   *)
(* any set of writers, any size of the transmit buffer and any writes, the *)
(* buffer is not changed under the UART, and what every writer typed       *)
(* reaches the host in order and, if the UART takes it, whole.             *)
(***************************************************************************)
EXTENDS ConsoleTx, SequenceTheorems, TLAPS

Byte == Writers \X Nat

\* The smaller of two numbers.
LEMMA MinOfTwo ==
    ASSUME NEW a \in Int, NEW b \in Int
    PROVE  Min({a, b}) = IF a <= b THEN a ELSE b
  <1> DEFINE m == IF a <= b THEN a ELSE b
  <1>1. m \in {a, b} /\ \A y \in {a, b} : m <= y
    OBVIOUS
  <1>2. \A x \in {a, b} : (\A y \in {a, b} : x <= y) => x = m
    OBVIOUS
  <1> QED
    BY <1>1, <1>2 DEF Min

\* A chunk is a sequence of len bytes of one writer.
LEMMA BytesFacts ==
    ASSUME NEW w \in Writers, NEW n \in Nat, NEW len \in Nat
    PROVE  /\ Bytes(w, n, len) \in Seq(Byte)
           /\ Len(Bytes(w, n, len)) = len
           /\ \A i \in 1..len : Bytes(w, n, len)[i] = <<w, n + i - 1>>
  <1>1. \A i \in 1..len : <<w, n + i - 1>> \in Byte
    BY DEF Byte
  <1>2. Bytes(w, n, len) \in [1..len -> Byte]
    BY <1>1 DEF Bytes
  <1>3. Bytes(w, n, len) \in Seq(Byte) /\ Len(Bytes(w, n, len)) = len
    BY <1>2
  <1> QED
    BY <1>3 DEF Bytes

-----------------------------------------------------------------------------
(* The semaphore.                                                          *)

\* Between taking the semaphore and calling uart_tx a writer owns the buffer.
Owns(w) == pc[w] \in {"copy", "tx"}

\* Where every writer is: a write is not longer than what its client types, and
\* as long as it runs something of it is left to send.
WriterInv ==
    /\ pc \in [Writers -> {"idle", "take", "copy", "tx"}]
    /\ size \in [Writers -> 0..MaxWrite] /\ copied \in [Writers -> 0..MaxWrite]
    /\ typed \in [Writers -> 0..MaxTyped] /\ errors \in 0..MaxErrors
    /\ \A w \in Writers : pc[w] # "idle" =>
          copied[w] < size[w] /\ typed[w] + size[w] <= MaxTyped

\* The semaphore is free, or one writer owns the buffer, or the UART has it;
\* what is in the buffer is the owner's next chunk, or what is being sent.
BufferInv ==
    /\ tx_sem \in {0, 1}
    /\ uart \in Seq(Byte) /\ tx_buffer \in Seq(Byte)
    /\ tx_sem = 1 => uart = Idle /\ \A w \in Writers : ~Owns(w)
    /\ \A w \in Writers : Owns(w) => uart = Idle
    /\ \A w, v \in Writers : Owns(w) /\ Owns(v) => w = v
    /\ uart # Idle => tx_buffer = uart
    /\ \A w \in Writers : pc[w] = "tx" =>
          tx_buffer = Bytes(w, typed[w] + copied[w], ChunkLen(w))

SemInv == WriterInv /\ BufferInv

\* A chunk is not empty, fits in the buffer and ends within its write.
LEMMA ChunkFacts ==
    ASSUME WriterInv, NEW w \in Writers, pc[w] # "idle"
    PROVE  /\ ChunkLen(w) \in Nat \ {0}
           /\ copied[w] + ChunkLen(w) <= size[w]
           /\ ChunkLen(w) <= UART_TX_BUF_SIZE
  <1>1. size[w] \in Nat /\ copied[w] \in Nat /\ copied[w] < size[w]
    BY TxAssumption DEF WriterInv
  <1>2. ChunkLen(w) = IF size[w] - copied[w] <= UART_TX_BUF_SIZE
                      THEN size[w] - copied[w] ELSE UART_TX_BUF_SIZE
    BY <1>1, TxAssumption, MinOfTwo DEF ChunkLen
  <1> QED
    BY <1>1, <1>2, TxAssumption

\* A write keeps to its own chunks (console_logger.c:184-206).
LEMMA WriterInductive == Spec => []WriterInv
  <1> USE TxAssumption
  <1>1. Init => WriterInv
    BY DEF Init, WriterInv
  <1>2. WriterInv /\ [Next]_vars => WriterInv'
    <2> SUFFICES ASSUME WriterInv, [Next]_vars PROVE WriterInv'
      OBVIOUS
    <2>1. CASE TxDone
      BY <2>1 DEF TxDone, WriterInv
    <2>2. ASSUME NEW w \in Writers, BeginWrite(w) PROVE WriterInv'
      <3>1. PICK n \in 1..Min({MaxWrite, MaxTyped - typed[w]}) : size' = [size EXCEPT ![w] = n]
        BY <2>2 DEF BeginWrite
      <3>2. n \in 1..MaxWrite /\ typed[w] + n <= MaxTyped
        BY MinOfTwo DEF WriterInv
      <3> QED
        BY <2>2, <3>1, <3>2 DEF BeginWrite, WriterInv
    <2>3. ASSUME NEW w \in Writers, k_sem_take(w) \/ CopyChunk(w) PROVE WriterInv'
      BY <2>3 DEF k_sem_take, CopyChunk, WriterInv
    <2>4. ASSUME NEW w \in Writers, uart_tx(w) PROVE WriterInv'
      <3>1. pc[w] = "tx" /\ ChunkLen(w) \in Nat \ {0} /\ copied[w] + ChunkLen(w) <= size[w]
        BY <2>4, ChunkFacts DEF uart_tx
      <3> DEFINE n == copied[w] + ChunkLen(w)
      <3>2. n \in 0..MaxWrite
        BY <3>1 DEF WriterInv
      <3>3. CASE n < size[w]
        BY <2>4, <3>1, <3>2, <3>3 DEF uart_tx, WriterInv
      <3>4. CASE ~(n < size[w])
        BY <2>4, <3>1, <3>2, <3>4 DEF uart_tx, Return, WriterInv
      <3> QED
        BY <3>3, <3>4
    <2>5. ASSUME NEW w \in Writers, UartTxError(w) PROVE WriterInv'
      BY <2>5 DEF UartTxError, Return, WriterInv
    <2>6. CASE UNCHANGED vars
      BY <2>6 DEF vars, WriterInv
    <2> QED
      BY <2>1, <2>2, <2>3, <2>4, <2>5, <2>6 DEF Next
  <1> QED
    BY <1>1, <1>2, PTL DEF Spec

\* tx_sem and the TX_DONE callback keep BufferInv (console_logger.c:112-206).
LEMMA BufferInductive == Spec => []BufferInv
  <1> USE TxAssumption
  <1>1. Init => BufferInv
    BY DEF Init, BufferInv, Owns, Idle
  <1>2. WriterInv /\ BufferInv /\ [Next]_vars => BufferInv'
    <2> SUFFICES ASSUME WriterInv, BufferInv, [Next]_vars PROVE BufferInv'
      OBVIOUS
    <2>1. CASE TxDone
      <3>1. \A w \in Writers : ~Owns(w) /\ tx_sem = 0
        BY <2>1 DEF TxDone, BufferInv
      <3> QED
        BY <2>1, <3>1 DEF TxDone, BufferInv, Owns, Idle
    <2>2. ASSUME NEW w \in Writers, BeginWrite(w) PROVE BufferInv'
      <3>1. /\ pc' = [pc EXCEPT ![w] = "take"] /\ pc[w] = "idle"
            /\ \A v \in Writers : v # w => copied'[v] = copied[v] /\ size'[v] = size[v]
            /\ UNCHANGED <<tx_sem, tx_buffer, uart, typed>>
        BY <2>2 DEF BeginWrite, WriterInv
      <3>2. \A v \in Writers : (Owns(v)' <=> Owns(v)) /\ (pc'[v] = "tx" <=> pc[v] = "tx")
        BY <3>1 DEF Owns, WriterInv
      <3>3. \A v \in Writers : pc[v] = "tx" => ChunkLen(v)' = ChunkLen(v)
        BY <3>1 DEF ChunkLen
      <3>4. \A v \in Writers : pc[v] = "tx" => copied'[v] = copied[v] /\ typed'[v] = typed[v]
        BY <3>1
      <3> QED
        BY <3>1, <3>2, <3>3, <3>4 DEF BufferInv
    <2>3. ASSUME NEW w \in Writers, k_sem_take(w) PROVE BufferInv'
      <3>1. /\ tx_sem = 1 /\ tx_sem' = 0 /\ pc' = [pc EXCEPT ![w] = "copy"]
            /\ UNCHANGED <<tx_buffer, uart, size, copied, typed>>
        BY <2>3 DEF k_sem_take, BufferInv
      <3>2. \A v \in Writers : (Owns(v)' <=> v = w) /\ pc'[v] # "tx"
        BY <3>1 DEF Owns, WriterInv, BufferInv
      <3> QED
        BY <3>1, <3>2 DEF BufferInv
    <2>4. ASSUME NEW w \in Writers, CopyChunk(w) PROVE BufferInv'
      <3>1. Owns(w) /\ uart = Idle /\ \A v \in Writers : Owns(v) => v = w
        BY <2>4 DEF CopyChunk, Owns, BufferInv
      <3>2. /\ pc' = [pc EXCEPT ![w] = "tx"] /\ UNCHANGED <<tx_sem, uart, size, copied, typed>>
            /\ tx_buffer' = Bytes(w, typed[w] + copied[w], ChunkLen(w))
        BY <2>4 DEF CopyChunk
      <3>3. tx_buffer' \in Seq(Byte)
        <4>1. typed[w] + copied[w] \in Nat /\ ChunkLen(w) \in Nat
          BY <2>4, ChunkFacts DEF CopyChunk, WriterInv
        <4> QED
          BY <3>2, <4>1, BytesFacts
      <3>4. \A v \in Writers : (Owns(v)' <=> v = w) /\ (pc'[v] = "tx" => v = w)
        BY <3>1, <3>2 DEF Owns, WriterInv
      <3>5. ChunkLen(w)' = ChunkLen(w)
        BY <3>2 DEF ChunkLen
      <3>6. tx_sem = 0
        BY <3>1 DEF BufferInv
      <3> QED
        BY <3>1, <3>2, <3>3, <3>4, <3>5, <3>6 DEF BufferInv
    <2>5. ASSUME NEW w \in Writers, uart_tx(w) PROVE BufferInv'
      <3>1. Owns(w) /\ tx_sem = 0 /\ \A v \in Writers : Owns(v) => v = w
        BY <2>5 DEF uart_tx, Owns, BufferInv
      <3>2. /\ pc'[w] \in {"take", "idle"} /\ uart' = tx_buffer
            /\ \A v \in Writers : v # w => pc'[v] = pc[v]
            /\ UNCHANGED <<tx_sem, tx_buffer>>
        BY <2>5 DEF uart_tx, Return, WriterInv
      <3>3. \A v \in Writers : ~Owns(v)' /\ pc'[v] # "tx"
        BY <3>1, <3>2 DEF Owns
      <3> QED
        BY <3>1, <3>2, <3>3 DEF BufferInv
    <2>6. ASSUME NEW w \in Writers, UartTxError(w) PROVE BufferInv'
      <3>1. Owns(w) /\ uart = Idle /\ tx_sem = 0 /\ \A v \in Writers : Owns(v) => v = w
        BY <2>6 DEF UartTxError, Owns, BufferInv
      <3>2. /\ pc' = [pc EXCEPT ![w] = "idle"] /\ tx_sem' = 1
            /\ UNCHANGED <<tx_buffer, uart>>
        BY <2>6, <3>1 DEF UartTxError, Return
      <3>3. \A v \in Writers : ~Owns(v)' /\ pc'[v] # "tx"
        BY <3>1, <3>2 DEF Owns, WriterInv
      <3> QED
        BY <3>1, <3>2, <3>3 DEF BufferInv
    <2>7. CASE UNCHANGED vars
      BY <2>7 DEF vars, BufferInv, Owns, ChunkLen
    <2> QED
      BY <2>1, <2>2, <2>3, <2>4, <2>5, <2>6, <2>7 DEF Next
  <1> QED
    BY <1>1, <1>2, WriterInductive, PTL DEF Spec

\* No writer changes tx_buffer while the UART transmits it: the semaphore is given
\* back only at TX_DONE (console_logger.c:112-139, 184-206).
THEOREM TxBufferStableHolds == Spec => []TxBufferStable
  <1>1. BufferInv => TxBufferStable
    BY DEF BufferInv, TxBufferStable
  <1> QED
    BY <1>1, BufferInductive, PTL

\* Whoever waits for the semaphore waits for somebody: it is free, or a writer is
\* between taking it and uart_tx, or the UART is transmitting.
SemaphoreOwed == tx_sem = 0 => uart # Idle \/ \E w \in Writers : Owns(w)

\* No error and no order of the writers' steps loses the semaphore: every chunk given
\* to the UART has bytes, so a TX_DONE will follow it, and a chunk the UART refuses
\* gives the semaphore back itself (console_logger.c:112-206).  This is what a write
\* that waits for ever would need to be false.
THEOREM SemaphoreNotLost == Spec => []SemaphoreOwed
  <1> USE TxAssumption
  <1>1. Init => SemaphoreOwed
    BY DEF Init, SemaphoreOwed
  <1>2. WriterInv /\ BufferInv /\ SemaphoreOwed /\ [Next]_vars => SemaphoreOwed'
    <2> SUFFICES ASSUME WriterInv, BufferInv, SemaphoreOwed, [Next]_vars, tx_sem' = 0
                 PROVE  uart' # Idle \/ \E v \in Writers : Owns(v)'
      BY DEF SemaphoreOwed
    <2>1. CASE TxDone
      BY <2>1 DEF TxDone, BufferInv
    <2>2. ASSUME NEW w \in Writers, BeginWrite(w) PROVE uart' # Idle \/ \E v \in Writers : Owns(v)'
      <3>1. pc[w] = "idle" /\ pc' = [pc EXCEPT ![w] = "take"] /\ UNCHANGED <<tx_sem, uart>>
        BY <2>2 DEF BeginWrite
      <3>2. \A v \in Writers : Owns(v) => Owns(v)'
        BY <3>1 DEF Owns, WriterInv
      <3> QED
        BY <3>1, <3>2 DEF SemaphoreOwed
    <2>3. ASSUME NEW w \in Writers, k_sem_take(w) \/ CopyChunk(w)
          PROVE  uart' # Idle \/ \E v \in Writers : Owns(v)'
      <3>1. pc'[w] \in {"copy", "tx"}
        BY <2>3 DEF k_sem_take, CopyChunk, WriterInv
      <3> QED
        BY <3>1 DEF Owns
    <2>4. ASSUME NEW w \in Writers, uart_tx(w) PROVE uart' # Idle
      <3>1. /\ pc[w] = "tx" /\ uart' = tx_buffer
            /\ tx_buffer = Bytes(w, typed[w] + copied[w], ChunkLen(w))
        BY <2>4 DEF uart_tx, BufferInv
      <3>2. ChunkLen(w) \in Nat \ {0} /\ typed[w] + copied[w] \in Nat
        BY <3>1, ChunkFacts DEF WriterInv
      <3>3. Len(uart') = ChunkLen(w)
        BY <3>1, <3>2, BytesFacts
      <3> QED
        BY <3>2, <3>3 DEF Idle
    <2>5. ASSUME NEW w \in Writers, UartTxError(w) PROVE FALSE
      BY <2>5 DEF UartTxError, BufferInv
    <2>6. CASE UNCHANGED vars
      BY <2>6 DEF vars, SemaphoreOwed, Owns
    <2> QED
      BY <2>1, <2>2, <2>3, <2>4, <2>5, <2>6 DEF Next
  <1> QED
    BY <1>1, <1>2, WriterInductive, BufferInductive, PTL DEF Spec

-----------------------------------------------------------------------------
(* What the host gets.                                                     *)

\* What was received and what is being transmitted, in that order.
stream == wire \o uart

\* The number of the first byte of writer w that was not given to the UART.
upto == [w \in Writers |-> IF pc[w] = "idle" THEN typed[w] ELSE typed[w] + copied[w]]

\* Every byte given to the UART is one the writer has got past, and later bytes
\* of a writer have larger numbers; without errors there are no others.
StreamInv ==
    /\ wire \in Seq(Byte)
    /\ \A i \in 1..Len(stream) : stream[i][2] < upto[stream[i][1]]
    /\ \A i, j \in 1..Len(stream) :
          i < j /\ stream[i][1] = stream[j][1] => stream[i][2] < stream[j][2]
    /\ errors = 0 => \A w \in Writers : \A n \in 0..(upto[w] - 1) :
                        \E i \in 1..Len(stream) : stream[i] = <<w, n>>

\* The stream is a sequence of bytes.
LEMMA StreamType ==
    ASSUME wire \in Seq(Byte), uart \in Seq(Byte)
    PROVE  /\ stream \in Seq(Byte) /\ Len(stream) = Len(wire) + Len(uart)
           /\ \A i \in 1..Len(stream) : stream[i][1] \in Writers /\ stream[i][2] \in Nat
           /\ \A i \in 1..Len(wire) : stream[i] = wire[i]
  <1>1. stream \in Seq(Byte) /\ Len(stream) = Len(wire) + Len(uart)
    BY ConcatProperties DEF stream
  <1>2. \A i \in 1..Len(stream) : stream[i] \in Writers \X Nat
    BY <1>1, ElementOfSeq DEF Byte
  <1>3. \A i \in 1..Len(wire) : stream[i] = wire[i]
    BY ConcatProperties DEF stream
  <1> QED
    BY <1>1, <1>2, <1>3

\* A step that leaves the stream as it is and takes no writer back keeps StreamInv.
LEMMA SameStream ==
    ASSUME StreamInv, WriterInv, WriterInv', BufferInv, stream' = stream,
           wire' \in Seq(Byte), errors' = errors,
           \A w \in Writers : upto'[w] = upto[w]
    PROVE  StreamInv'
  <1>1. \A i \in 1..Len(stream) : stream[i][1] \in Writers
    BY StreamType DEF StreamInv, BufferInv
  <1> QED
    BY <1>1 DEF StreamInv

\* Every chunk goes to the end of the stream, behind its writer's earlier ones
\* (console_logger.c:184-206).
LEMMA StreamInductive == Spec => []StreamInv
  <1> USE TxAssumption
  <1>1. Init => StreamInv
    <2> SUFFICES ASSUME Init PROVE StreamInv
      OBVIOUS
    <2>1. wire \in Seq(Byte) /\ stream = <<>> /\ Len(stream) = 0
      BY DEF Init, stream, Idle
    <2>2. \A w \in Writers : upto[w] = 0
      BY DEF Init, upto
    <2> QED
      BY <2>1, <2>2 DEF StreamInv
  <1>2. SemInv /\ SemInv' /\ StreamInv /\ [Next]_vars => StreamInv'
    <2> SUFFICES ASSUME WriterInv, BufferInv, WriterInv', BufferInv', StreamInv, [Next]_vars
                 PROVE  StreamInv'
      BY DEF SemInv
    <2>1. CASE TxDone
      <3>1. tx_buffer = uart /\ uart \in Seq(Byte) /\ wire \in Seq(Byte)
        BY <2>1 DEF TxDone, BufferInv, StreamInv
      <3>2. SubSeq(tx_buffer, 1, Len(uart)) = uart
        BY <3>1, SubSeqFull
      <3>3. wire' = stream /\ uart' = <<>>
        BY <2>1, <3>2 DEF TxDone, Idle, stream
      <3>4. stream \in Seq(Byte)
        BY <3>1, StreamType
      <3>5. stream' = stream
        BY <3>3, <3>4, ConcatEmptySeq DEF stream
      <3>6. \A w \in Writers : upto'[w] = upto[w]
        BY <2>1 DEF TxDone, upto
      <3> QED
        BY <2>1, <3>3, <3>4, <3>5, <3>6, SameStream DEF TxDone
    <2>2. ASSUME NEW w \in Writers, BeginWrite(w) PROVE StreamInv'
      <3>1. \A v \in Writers : upto'[v] = upto[v]
        BY <2>2 DEF BeginWrite, upto, WriterInv
      <3>2. stream' = stream
        BY <2>2 DEF BeginWrite, stream
      <3> QED
        BY <2>2, <3>1, <3>2, SameStream DEF BeginWrite, StreamInv
    <2>3. ASSUME NEW w \in Writers, k_sem_take(w) \/ CopyChunk(w) PROVE StreamInv'
      <3>1. \A v \in Writers : upto'[v] = upto[v]
        BY <2>3 DEF k_sem_take, CopyChunk, upto, WriterInv
      <3>2. stream' = stream
        BY <2>3 DEF k_sem_take, CopyChunk, stream
      <3> QED
        BY <2>3, <3>1, <3>2, SameStream DEF k_sem_take, CopyChunk, StreamInv
    <2>4. ASSUME NEW w \in Writers, uart_tx(w) PROVE StreamInv'
      <3> DEFINE len == ChunkLen(w)
                 from == typed[w] + copied[w]
                 chunk == Bytes(w, from, len)
      <3>1. len \in Nat \ {0} /\ copied[w] + len <= size[w] /\ from \in Nat
        BY <2>4, ChunkFacts DEF uart_tx, WriterInv
      <3>2. uart = <<>> /\ uart' = chunk /\ UNCHANGED <<wire, errors>>
        BY <2>4 DEF uart_tx, BufferInv, Owns, Idle
      <3>3. stream = wire /\ wire \in Seq(Byte)
        BY <3>2, ConcatEmptySeq DEF stream, StreamInv
      <3>4. chunk \in Seq(Byte) /\ Len(chunk) = len
            /\ \A i \in 1..len : chunk[i] = <<w, from + i - 1>>
        BY <3>1, BytesFacts
      <3> HIDE DEF chunk
      <3>5. /\ Len(stream') = Len(stream) + len
            /\ \A i \in 1..Len(stream) : stream'[i] = stream[i]
            /\ \A i \in (Len(stream) + 1)..(Len(stream) + len) :
                  stream'[i] = <<w, from + (i - Len(stream)) - 1>>
        <4>1. stream' = wire \o chunk
          BY <3>2 DEF stream
        <4>2. /\ Len(wire \o chunk) = Len(wire) + len
              /\ \A i \in 1..(Len(wire) + len) :
                    (wire \o chunk)[i] = IF i <= Len(wire) THEN wire[i] ELSE chunk[i - Len(wire)]
          BY <3>3, <3>4, ConcatProperties
        <4>3. Len(wire) \in Nat
          BY <3>3, LenProperties
        <4> HIDE DEF len, from
        <4>4. ASSUME NEW i \in (Len(stream) + 1)..(Len(stream) + len)
              PROVE  stream'[i] = <<w, from + (i - Len(stream)) - 1>>
          <5>1. i - Len(wire) \in 1..len /\ ~(i <= Len(wire)) /\ i \in 1..(Len(wire) + len)
            BY <4>3, <3>1, <3>3
          <5>2. stream'[i] = chunk[i - Len(wire)]
            BY <5>1, <4>1, <4>2
          <5> QED
            BY <5>1, <5>2, <3>3, <3>4
        <4>5. ASSUME NEW i \in 1..Len(stream) PROVE stream'[i] = stream[i]
          BY <4>1, <4>2, <4>3, <3>1, <3>3
        <4> QED
          BY <4>1, <4>2, <4>4, <4>5, <3>3
      <3>6. upto[w] = from /\ upto'[w] = from + len
        <4>1. pc[w] = "tx" /\ upto[w] = from
          BY <2>4 DEF uart_tx, upto
        <4>2. CASE copied[w] + len < size[w]
          BY <2>4, <4>2, <3>1 DEF uart_tx, upto, WriterInv
        <4>3. CASE copied[w] + len = size[w]
          BY <2>4, <4>3, <3>1 DEF uart_tx, Return, upto, WriterInv
        <4> QED
          BY <4>1, <4>2, <4>3, <3>1 DEF WriterInv
      <3>7. \A v \in Writers : v # w => upto'[v] = upto[v]
        BY <2>4 DEF uart_tx, Return, upto, WriterInv
      <3>8. /\ Len(stream) \in Nat
            /\ \A i \in 1..Len(stream) : stream[i][1] \in Writers /\ stream[i][2] \in Nat
        BY StreamType, LenProperties DEF StreamInv, BufferInv
      <3> HIDE DEF len, from
      <3>9. \A i \in 1..Len(stream') : stream'[i][2] < upto'[stream'[i][1]]
        <4> TAKE i \in 1..Len(stream')
        <4>1. CASE i <= Len(stream)
          <5>1. i \in 1..Len(stream) /\ stream'[i] = stream[i] /\ stream[i][2] < upto[stream[i][1]]
            BY <4>1, <3>5, <3>8 DEF StreamInv
          <5>2. CASE stream[i][1] = w
            BY <5>1, <5>2, <3>1, <3>6, <3>8
          <5>3. CASE stream[i][1] # w
            BY <5>1, <5>3, <3>7, <3>8
          <5> QED
            BY <5>2, <5>3
        <4>2. CASE i > Len(stream)
          BY <4>2, <3>1, <3>5, <3>6, <3>8
        <4> QED
          BY <4>1, <4>2, <3>8
      <3>10. \A i, j \in 1..Len(stream') :
                i < j /\ stream'[i][1] = stream'[j][1] => stream'[i][2] < stream'[j][2]
        <4> SUFFICES ASSUME NEW i \in 1..Len(stream'), NEW j \in 1..Len(stream'), i < j,
                            stream'[i][1] = stream'[j][1]
                     PROVE  stream'[i][2] < stream'[j][2]
          OBVIOUS
        <4>1. CASE j <= Len(stream)
          BY <4>1, <3>1, <3>5, <3>8 DEF StreamInv
        <4>2. CASE i > Len(stream)
          <5>1. stream'[i] = <<w, from + (i - Len(stream)) - 1>>
            BY <4>2, <3>5, <3>8, <3>1
          <5>2. stream'[j] = <<w, from + (j - Len(stream)) - 1>>
            BY <4>2, <3>5, <3>8, <3>1
          <5>3. from + (i - Len(stream)) - 1 < from + (j - Len(stream)) - 1
            BY <3>1, <3>8
          <5> QED
            BY <5>1, <5>2, <5>3
        <4>3. CASE i <= Len(stream) /\ j > Len(stream)
          <5>1. stream'[j] = <<w, from + (j - Len(stream)) - 1>>
            BY <4>3, <3>5, <3>8, <3>1
          <5>2. i \in 1..Len(stream) /\ stream'[i] = stream[i] /\ stream[i][1] = w
            BY <4>3, <5>1, <3>5, <3>8
          <5>3. stream[i][2] < from
            BY <5>2, <3>6 DEF StreamInv
          <5> QED
            BY <4>3, <5>1, <5>2, <5>3, <3>1, <3>8
        <4> QED
          BY <4>1, <4>2, <4>3, <3>8
      <3>11. ASSUME errors' = 0, NEW v \in Writers, NEW n \in 0..(upto'[v] - 1)
             PROVE  \E i \in 1..Len(stream') : stream'[i] = <<v, n>>
        <4>1. CASE v # w \/ n < from
          <5>1. n \in 0..(upto[v] - 1)
            BY <4>1, <3>1, <3>6, <3>7
          <5>2. PICK i \in 1..Len(stream) : stream[i] = <<v, n>>
            BY <5>1, <3>11, <3>2 DEF StreamInv
          <5> QED
            BY <5>2, <3>1, <3>5, <3>8
        <4>2. CASE v = w /\ n >= from
          <5> DEFINE i == Len(stream) + (n - from) + 1
          <5>1. i \in (Len(stream) + 1)..(Len(stream) + len) /\ n = from + (i - Len(stream)) - 1
            BY <4>2, <3>1, <3>6, <3>8
          <5> HIDE DEF i
          <5>2. stream'[i] = <<v, n>>
            BY <5>1, <4>2, <3>5
          <5>3. i \in 1..Len(stream')
            BY <5>1, <3>1, <3>5, <3>8
          <5> QED
            BY <5>2, <5>3
        <4> QED
          BY <4>1, <4>2, <3>1
      <3> QED
        BY <3>2, <3>3, <3>9, <3>10, <3>11 DEF StreamInv
    <2>5. ASSUME NEW w \in Writers, UartTxError(w) PROVE StreamInv'
      <3>1. stream' = stream /\ wire' = wire /\ errors' # 0
        BY <2>5 DEF UartTxError, stream, WriterInv
      <3>2. \A v \in Writers : upto[v] \in Nat /\ upto'[v] \in Nat /\ upto[v] <= upto'[v]
        BY <2>5 DEF UartTxError, Return, upto, WriterInv
      <3>3. \A i \in 1..Len(stream) : stream[i][1] \in Writers /\ stream[i][2] \in Nat
        BY StreamType DEF StreamInv, BufferInv
      <3> QED
        BY <3>1, <3>2, <3>3 DEF StreamInv
    <2>6. CASE UNCHANGED vars
      BY <2>6 DEF vars, StreamInv, stream, upto
    <2> QED
      BY <2>1, <2>2, <2>3, <2>4, <2>5, <2>6 DEF Next
  <1>3. Spec => []SemInv
    BY WriterInductive, BufferInductive, PTL DEF SemInv
  <1> QED
    BY <1>1, <1>2, <1>3, PTL DEF Spec

\* The keystrokes of each client reach the host in the order typed and none twice,
\* however many clients write at once and however their chunks interleave
\* (console_log_write, console_logger.c:184-206).
THEOREM WireInOrderHolds == Spec => []WireInOrder
  <1>1. BufferInv /\ StreamInv => WireInOrder
    <2> SUFFICES ASSUME BufferInv, StreamInv PROVE WireInOrder
      OBVIOUS
    <2>1. wire \in Seq(Byte) /\ uart \in Seq(Byte) /\ Len(wire) \in Nat /\ Len(uart) \in Nat
      BY LenProperties DEF BufferInv, StreamInv
    <2>2. \A i \in 1..Len(wire) : i \in 1..Len(stream) /\ stream[i] = wire[i]
      BY <2>1, StreamType
    <2> QED
      BY <2>2 DEF StreamInv, WireInOrder
  <1> QED
    BY <1>1, BufferInductive, StreamInductive, PTL

\* As long as uart_tx does not fail, every byte of a finished write was received by
\* the host or is on its way (console_log_write).
THEOREM NothingDroppedHolds == Spec => []NothingDropped
  <1>1. WriterInv /\ StreamInv => NothingDropped
    <2> SUFFICES ASSUME WriterInv, StreamInv, errors = 0,
                        NEW w \in Writers, NEW n \in 0..(typed[w] - 1)
                 PROVE  \E i \in 1..Len(wire \o uart) : (wire \o uart)[i] = <<w, n>>
      BY DEF NothingDropped
    <2>1. n \in 0..(upto[w] - 1)
      BY TxAssumption DEF WriterInv, upto
    <2> QED
      BY <2>1 DEF StreamInv, stream
  <1> QED
    BY <1>1, WriterInductive, StreamInductive, PTL

=============================================================================
