-------------------------- MODULE ConsoleLogProofs --------------------------
(***************************************************************************)
(* Proofs about the host console log (ConsoleLog): type correctness, how   *)
(* much of the ring is given to the driver without being reported, and     *)
(* what that means for the readers, for every size of the log, every       *)
(* number of readers and every number of receiver faults.                  *)
(***************************************************************************)
EXTENDS ConsoleLog, TLAPS

\* The chunks are not empty, and the ring holds RxBufShare of them.
LEMMA ChunkPositive == UART_RX_BUF_SIZE \in Nat \ {0}
  BY SizeAssumption DEF UART_RX_BUF_SIZE

\* UART_RX_BUF_SIZE is a share of the log, rounded down (console_logger.c:43).
LEMMA RingHoldsChunks == RxBufShare * UART_RX_BUF_SIZE <= LogSize
  BY SizeAssumption DEF UART_RX_BUF_SIZE

\* One more fault adds one more chunk to the product of the two.
LEMMA ProductFacts ==
    \A c, f \in Nat : c * f \in Nat /\ c * (f + 1) = c * f + c
  OBVIOUS

\* A position modulo the size of the ring is a slot of it.
LEMMA ModIsSlot == \A n \in Nat : n % LogSize \in Slots
  BY SizeAssumption DEF Slots

\* The smaller of two numbers.
LEMMA MinOfTwo ==
    ASSUME NEW a \in Int, NEW b \in Int
    PROVE  Min({a, b}) = IF a <= b THEN a ELSE b
  <1> DEFINE m == IF a <= b THEN a ELSE b
  <1>1. m \in {a, b} /\ \A y \in {a, b} : m <= y
    OBVIOUS
  <1>2. \A x \in {a, b} : (\A y \in {a, b} : x <= y) => x = m
    OBVIOUS
  <1> QED
    BY <1>1, <1>2 DEF Min

\* What a read returns and where it leaves the cursor are natural numbers.
LEMMA ReadTypes ==
    ASSUME TypeOK, NEW p \in Nat, NEW n \in ReadSizes
    PROVE  /\ Start \in Int
           /\ ReadFrom(p) \in Nat
           /\ ReadLen(p, n) \in Nat
           /\ ReadPos(p, n) \in Nat
  <1>0. n \in Nat
    BY BoundAssumption
  <1>1. Start \in Int
    BY SizeAssumption DEF TypeOK, Start
  <1>2. ReadFrom(p) \in Nat
    BY <1>1 DEF ReadFrom
  <1>3. ReadLen(p, n) \in Nat
    <2>1. CASE p > received
      BY <2>1 DEF ReadLen
    <2>2. CASE ~(p > received) /\ ReadFrom(p) > received
      BY <2>2, <1>0 DEF ReadLen
    <2>3. CASE ~(p > received) /\ ~(ReadFrom(p) > received)
      <3>1. ReadLen(p, n) = Min({n, received - ReadFrom(p)})
        BY <2>3 DEF ReadLen
      <3>2. received - ReadFrom(p) \in Nat
        BY <2>3, <1>2 DEF TypeOK
      <3> QED
        BY <3>1, <3>2, <1>0, MinOfTwo
    <2> QED
      BY <2>1, <2>2, <2>3
  <1>4. ReadPos(p, n) \in Nat
    BY <1>2, <1>3 DEF ReadPos
  <1> QED
    BY <1>1, <1>2, <1>3, <1>4

-----------------------------------------------------------------------------
\* The initial state is well typed.
LEMMA TypeInit == Init => TypeOK
  <1> SUFFICES ASSUME Init PROVE TypeOK
    OBVIOUS
  <1> USE SizeAssumption, ChunkPositive DEF Init
  <1>1. allocated \in Nat /\ received \in Nat /\ sent \in Nat /\ faults \in Nat
    OBVIOUS
  <1>2. log_buffer \in [Slots -> Nat \cup {Empty}] /\ pos \in [Readers -> Nat]
    OBVIOUS
  <1>3. base \in Slots /\ nxt \in Slots \cup {NoBuf}
    BY DEF Slots
  <1>4. rx \in {"reset", "off", "on", "disabled"} /\ req \in BOOLEAN
    OBVIOUS
  <1>5. fill \in 0..UART_RX_BUF_SIZE /\ rep \in 0..fill
    OBVIOUS
  <1> QED
    BY <1>1, <1>2, <1>3, <1>4, <1>5 DEF TypeOK

\* Type correctness: the counters stay natural numbers, the driver's buffers
\* start inside log_buffer and never report more than was written
\* (console_logger.c:69-110), and log_buffer keeps its size.
THEOREM TypeCorrect == Spec => []TypeOK
  <1> USE SizeAssumption, BoundAssumption, ChunkPositive, ModIsSlot
  <1>2. ASSUME TypeOK, uart_rx_start,
               UNCHANGED <<received, log_buffer, pos, sent>>
        PROVE  TypeOK'
    <2> USE <1>2 DEF uart_rx_start, TypeOK
    <2>1. allocated' \in Nat /\ faults' \in Nat
      OBVIOUS
    <2>2. base' \in Slots /\ nxt' \in Slots \cup {NoBuf}
      OBVIOUS
    <2>3. rx' \in {"reset", "off", "on", "disabled"} /\ req' \in BOOLEAN
      OBVIOUS
    <2>4. fill' \in 0..UART_RX_BUF_SIZE /\ rep' \in 0..fill'
      OBVIOUS
    <2> QED
      BY <2>1, <2>2, <2>3, <2>4
  <1>3. ASSUME TypeOK, [Next]_vars PROVE TypeOK'
    <2> USE <1>3 DEF TypeOK
    <2>1. CASE console_logger_init
      BY <2>1, <1>2 DEF console_logger_init
    <2>2. CASE BufRequestEvent
      <3> USE <2>2 DEF BufRequestEvent, uart_rx_allocate
      <3>0. faults' \in Nat
        <4>1. faults \in Nat /\ (faults' = faults \/ faults' = faults + 1)
          OBVIOUS
        <4> HIDE DEF TypeOK
        <4> QED
          BY <4>1
      <3>1. allocated' \in Nat
        OBVIOUS
      <3>2. nxt' \in Slots \cup {NoBuf}
        <4>1. allocated % LogSize \in Slots /\ nxt \in Slots \cup {NoBuf}
          OBVIOUS
        <4> HIDE DEF TypeOK
        <4> QED
          BY <4>1
      <3> QED
        BY <3>0, <3>1, <3>2
    <2>3. CASE RxTimeoutEvent
      BY <2>3 DEF RxTimeoutEvent, uart_rx_ready
    <2>4. CASE ChunkFullEvent \/ ChunkLastEvent
      <3>1. received' \in Nat
        BY <2>4 DEF ChunkFullEvent, ChunkLastEvent, uart_rx_ready
      <3>2. CASE ChunkFullEvent
        BY <3>1, <3>2 DEF ChunkFullEvent
      <3>3. CASE ChunkLastEvent
        BY <3>1, <3>3 DEF ChunkLastEvent
      <3> QED
        BY <2>4, <3>2, <3>3
    <2>5. CASE RxDisabledEvent
      BY <2>5, <1>2 DEF RxDisabledEvent
    <2>6. CASE RxStop
      BY <2>6 DEF RxStop, uart_rx_ready
    <2>7. CASE DmaByte
      <3> USE <2>7 DEF DmaByte
      <3>1. log_buffer' \in [Slots -> Nat \cup {Empty}]
        OBVIOUS
      <3>2. fill' \in 0..UART_RX_BUF_SIZE /\ rep' \in 0..fill'
        OBVIOUS
      <3> QED
        BY <3>1, <3>2
    <2>8. ASSUME NEW r \in Readers, host_console_read(r)
          PROVE  TypeOK'
      <3>1. pos' \in [Readers -> Nat]
        BY <2>8, ReadTypes DEF host_console_read
      <3> QED
        BY <2>8, <3>1 DEF host_console_read, logVars, drvVars
    <2>9. ASSUME NEW r \in Readers, host_console_seek_end(r)
          PROVE  TypeOK'
      BY <2>9 DEF host_console_seek_end, logVars, drvVars
    <2>10. CASE UNCHANGED vars
      BY <2>10 DEF vars, logVars, drvVars
    <2> QED
      BY <2>1, <2>2, <2>3, <2>4, <2>5, <2>6, <2>7, <2>8, <2>9, <2>10
         DEF Next, uart_callback
  <1> QED
    BY TypeInit, <1>3, PTL DEF Spec

-----------------------------------------------------------------------------
\* What the driver owes the log: while it receives, the buffers it holds less
\* what it reported of the active one, plus two chunks for every fault; while
\* it is stopped, only the latter.
InFlightInv ==
    /\ TypeOK
    /\ rx = "reset" => allocated = received
    /\ rx \in {"off", "disabled"} => allocated - received <= 2 * (UART_RX_BUF_SIZE * faults)
    /\ rx = "on" =>
          /\ req => nxt = NoBuf
          /\ allocated - received + rep
                <= (IF nxt = NoBuf THEN UART_RX_BUF_SIZE ELSE 2 * UART_RX_BUF_SIZE) + 2 * (UART_RX_BUF_SIZE * faults)

\* The receive callbacks keep InFlightInv (console_logger.c:69-139).
LEMMA InFlightInductive == Spec => []InFlightInv
  <1> USE SizeAssumption, BoundAssumption, ChunkPositive
  <1>1. Init => InFlightInv
    <2> SUFFICES ASSUME Init, TypeOK PROVE InFlightInv
      BY TypeInit
    <2> QED
      BY DEF Init, InFlightInv
  <1>2. InFlightInv /\ TypeOK' /\ [Next]_vars => InFlightInv'
    <2> SUFFICES ASSUME InFlightInv, TypeOK', [Next]_vars
                 PROVE  InFlightInv'
      OBVIOUS
    <2> DEFINE owed == UART_RX_BUF_SIZE * faults
    <2>0. /\ owed \in Nat /\ owed' \in Nat
          /\ faults' = faults + 1 => owed' = owed + UART_RX_BUF_SIZE
          /\ faults' = faults => owed' = owed
      <3>1. faults \in Nat /\ faults' \in Nat
        BY DEF InFlightInv, TypeOK
      <3> QED
        BY <3>1, ProductFacts
    <2>a. ASSUME uart_rx_start, UNCHANGED received, rx \in {"reset", "disabled"}
          PROVE  InFlightInv'
      <3>1. allocated - received <= 2 * owed
        BY <2>a, <2>0 DEF InFlightInv, TypeOK
      <3> HIDE DEF owed
      <3>2. CASE rx' = "on"
        BY <3>1, <3>2, <2>a, <2>0 DEF uart_rx_start, InFlightInv, TypeOK, owed
      <3>3. CASE rx' = "off"
        BY <3>1, <3>3, <2>a, <2>0 DEF uart_rx_start, InFlightInv, TypeOK, owed
      <3> QED
        BY <3>2, <3>3, <2>a DEF uart_rx_start
    <2>1. CASE console_logger_init
      BY <2>1, <2>a DEF console_logger_init
    <2>2. CASE BufRequestEvent
      <3>1. /\ nxt = NoBuf /\ allocated' = allocated + UART_RX_BUF_SIZE
            /\ UNCHANGED <<received, rx, rep>> /\ ~req' /\ rx = "on"
        BY <2>2 DEF BufRequestEvent, uart_rx_allocate, InFlightInv
      <3>2. CASE nxt' = allocated % LogSize /\ UNCHANGED faults
        <4>1. nxt' # NoBuf
          BY <3>2, ModIsSlot DEF InFlightInv, TypeOK, Slots, NoBuf
        <4> QED
          BY <3>1, <3>2, <4>1, <2>0 DEF InFlightInv, TypeOK
      <3>3. CASE faults' = faults + 1 /\ UNCHANGED nxt
        BY <3>1, <3>3, <2>0 DEF InFlightInv, TypeOK
      <3> QED
        BY <2>2, <3>2, <3>3 DEF BufRequestEvent, uart_rx_allocate
    <2>3. CASE RxTimeoutEvent
      BY <2>3, <2>0 DEF RxTimeoutEvent, uart_rx_ready, InFlightInv, TypeOK
    <2>4. CASE ChunkFullEvent \/ ChunkLastEvent
      <3>1. CASE ChunkFullEvent
        BY <3>1, <2>0 DEF ChunkFullEvent, uart_rx_ready, InFlightInv, TypeOK
      <3>2. CASE ChunkLastEvent
        BY <3>2, <2>0 DEF ChunkLastEvent, uart_rx_ready, InFlightInv, TypeOK
      <3> QED
        BY <2>4, <3>1, <3>2
    <2>5. CASE RxDisabledEvent
      BY <2>5, <2>a DEF RxDisabledEvent
    <2>6. CASE RxStop
      <3>1. allocated - received + rep <= 2 * UART_RX_BUF_SIZE + 2 * owed
        BY <2>6, <2>0 DEF RxStop, InFlightInv, TypeOK
      <3>2. owed' = owed + UART_RX_BUF_SIZE
        BY <2>6, <2>0 DEF RxStop
      <3>3. allocated' - received' <= 2 * owed'
        BY <3>1, <3>2, <2>0, <2>6 DEF RxStop, uart_rx_ready, InFlightInv, TypeOK
      <3> QED
        BY <3>3, <2>6 DEF RxStop, InFlightInv
    <2>7. CASE DmaByte
      BY <2>7 DEF DmaByte, InFlightInv
    <2>8. ASSUME NEW r \in Readers, host_console_read(r) \/ host_console_seek_end(r)
          PROVE  InFlightInv'
      BY <2>8 DEF host_console_read, host_console_seek_end, logVars, drvVars, InFlightInv
    <2>9. CASE UNCHANGED vars
      BY <2>9 DEF vars, logVars, drvVars, InFlightInv
    <2> QED
      BY <2>1, <2>2, <2>3, <2>4, <2>5, <2>6, <2>7, <2>8, <2>9
         DEF Next, uart_callback
  <1> QED
    BY <1>1, <1>2, TypeCorrect, PTL DEF Spec

-----------------------------------------------------------------------------
\* Every fault of the receiver costs the ring at most two chunks
\* (uart_rx_start, console_logger.c:96-110, never gives back what it lost).
THEOREM InFlightPerFaultHolds == Spec => []InFlightPerFault
  <1>1. InFlightInv => InFlightPerFault
    <2> SUFFICES ASSUME InFlightInv PROVE InFlightPerFault
      OBVIOUS
    <2> DEFINE owed == UART_RX_BUF_SIZE * faults
    <2>1. UART_RX_BUF_SIZE \in Nat /\ faults \in Nat /\ owed \in Nat
      BY ChunkPositive, ProductFacts DEF InFlightInv, TypeOK
    <2>2. 2 * UART_RX_BUF_SIZE * (1 + faults) = 2 * UART_RX_BUF_SIZE + 2 * owed
      BY <2>1
    <2>3. allocated - received <= 2 * UART_RX_BUF_SIZE + 2 * owed
      BY <2>1 DEF InFlightInv, TypeOK
    <2> QED
      BY <2>2, <2>3 DEF InFlightPerFault
  <1> QED
    BY <1>1, InFlightInductive, PTL

\* The number of faults never exceeds its bound.
FaultsInv == faults <= MaxFaults

\* FaultsInv holds.
LEMMA FaultsBounded == Spec => []FaultsInv
  <1>1. Init => FaultsInv
    BY BoundAssumption DEF Init, FaultsInv
  <1>2. TypeOK /\ FaultsInv /\ [Next]_vars => FaultsInv'
    <2> SUFFICES ASSUME TypeOK, FaultsInv, [Next]_vars
                 PROVE  FaultsInv'
      OBVIOUS
    <2>1. faults' = faults \/ (faults < MaxFaults /\ faults' = faults + 1)
      BY DEF Next, vars, uart_callback, console_logger_init, uart_rx_start,
             BufRequestEvent, uart_rx_allocate, RxTimeoutEvent, ChunkFullEvent, ChunkLastEvent,
             RxStop, RxDisabledEvent, DmaByte, host_console_read, host_console_seek_end
    <2> QED
      BY <2>1, BoundAssumption DEF TypeOK, FaultsInv
  <1> QED
    BY <1>1, <1>2, TypeCorrect, PTL DEF Spec

\* "Two chunks will be in-flight at any time" (console_logger.c:36-42) is right
\* as long as the receiver never stops, whatever the size of the log.
THEOREM InFlightBoundHolds ==
    ASSUME MaxFaults = 0
    PROVE  Spec => []InFlightBound
  <1>1. InFlightInv /\ FaultsInv => InFlightBound
    <2> SUFFICES ASSUME InFlightInv, FaultsInv PROVE InFlightBound
      OBVIOUS
    <2>1. faults = 0
      BY DEF InFlightInv, FaultsInv, TypeOK
    <2> QED
      BY <2>1, ChunkPositive DEF InFlightInv, TypeOK, InFlightBound
  <1> QED
    BY <1>1, InFlightInductive, FaultsBounded, PTL

-----------------------------------------------------------------------------
\* With few enough faults the start of what a read may return is no later than
\* the end of the log.
LEMMA StartBehind ==
    ASSUME 2 * (1 + faults) <= RxBufShare, TypeOK, InFlightPerFault
    PROVE  Start <= received
  <1>1. UART_RX_BUF_SIZE \in Nat /\ RxBufShare \in Nat /\ faults \in Nat
    BY SizeAssumption, ChunkPositive DEF TypeOK
  <1>2. 2 * (1 + faults) <= RxBufShare
    OBVIOUS
  <1>3. 2 * UART_RX_BUF_SIZE * (1 + faults) <= RxBufShare * UART_RX_BUF_SIZE
    BY <1>1, <1>2
  <1>4. allocated - received <= LogSize
    BY <1>1, <1>3, RingHoldsChunks, SizeAssumption DEF InFlightPerFault, TypeOK
  <1> QED
    BY <1>4, SizeAssumption DEF Start, TypeOK

\* A cursor never passes the end of the log, so a sender never meets -EINVAL for
\* ever (console_log_read, console_logger.c:141-182), in a state in which the driver
\* has failed at most RxBufShare / 2 - 1 times, seven in the code: for every size of
\* the log and every number of readers, bytes and laps.
THEOREM ReadersBehindHolds == Spec => []ReadersBehindFewFaults
  <1>1. Init => ReadersBehindFewFaults
    BY DEF Init, ReadersBehind, ReadersBehindFewFaults
  <1>2. /\ TypeOK /\ InFlightPerFault /\ ReadersBehindFewFaults
        /\ [Next]_vars
        => ReadersBehindFewFaults'
    <2> SUFFICES ASSUME TypeOK, InFlightPerFault, ReadersBehindFewFaults, [Next]_vars,
                        2 * (1 + faults') <= RxBufShare
                 PROVE  ReadersBehind'
      BY DEF ReadersBehindFewFaults
    <2>0. 2 * (1 + faults) <= RxBufShare /\ ReadersBehind
      <3>1. faults' = faults \/ faults' = faults + 1
        BY DEF Next, vars, uart_callback, console_logger_init, uart_rx_start,
               BufRequestEvent, uart_rx_allocate, RxTimeoutEvent, ChunkFullEvent, ChunkLastEvent,
               RxStop, RxDisabledEvent, DmaByte, host_console_read, host_console_seek_end
      <3>2. 2 * (1 + faults) <= RxBufShare
        BY <3>1, SizeAssumption DEF TypeOK
      <3> QED
        BY <3>2 DEF ReadersBehindFewFaults
    <2>1. ASSUME UNCHANGED pos, received' \in Nat, received' >= received
          PROVE  ReadersBehind'
      BY <2>0, <2>1 DEF ReadersBehind, TypeOK
    <2>2. CASE console_logger_init \/ BufRequestEvent \/ RxDisabledEvent \/ DmaByte
      BY <2>1, <2>2 DEF console_logger_init, BufRequestEvent, RxDisabledEvent, DmaByte, TypeOK
    <2>3. CASE RxTimeoutEvent \/ ChunkFullEvent \/ ChunkLastEvent \/ RxStop
      <3>1. UNCHANGED pos /\ received' = received + (fill - rep)
        BY <2>3 DEF RxTimeoutEvent, ChunkFullEvent, ChunkLastEvent, RxStop, uart_rx_ready
      <3> QED
        BY <3>1, <2>1, ChunkPositive DEF TypeOK
    <2>4. ASSUME NEW r \in Readers, host_console_read(r)
          PROVE  ReadersBehind'
      <3>1. PICK n \in ReadSizes : pos' = [pos EXCEPT ![r] = ReadPos(pos[r], n)]
        BY <2>4 DEF host_console_read
      <3>2. pos[r] \in Nat /\ pos[r] <= received /\ n \in Nat /\ received \in Nat
        BY <2>0, BoundAssumption DEF TypeOK, ReadersBehind
      <3>3. ReadFrom(pos[r]) \in Nat /\ ReadFrom(pos[r]) <= received
        BY <2>0, <3>2, ReadTypes, StartBehind DEF ReadFrom
      <3>4. ReadLen(pos[r], n) <= received - ReadFrom(pos[r])
        BY <3>2, <3>3, MinOfTwo DEF ReadLen
      <3>5. ReadPos(pos[r], n) <= received
        BY <3>2, <3>3, <3>4, ReadTypes DEF ReadPos
      <3> QED
        BY <2>0, <3>1, <3>5, <2>4 DEF host_console_read, logVars, ReadersBehind, TypeOK
    <2>5. ASSUME NEW r \in Readers, host_console_seek_end(r)
          PROVE  ReadersBehind'
      BY <2>0, <2>5 DEF host_console_seek_end, logVars, ReadersBehind, TypeOK
    <2>6. CASE UNCHANGED vars
      BY <2>0, <2>6 DEF vars, logVars, ReadersBehind
    <2> QED
      BY <2>2, <2>3, <2>4, <2>5, <2>6 DEF Next, uart_callback
  <1> QED
    BY <1>1, <1>2, TypeCorrect, InFlightPerFaultHolds, PTL DEF Spec

-----------------------------------------------------------------------------
(* Where the driver's buffers lie, in a log that is a whole number of chunks. *)

Aligned == LogSize = RxBufShare * UART_RX_BUF_SIZE

\* The remainder is the only number below the divisor that differs from the
\* dividend by a multiple of it.
LEMMA Remainder ==
    ASSUME NEW d \in Nat \ {0}, NEW q \in Nat, NEW r \in 0..(d - 1)
    PROVE  (q * d + r) % d = r
  OBVIOUS

\* Quotient and remainder make up the dividend.
LEMMA Division ==
    ASSUME NEW d \in Nat \ {0}, NEW n \in Nat
    PROVE  /\ n \div d \in Nat /\ n % d \in 0..(d - 1)
           /\ n = (n \div d) * d + (n % d)
  OBVIOUS

\* Successive numbers have different remainders.
LEMMA NextRemainder ==
    ASSUME NEW d \in Nat \ {0, 1}, NEW n \in Nat
    PROVE  (n + 1) % d # n % d
  <1> DEFINE q == n \div d
             r == n % d
  <1>1. q \in Nat /\ r \in 0..(d - 1) /\ n = q * d + r
    BY Division
  <1> HIDE DEF q, r
  <1>2. CASE r + 1 < d
    <2>1. n + 1 = q * d + (r + 1) /\ r + 1 \in 0..(d - 1)
      BY <1>1, <1>2
    <2>2. (n + 1) % d = r + 1
      BY <2>1, <1>1, Remainder
    <2> QED
      BY <2>2, <1>1 DEF r
  <1>3. CASE r + 1 = d
    <2>1. n + 1 = (q + 1) * d + 0 /\ 0 \in 0..(d - 1) /\ q + 1 \in Nat
      BY <1>1, <1>3
    <2>2. (n + 1) % d = 0
      BY <2>1, Remainder
    <2> QED
      BY <2>2, <1>1, <1>3 DEF r
  <1> QED
    BY <1>1, <1>2, <1>3

\* The k-th chunk handed out is chunk k % RxBufShare of the ring.
LEMMA ChunkSlot ==
    ASSUME Aligned, NEW k \in Nat
    PROVE  /\ (k * UART_RX_BUF_SIZE) % LogSize = (k % RxBufShare) * UART_RX_BUF_SIZE
           /\ ((k * UART_RX_BUF_SIZE) % LogSize) + UART_RX_BUF_SIZE <= LogSize
  <1> DEFINE C == UART_RX_BUF_SIZE
             S == RxBufShare
             q == k \div S
             r == k % S
  <1>1. C \in Nat \ {0} /\ S \in Nat \ {0} /\ LogSize = S * C /\ LogSize \in Nat \ {0}
    BY ChunkPositive, SizeAssumption DEF Aligned
  <1>2. q \in Nat /\ r \in 0..(S - 1) /\ k = q * S + r
    BY <1>1, Division
  <1> HIDE DEF C, S, q, r
  <1>3. (q * S + r) * C = q * (S * C) + r * C
    BY <1>1, <1>2
  <1>4. r * C \in 0..(S * C - 1) /\ r * C + C <= S * C
    BY <1>1, <1>2
  <1>5. (q * LogSize + r * C) % LogSize = r * C
    BY <1>1, <1>2, <1>4, Remainder
  <1>6. (k * C) % LogSize = r * C
    BY <1>1, <1>2, <1>3, <1>5
  <1> QED
    BY <1>1, <1>4, <1>6 DEF C, S, r

\* Two chunks handed out one after the other are different.
LEMMA NextChunkDiffers ==
    ASSUME Aligned, NEW k \in Nat
    PROVE  ((k + 1) * UART_RX_BUF_SIZE) % LogSize # (k * UART_RX_BUF_SIZE) % LogSize
  <1> DEFINE C == UART_RX_BUF_SIZE
             a == (k + 1) % RxBufShare
             b == k % RxBufShare
  <1>0. RxBufShare \in Nat \ {0, 1} /\ k + 1 \in Nat
    BY SizeAssumption
  <1>1. a \in Nat /\ b \in Nat /\ a # b
    <2>1. a # b
      BY <1>0, NextRemainder
    <2>2. a \in Nat /\ b \in Nat
      BY <1>0, Division
    <2> QED
      BY <2>1, <2>2
  <1>2. C \in Nat \ {0}
    BY ChunkPositive
  <1>3. ((k + 1) * C) % LogSize = a * C /\ (k * C) % LogSize = b * C
    BY ChunkSlot
  <1> HIDE DEF C, a, b
  <1>4. a * C # b * C
    BY <1>1, <1>2
  <1> QED
    BY <1>3, <1>4 DEF C

\* The active buffer is the last chunk handed out while a second one is requested and,
\* when that is queued, the one before it.
BufferInv ==
    /\ TypeOK
    /\ \E k \in Nat : allocated = k * UART_RX_BUF_SIZE
    /\ rx = "on" => /\ req => nxt = NoBuf
                    /\ \E k \in Nat :
                         /\ base = (k * UART_RX_BUF_SIZE) % LogSize
                         /\ \/ nxt = NoBuf /\ (req => allocated = (k + 1) * UART_RX_BUF_SIZE)
                            \/ /\ nxt # NoBuf /\ allocated = (k + 2) * UART_RX_BUF_SIZE
                               /\ nxt = ((k + 1) * UART_RX_BUF_SIZE) % LogSize

\* The receive callbacks keep BufferInv (console_logger.c:69-139).
LEMMA BufferInductive == Spec => []BufferInv
  <1> DEFINE C == UART_RX_BUF_SIZE
  <1>0. C \in Nat \ {0} /\ \A k \in Nat : k * C + C = (k + 1) * C
    BY ChunkPositive
  <1> HIDE DEF C
  <1>1. Init => BufferInv
    <2> SUFFICES ASSUME Init PROVE BufferInv
      OBVIOUS
    <2>1. 0 = 0 * C
      BY <1>0
    <2> QED
      BY <2>1, TypeInit DEF Init, BufferInv, C
  <1>2. BufferInv /\ TypeOK' /\ [Next]_vars => BufferInv'
    <2> SUFFICES ASSUME BufferInv, TypeOK', [Next]_vars
                 PROVE  BufferInv'
      OBVIOUS
    <2>0. PICK k \in Nat : allocated = k * C
      BY DEF BufferInv, C
    <2>a. ASSUME uart_rx_start PROVE BufferInv'
      <3>1. allocated' = (k + 1) * C /\ k + 1 \in Nat
        BY <2>a, <2>0, <1>0 DEF uart_rx_start, C
      <3>2. rx' = "on" => base' = (k * C) % LogSize /\ nxt' = NoBuf
        BY <2>a, <2>0 DEF uart_rx_start
      <3> QED
        BY <3>1, <3>2 DEF BufferInv, C
    <2>b. ASSUME UNCHANGED <<allocated, rx, base, nxt, req>> PROVE BufferInv'
      BY <2>b DEF BufferInv
    <2>1. CASE console_logger_init
      BY <2>1, <2>a DEF console_logger_init
    <2>2. CASE BufRequestEvent
      <3>1. /\ rx = "on" /\ req /\ nxt = NoBuf /\ ~req' /\ UNCHANGED <<rx, base>>
            /\ nxt' = allocated % LogSize \/ nxt' = NoBuf
            /\ allocated' = allocated + C
        BY <2>2 DEF BufRequestEvent, uart_rx_allocate, BufferInv, C
      <3>2. allocated % LogSize # NoBuf
        <4>1. allocated \in Nat
          BY DEF BufferInv, TypeOK
        <4>2. allocated % LogSize \in Slots
          BY <4>1, ModIsSlot
        <4> QED
          BY <4>2, SizeAssumption DEF Slots, NoBuf
      <3>3. PICK j \in Nat : base = (j * C) % LogSize /\ allocated = (j + 1) * C
        BY <3>1 DEF BufferInv, C
      <3>4. allocated' = (j + 2) * C /\ j + 2 \in Nat
        <4>1. (j + 1) * C + C = ((j + 1) + 1) * C /\ (j + 1) + 1 = j + 2
          BY <1>0
        <4> QED
          BY <4>1, <3>1, <3>3
      <3>5. nxt' = NoBuf \/ (nxt' # NoBuf /\ nxt' = ((j + 1) * C) % LogSize)
        BY <3>1, <3>2, <3>3
      <3> QED
        BY <2>0, <3>1, <3>3, <3>4, <3>5 DEF BufferInv, C
    <2>3. CASE RxTimeoutEvent
      BY <2>3, <2>b DEF RxTimeoutEvent
    <2>4. CASE ChunkFullEvent
      <3>1. /\ rx = "on" /\ nxt # NoBuf /\ UNCHANGED <<rx, allocated>>
            /\ base' = nxt /\ nxt' = NoBuf
        BY <2>4 DEF ChunkFullEvent
      <3>2. PICK j \in Nat : allocated = (j + 2) * C /\ nxt = ((j + 1) * C) % LogSize
        BY <3>1 DEF BufferInv, C
      <3>3. j + 1 \in Nat /\ allocated' = ((j + 1) + 1) * C /\ base' = ((j + 1) * C) % LogSize
        BY <3>1, <3>2
      <3> QED
        BY <3>1, <3>3, <2>0 DEF BufferInv, C
    <2>5. CASE RxDisabledEvent
      BY <2>5, <2>a DEF RxDisabledEvent
    <2>6. CASE RxStop \/ ChunkLastEvent
      BY <2>6, <2>0 DEF RxStop, ChunkLastEvent, BufferInv, C
    <2>7. CASE DmaByte
      BY <2>7, <2>b DEF DmaByte
    <2>8. ASSUME NEW r \in Readers, host_console_read(r) \/ host_console_seek_end(r)
          PROVE  BufferInv'
      BY <2>8, <2>b DEF host_console_read, host_console_seek_end, logVars, drvVars
    <2>9. CASE UNCHANGED vars
      BY <2>9, <2>b DEF vars, logVars, drvVars
    <2> QED
      BY <2>1, <2>2, <2>3, <2>4, <2>5, <2>6, <2>7, <2>8, <2>9
         DEF Next, uart_callback
  <1> QED
    BY <1>1, <1>2, TypeCorrect, PTL DEF Spec

\* In a log whose size is a multiple of the number of chunks, the DMA never
\* writes beyond log_buffer, and the two buffers it has are different
\* (uart_rx_allocate and uart_rx_start, console_logger.c:80-110).  The other
\* sizes Kconfig allows are not covered: there the last chunk of a lap does not end at
\* the end of log_buffer.
THEOREM DmaInBoundsHolds ==
    ASSUME Aligned
    PROVE  Spec => []DmaInBounds
  <1>1. BufferInv => DmaInBounds
    <2> SUFFICES ASSUME BufferInv, rx = "on" PROVE DmaInBounds
      BY DEF DmaInBounds
    <2>1. PICK k \in Nat :
            /\ base = (k * UART_RX_BUF_SIZE) % LogSize
            /\ nxt = NoBuf \/ nxt = ((k + 1) * UART_RX_BUF_SIZE) % LogSize
      BY DEF BufferInv
    <2>2. base + UART_RX_BUF_SIZE <= LogSize
      BY <2>1, ChunkSlot
    <2>3. ASSUME nxt # NoBuf PROVE nxt + UART_RX_BUF_SIZE <= LogSize /\ nxt # base
      <3>1. nxt = ((k + 1) * UART_RX_BUF_SIZE) % LogSize /\ k + 1 \in Nat
        BY <2>1, <2>3
      <3> QED
        BY <3>1, <2>1, ChunkSlot, NextChunkDiffers
    <2> QED
      BY <2>2, <2>3 DEF DmaInBounds
  <1> QED
    BY <1>1, BufferInductive, PTL

-----------------------------------------------------------------------------
(* The bytes a read returns, as long as the receiver has not stopped.      *)

\* Positions less than a lap apart lie in different slots.
LEMMA SlotsDiffer ==
    ASSUME NEW a \in Nat, NEW b \in Nat, a < b, b - a < LogSize
    PROVE  a % LogSize # b % LogSize
  <1> DEFINE L == LogSize
  <1>0. L \in Nat \ {0} /\ b - a < L
    BY SizeAssumption
  <1> HIDE DEF L
  <1>1. PICK q \in Nat, r \in 0..(L - 1) : a = q * L + r /\ r = a % L
    BY <1>0, Division
  <1>2. PICK u \in Nat, v \in 0..(L - 1) : b = u * L + v /\ v = b % L
    BY <1>0, Division
  <1>3. ASSUME r = v PROVE FALSE
    <2> DEFINE x == u * L
               y == q * L
    <2>a. x - y = (u - q) * L /\ x \in Int /\ y \in Int
      BY <1>0
    <2>b. a = y + r /\ b = x + v /\ r \in Int /\ v \in Int
      BY <1>0, <1>1, <1>2
    <2> HIDE DEF x, y
    <2>1. b - a = (u - q) * L /\ u - q \in Int
      <3>1. b - a = x - y
        BY <2>a, <2>b, <1>3
      <3> QED
        BY <3>1, <2>a
    <2>2. CASE u - q <= 0
      BY <2>1, <2>2, <1>0
    <2>3. CASE u - q >= 1
      <3>1. (u - q) * L >= L
        BY <2>3, <1>0
      <3> QED
        BY <2>1, <3>1, <1>0
    <2> QED
      BY <2>1, <2>2, <2>3
  <1> QED
    BY <1>1, <1>2, <1>3 DEF L

\* Byte j of the k-th chunk handed out lies j slots behind the chunk's first.
LEMMA ByteSlot ==
    ASSUME Aligned, NEW k \in Nat, NEW j \in 0..(UART_RX_BUF_SIZE - 1)
    PROVE  (k * UART_RX_BUF_SIZE + j) % LogSize = ((k * UART_RX_BUF_SIZE) % LogSize) + j
  <1> DEFINE L == LogSize
             n == k * UART_RX_BUF_SIZE
  <1>0. L \in Nat \ {0} /\ n \in Nat /\ j \in Nat
    BY SizeAssumption, ChunkPositive, ProductFacts
  <1>1. (n % L) + j <= L - 1
    <2>1. (n % L) + UART_RX_BUF_SIZE <= L
      BY ChunkSlot
    <2>2. n % L \in Nat
      BY <1>0, Division
    <2> HIDE DEF n, L
    <2> QED
      BY <2>1, <2>2, <1>0, ChunkPositive
  <1> HIDE DEF L, n
  <1>2. PICK q \in Nat, r \in 0..(L - 1) : n = q * L + r /\ r = n % L
    BY <1>0, Division
  <1>3. r + j \in 0..(L - 1) /\ n + j = q * L + (r + j)
    BY <1>0, <1>1, <1>2
  <1>4. (n + j) % L = r + j
    <2>1. (q * L + (r + j)) % L = r + j
      BY <1>0, <1>3, Remainder
    <2> QED
      BY <2>1, <1>3
  <1> QED
    BY <1>2, <1>4 DEF L, n

\* A chunk that begins before the end of the first lap ends there at the latest.
LEMMA FirstLap ==
    ASSUME Aligned, NEW k \in Nat, k * UART_RX_BUF_SIZE < LogSize
    PROVE  k * UART_RX_BUF_SIZE + UART_RX_BUF_SIZE <= LogSize
  <1> DEFINE C == UART_RX_BUF_SIZE
             S == RxBufShare
  <1>0. C \in Nat \ {0} /\ S \in Nat /\ LogSize = S * C
    BY ChunkPositive, SizeAssumption DEF Aligned
  <1>1. k * C < S * C
    BY <1>0
  <1> HIDE DEF C, S
  <1>2. k < S
    <2>1. ASSUME k >= S PROVE FALSE
      <3>1. k * C >= S * C
        BY <1>0, <2>1
      <3> QED
        BY <1>0, <1>1, <3>1
    <2> QED
      BY <2>1, <1>0
  <1>3. (k + 1) * C <= S * C /\ (k + 1) * C = k * C + C
    BY <1>0, <1>2
  <1> QED
    BY <1>0, <1>3 DEF C

\* The active buffer is the chunk that the host's next byte belongs to, all bytes
\* but the unreported ones of that chunk are reported, and the ring holds the last
\* lap of what was sent.
StreamInv ==
    /\ TypeOK
    /\ faults = 0 =>
        /\ rx \in {"reset", "on"}
        /\ sent = received + (fill - rep)
        /\ rx = "reset" => allocated = 0 /\ sent = 0
        /\ rx = "on" =>
              /\ req <=> nxt = NoBuf
              /\ \E k \in Nat :
                    /\ sent = k * UART_RX_BUF_SIZE + fill
                    /\ base = (k * UART_RX_BUF_SIZE) % LogSize
                    /\ \/ nxt = NoBuf /\ allocated = (k + 1) * UART_RX_BUF_SIZE
                       \/ /\ nxt # NoBuf /\ allocated = (k + 2) * UART_RX_BUF_SIZE
                          /\ nxt = ((k + 1) * UART_RX_BUF_SIZE) % LogSize
        /\ \A p \in Nat : sent - LogSize <= p /\ p < sent => log_buffer[p % LogSize] = p

\* The driver goes through the chunks in the order in which uart_rx_allocate hands
\* them out, so each byte lands in the slot that console_log_read looks for it.
LEMMA StreamInductive ==
    ASSUME Aligned
    PROVE  Spec => []StreamInv
  <1> DEFINE C == UART_RX_BUF_SIZE
  <1>0. C \in Nat \ {0} /\ \A k \in Nat : k * C \in Nat /\ k * C + C = (k + 1) * C
    BY ChunkPositive
  <1> HIDE DEF C
  <1>1. Init => StreamInv
    BY TypeInit DEF Init, StreamInv
  <1>2. StreamInv /\ TypeOK' /\ [Next]_vars => StreamInv'
    <2> SUFFICES ASSUME StreamInv, TypeOK', [Next]_vars, faults' = 0
                 PROVE  StreamInv'
      BY DEF StreamInv
    <2>a. ASSUME UNCHANGED <<allocated, received, log_buffer, rx, base, fill, rep, nxt, req, sent, faults>>
          PROVE  StreamInv'
      BY <2>a DEF StreamInv
    <2>b. ASSUME uart_rx_start, UNCHANGED <<received, log_buffer, sent>>, rx \in {"reset", "disabled"}
          PROVE  StreamInv'
      <3>1. faults = 0 /\ rx = "reset" /\ allocated = 0 /\ sent = 0 /\ received = 0
        <4>1. faults = 0
          BY <2>b DEF uart_rx_start, StreamInv, TypeOK
        <4> QED
          BY <2>b, <4>1, ChunkPositive DEF StreamInv, TypeOK
      <3>2. /\ rx' = "on" /\ fill' = 0 /\ rep' = 0 /\ nxt' = NoBuf
            /\ base' = 0 % LogSize /\ allocated' = 0 + C /\ req'
        BY <2>b, <3>1 DEF uart_rx_start, StreamInv, TypeOK, C
      <3>3. 0 = 0 * C /\ 0 + C = (0 + 1) * C
        BY <1>0
      <3>4. sent' = 0 * C + fill' /\ base' = (0 * C) % LogSize /\ allocated' = (0 + 1) * C
        BY <2>b, <3>1, <3>2, <3>3
      <3> QED
        BY <2>b, <3>1, <3>2, <3>4 DEF StreamInv, C
    <2>1. CASE console_logger_init
      BY <2>1, <2>b DEF console_logger_init
    <2>2. CASE BufRequestEvent
      <3>1. /\ rx = "on" /\ nxt = NoBuf /\ ~req' /\ faults = 0
            /\ UNCHANGED <<received, log_buffer, rx, base, fill, rep, sent>>
            /\ nxt' = allocated % LogSize /\ allocated' = allocated + C
        <4>1. faults \in Nat /\ UNCHANGED faults /\ nxt' = allocated % LogSize
          BY <2>2 DEF BufRequestEvent, uart_rx_allocate, StreamInv, TypeOK
        <4> QED
          BY <2>2, <4>1 DEF BufRequestEvent, uart_rx_allocate, StreamInv, C
      <3>2. nxt' # NoBuf
        <4>1. allocated \in Nat
          BY DEF StreamInv, TypeOK
        <4>2. nxt' \in Slots
          BY <4>1, <3>1, ModIsSlot
        <4> QED
          BY <4>2, SizeAssumption DEF Slots, NoBuf
      <3>3. PICK k \in Nat : /\ sent = k * C + fill /\ base = (k * C) % LogSize
                             /\ allocated = (k + 1) * C
        BY <3>1 DEF StreamInv, C
      <3>4. allocated' = (k + 2) * C
        <4>1. (k + 1) * C + C = ((k + 1) + 1) * C /\ (k + 1) + 1 = k + 2
          BY <1>0
        <4> QED
          BY <4>1, <3>1, <3>3
      <3>5. nxt' = ((k + 1) * C) % LogSize
        BY <3>1, <3>3
      <3> QED
        BY <3>1, <3>2, <3>3, <3>4, <3>5 DEF StreamInv, C
    <2>3. CASE RxTimeoutEvent
      BY <2>3, ChunkPositive DEF RxTimeoutEvent, uart_rx_ready, StreamInv, TypeOK
    <2>4. CASE ChunkFullEvent
      <3>1. /\ rx = "on" /\ nxt # NoBuf /\ faults = 0 /\ UNCHANGED <<rx, allocated, log_buffer, sent>>
            /\ base' = nxt /\ nxt' = NoBuf /\ req' /\ fill = C /\ fill' = 0 /\ rep' = 0
            /\ received' = received + (fill - rep)
        BY <2>4 DEF ChunkFullEvent, uart_rx_ready, C
      <3>2. PICK k \in Nat : /\ sent = k * C + fill /\ allocated = (k + 2) * C
                             /\ nxt = ((k + 1) * C) % LogSize
        BY <3>1 DEF StreamInv, C
      <3>3. /\ k + 1 \in Nat /\ allocated' = ((k + 1) + 1) * C
            /\ base' = ((k + 1) * C) % LogSize /\ sent' = (k + 1) * C + fill'
        BY <3>1, <3>2, <1>0
      <3>4. sent' = received' + (fill' - rep')
        BY <3>1, <1>0 DEF StreamInv, TypeOK
      <3> QED
        BY <3>1, <3>3, <3>4 DEF StreamInv, C
    <2>5. CASE RxDisabledEvent
      BY <2>5, <2>b DEF RxDisabledEvent
    <2>6. CASE RxStop \/ ChunkLastEvent
      BY <2>6 DEF RxStop, ChunkLastEvent, StreamInv, TypeOK
    <2>7. CASE DmaByte
      <3>1. /\ rx = "on" /\ fill < C /\ faults = 0 /\ fill' = fill + 1 /\ sent' = sent + 1
            /\ log_buffer' = [log_buffer EXCEPT ![base + fill] = sent]
            /\ UNCHANGED <<allocated, received, rx, base, rep, nxt, req>>
        BY <2>7 DEF DmaByte, C
      <3>2. PICK k \in Nat : /\ sent = k * C + fill /\ base = (k * C) % LogSize
                             /\ \/ nxt = NoBuf /\ allocated = (k + 1) * C
                                \/ /\ nxt # NoBuf /\ allocated = (k + 2) * C
                                   /\ nxt = ((k + 1) * C) % LogSize
        BY <3>1 DEF StreamInv, C
      <3>3. fill \in 0..(C - 1) /\ rep \in Nat /\ received \in Nat /\ sent \in Nat
        BY <3>1, <1>0 DEF StreamInv, TypeOK, C
      <3>4. sent % LogSize = base + fill
        BY <3>2, <3>3, ByteSlot DEF C
      <3>5. sent' = k * C + fill' /\ sent' = received' + (fill' - rep')
        BY <3>1, <3>2, <3>3, <1>0 DEF StreamInv
      <3>6. ASSUME NEW p \in Nat, sent' - LogSize <= p, p < sent'
            PROVE  log_buffer'[p % LogSize] = p
        <4>1. p % LogSize \in Slots /\ sent % LogSize \in Slots /\ log_buffer \in [Slots -> Nat \cup {Empty}]
          BY <3>3, ModIsSlot DEF StreamInv, TypeOK
        <4>2. CASE p = sent
          BY <4>1, <4>2, <3>1, <3>4
        <4>3. CASE p # sent
          <5>1. p < sent /\ sent - p < LogSize /\ sent - LogSize <= p
            BY <3>1, <3>3, <3>6, <4>3, SizeAssumption
          <5>2. p % LogSize # sent % LogSize
            BY <5>1, <3>3, SlotsDiffer
          <5>3. log_buffer[p % LogSize] = p
            BY <5>1, <3>1 DEF StreamInv
          <5> QED
            BY <4>1, <5>2, <5>3, <3>1, <3>4
        <4> QED
          BY <4>2, <4>3
      <3> QED
        BY <3>1, <3>2, <3>5, <3>6 DEF StreamInv, C
    <2>8. ASSUME NEW r \in Readers, host_console_read(r) \/ host_console_seek_end(r)
          PROVE  StreamInv'
      BY <2>8, <2>a DEF host_console_read, host_console_seek_end, logVars, drvVars
    <2>9. CASE UNCHANGED vars
      BY <2>9, <2>a DEF vars, logVars, drvVars
    <2> QED
      BY <2>1, <2>2, <2>3, <2>4, <2>5, <2>6, <2>7, <2>8, <2>9
         DEF Next, uart_callback
  <1> QED
    BY <1>1, <1>2, TypeCorrect, PTL DEF Spec

\* Without a fault at most two chunks are out, and what a read may return has not
\* been overwritten: it is at most a lap behind the end of the chunk being filled.
LEMMA ReadableIsKept ==
    ASSUME Aligned, StreamInv, faults = 0, rx = "on"
    PROVE  \E k \in Nat :
              /\ sent = k * UART_RX_BUF_SIZE + fill /\ base = (k * UART_RX_BUF_SIZE) % LogSize
              /\ 0 <= Start /\ Start <= received
              /\ k * UART_RX_BUF_SIZE + UART_RX_BUF_SIZE - LogSize <= Start
  <1> DEFINE C == UART_RX_BUF_SIZE
             S == RxBufShare
  <1>0. C \in Nat \ {0} /\ S \in Nat /\ S >= 3 /\ LogSize = S * C /\ LogSize \in Nat
    BY ChunkPositive, SizeAssumption DEF Aligned
  <1>1. /\ received \in Nat /\ allocated \in Nat /\ fill \in 0..C /\ rep \in 0..fill
        /\ sent = received + (fill - rep)
    BY DEF StreamInv, TypeOK
  <1> HIDE DEF C, S
  <1>2. PICK k \in Nat : /\ sent = k * C + fill /\ base = (k * C) % LogSize
                         /\ allocated \in {(k + 1) * C, (k + 2) * C}
    BY DEF StreamInv, C
  <1>3. k * C \in Nat /\ (k + 1) * C = k * C + C /\ (k + 2) * C = k * C + 2 * C
    BY <1>0
  <1> DEFINE n == k * C
  <1> HIDE DEF n
  <1>4. n \in Nat /\ allocated \in {n + C, n + 2 * C} /\ sent = n + fill
    BY <1>2, <1>3 DEF n
  <1>5. received = n + rep
    BY <1>0, <1>1, <1>4
  <1>6. LogSize >= 3 * C
    BY <1>0
  <1>7. 0 <= Start /\ Start <= received
    BY <1>0, <1>1, <1>4, <1>5, <1>6 DEF Start
  <1>8. n + C - LogSize <= Start
    <2>1. CASE received < LogSize
      <3>1. n < LogSize
        BY <2>1, <1>0, <1>1, <1>4, <1>5
      <3>2. n + C <= LogSize
        BY <3>1, FirstLap DEF n, C
      <3> QED
        BY <2>1, <3>2, <1>0, <1>4 DEF Start
    <2>2. CASE received >= LogSize
      BY <2>2, <1>0, <1>1, <1>4 DEF Start
    <2> QED
      BY <2>1, <2>2, <1>0, <1>1
  <1> QED
    BY <1>2, <1>7, <1>8 DEF n, C

\* As long as the receiver has not stopped, a read returns the bytes the host sent at
\* the positions it reads, in order, whatever position and size the reader asks for
\* (console_log_read, console_logger.c:141-182), in every log of whole chunks.
THEOREM ReadsUntilFaultHolds ==
    ASSUME Aligned
    PROVE  Spec => []ReadsUntilFault
  <1>1. StreamInv => ReadsUntilFault
    <2> SUFFICES ASSUME StreamInv, faults = 0, NEW p \in 0..received, NEW n \in ReadSizes,
                        NEW i \in 1..ReadLen(p, n)
                 PROVE  ReadBytes(p, n)[i] = ReadFrom(p) + i - 1
      BY DEF ReadsUntilFault, ReadReturnsTheStream
    <2>0. /\ TypeOK /\ received \in Nat /\ p \in Nat /\ n \in Nat /\ LogSize \in Nat \ {0}
          /\ fill \in Nat /\ rep \in 0..fill /\ sent = received + (fill - rep)
      BY BoundAssumption, SizeAssumption, ChunkPositive DEF StreamInv, TypeOK
    <2>t. ReadFrom(p) \in Nat /\ ReadLen(p, n) \in Nat /\ Start \in Int
      BY <2>0, ReadTypes
    <2> DEFINE x == ReadFrom(p) + i - 1
    <2>1. CASE rx = "reset"
      <3>1. received = 0 /\ ReadFrom(p) = 0
        BY <2>1, <2>0, SizeAssumption DEF StreamInv, ReadFrom, Start
      <3>2. ReadLen(p, n) = 0
        BY <3>1, <2>0, MinOfTwo DEF ReadLen
      <3> QED
        BY <3>2
    <2>2. CASE rx = "on"
      <3>1. PICK k \in Nat : /\ sent = k * UART_RX_BUF_SIZE + fill /\ Start <= received
                             /\ k * UART_RX_BUF_SIZE + UART_RX_BUF_SIZE - LogSize <= Start
        BY <2>2, ReadableIsKept
      <3>2. Start <= ReadFrom(p) /\ ReadFrom(p) <= received
        BY <3>1, <2>0, <2>t DEF ReadFrom
      <3>3. ReadLen(p, n) <= received - ReadFrom(p)
        BY <3>2, <2>0, <2>t, MinOfTwo DEF ReadLen
      <3>4. x \in Nat /\ Start <= x /\ x < received
        BY <3>2, <3>3, <2>0, <2>t
      <3>5. sent - LogSize <= Start
        <4>1. fill <= UART_RX_BUF_SIZE /\ k * UART_RX_BUF_SIZE \in Nat /\ UART_RX_BUF_SIZE \in Nat
          BY ChunkPositive, ProductFacts DEF StreamInv, TypeOK
        <4> QED
          BY <4>1, <3>1, <2>0, <2>t
      <3>6. log_buffer[x % LogSize] = x
        <4>1. sent - LogSize <= x /\ x < sent
          BY <3>4, <3>5, <2>0, <2>t
        <4> QED
          BY <4>1, <3>4 DEF StreamInv
      <3> QED
        BY <3>6 DEF ReadBytes
    <2> QED
      BY <2>1, <2>2 DEF StreamInv
  <1> QED
    BY <1>1, StreamInductive, PTL

\* As long as the receiver has not stopped, no byte that a read may copy lies where the
\* DMA is about to write, which rx_lock does not hold off (console_logger.c:141-182),
\* in every log of whole chunks.
THEOREM ReadAvoidsDmaHolds ==
    ASSUME Aligned
    PROVE  Spec => []ReadAvoidsDma
  <1>1. StreamInv => ReadAvoidsDma
    <2> SUFFICES ASSUME StreamInv, faults = 0, rx = "on", NEW p \in Start..(received - 1),
                        p % LogSize \in (base + fill)..(base + UART_RX_BUF_SIZE - 1)
                 PROVE  FALSE
      BY DEF ReadAvoidsDma
    <2> DEFINE C == UART_RX_BUF_SIZE
    <2>0. /\ TypeOK /\ received \in Nat /\ LogSize \in Nat \ {0} /\ C \in Nat \ {0}
          /\ fill \in Nat /\ rep \in 0..fill /\ sent = received + (fill - rep) /\ base \in Nat
      BY SizeAssumption, ChunkPositive DEF StreamInv, TypeOK, Slots
    <2> HIDE DEF C
    <2>1. PICK k \in Nat : /\ sent = k * C + fill /\ base = (k * C) % LogSize
                           /\ 0 <= Start /\ Start <= received /\ k * C + C - LogSize <= Start
      BY ReadableIsKept DEF C
    <2> DEFINE n == k * C
               j == (p % LogSize) - base
               y == n + j
    <2>2. n \in Nat
      BY <2>0, ProductFacts
    <2>3. p % LogSize \in Int /\ Start \in Int /\ p \in Int
      BY <2>0, SizeAssumption DEF Start, StreamInv, TypeOK
    <2>4. j \in 0..(C - 1) /\ j >= fill
      BY <2>0, <2>3 DEF C
    <2>5. (n + j) % LogSize = base + j
      BY <2>1, <2>4, ByteSlot DEF C
    <2>6. y % LogSize = p % LogSize
      BY <2>5, <2>0, <2>3
    <2> HIDE DEF n, j
    <2>7. p \in Nat /\ y \in Nat /\ p < y /\ y - p < LogSize
      BY <2>0, <2>1, <2>2, <2>3, <2>4 DEF n
    <2> HIDE DEF y
    <2> QED
      BY <2>6, <2>7, SlotsDiffer
  <1> QED
    BY <1>1, StreamInductive, PTL

-----------------------------------------------------------------------------
(* The abstract log.                                                       *)

\* No byte is reported of a chunk that was not handed out.
ReportedInv ==
    /\ TypeOK
    /\ allocated >= received
    /\ rx = "on" =>
          allocated - received + rep >= IF nxt = NoBuf THEN UART_RX_BUF_SIZE ELSE 2 * UART_RX_BUF_SIZE

\* uart_rx_start and uart_rx_allocate hand out a chunk before the driver fills it, and
\* what it gives back when it stops has been reported as far as it was filled.
LEMMA ReportedInductive == Spec => []ReportedInv
  <1> USE ChunkPositive
  <1>1. Init => ReportedInv
    BY TypeInit DEF Init, ReportedInv
  <1>2. InFlightInv /\ ReportedInv /\ TypeOK' /\ [Next]_vars => ReportedInv'
    <2> SUFFICES ASSUME InFlightInv, ReportedInv, TypeOK', [Next]_vars PROVE ReportedInv'
      OBVIOUS
    <2>1. CASE console_logger_init \/ RxDisabledEvent
      <3>1. /\ UNCHANGED received /\ allocated' = allocated + UART_RX_BUF_SIZE
            /\ rep' = 0 /\ nxt' = NoBuf
        BY <2>1 DEF console_logger_init, RxDisabledEvent, uart_rx_start
      <3> QED
        BY <3>1 DEF ReportedInv, TypeOK
    <2>2. CASE BufRequestEvent
      BY <2>2 DEF BufRequestEvent, uart_rx_allocate, InFlightInv, ReportedInv, TypeOK
    <2>3. CASE RxTimeoutEvent
      BY <2>3 DEF RxTimeoutEvent, uart_rx_ready, ReportedInv, TypeOK
    <2>4. CASE ChunkFullEvent \/ ChunkLastEvent
      <3>1. CASE ChunkFullEvent
        BY <3>1 DEF ChunkFullEvent, uart_rx_ready, ReportedInv, TypeOK
      <3>2. CASE ChunkLastEvent
        BY <3>2 DEF ChunkLastEvent, uart_rx_ready, ReportedInv, TypeOK
      <3> QED
        BY <2>4, <3>1, <3>2
    <2>5. CASE RxStop
      BY <2>5 DEF RxStop, uart_rx_ready, ReportedInv, TypeOK
    <2>6. CASE DmaByte
      BY <2>6 DEF DmaByte, ReportedInv
    <2>7. ASSUME NEW r \in Readers, host_console_read(r) \/ host_console_seek_end(r)
          PROVE  ReportedInv'
      BY <2>7 DEF host_console_read, host_console_seek_end, logVars, drvVars, ReportedInv
    <2>8. CASE UNCHANGED vars
      BY <2>8 DEF vars, logVars, drvVars, ReportedInv
    <2> QED
      BY <2>1, <2>2, <2>3, <2>4, <2>5, <2>6, <2>7, <2>8 DEF Next, uart_callback
  <1> QED
    BY <1>1, <1>2, InFlightInductive, TypeCorrect, PTL DEF Spec

\* More faults lose at least as much of the ring.
LEMMA ProductMonotone ==
    ASSUME NEW c \in Nat, NEW a \in Nat, NEW b \in Nat, a <= b
    PROVE  c * (1 + a) <= c * (1 + b) /\ c * (1 + a) \in Nat /\ c * (1 + b) \in Nat
  <1>1. PICK d \in Nat : b = a + d
    <2>1. b - a \in Nat /\ b = a + (b - a)
      OBVIOUS
    <2> QED
      BY <2>1
  <1>2. c * (1 + a) \in Nat /\ c * d \in Nat /\ c * ((1 + a) + d) = c * (1 + a) + c * d
    OBVIOUS
  <1> QED
    BY <1>1, <1>2

StartOf(a, r) == IF r < LogSize THEN 0 ELSE a - LogSize

\* The arithmetic of Start, as the two counters grow.
LEMMA StartMoves ==
    ASSUME NEW a \in Nat, NEW b \in Nat, NEW r \in Nat, NEW q \in Nat, NEW l \in Nat, NEW m \in Nat,
           a >= r, b >= q, b >= a, q >= r, b - q <= l, l <= m
    PROVE  /\ StartOf(b, q) \in Nat /\ StartOf(b, q) >= StartOf(a, r)
           /\ StartOf(b, q) > 0 => StartOf(b, q) <= q - (LogSize - m)
  BY SizeAssumption DEF StartOf

\* The oldest byte a read returns only moves forward, and gives up no more than the
\* chunks in flight.
LEMMA StartKept ==
    ASSUME TypeOK, ReportedInv, TypeOK', ReportedInv', FaultsInv', InFlightPerFault',
           allocated' >= allocated, received' >= received
    PROVE  Abs!Kept
  <1> DEFINE c == 2 * UART_RX_BUF_SIZE
             lost == c * (1 + faults')
             most == c * (1 + MaxFaults)
  <1>0. /\ allocated \in Nat /\ received \in Nat /\ allocated' \in Nat /\ received' \in Nat
        /\ LogSize \in Nat /\ c \in Nat /\ faults' \in Nat /\ MaxFaults \in Nat /\ faults' <= MaxFaults
    BY SizeAssumption, BoundAssumption, ChunkPositive DEF TypeOK, FaultsInv
  <1>1. allocated' - received' <= lost
    BY DEF InFlightPerFault
  <1>2. allocated >= received /\ allocated' >= received'
    BY DEF ReportedInv
  <1>3. lost <= most /\ lost \in Nat /\ most \in Nat
    BY <1>0, ProductMonotone
  <1> HIDE DEF lost, most, c
  <1>4. Start = StartOf(allocated, received) /\ Start' = StartOf(allocated', received')
    BY DEF Start, StartOf
  <1>5. /\ Start' \in Nat /\ Start' >= Start
        /\ Start' > 0 => Start' <= received' - (LogSize - most)
    BY <1>0, <1>1, <1>2, <1>3, <1>4, StartMoves
  <1> QED
    BY <1>5 DEF Abs!Kept, most, c

\* The ring implements the log of console_logger.h: the last bytes, all but two chunks
\* and two more for every fault, are always there to be read, cursors skip nothing
\* else, and a read returns something whenever there is something, with at most
\* RxBufShare / 2 - 1 faults of the driver.
THEOREM HostLogRefined ==
    ASSUME 2 * (1 + MaxFaults) <= RxBufShare
    PROVE  Spec => ImplementsHostLog
  <1>1. Init => Abs!Init
    BY SizeAssumption DEF Init, Abs!Init, Start
  <1>2. /\ TypeOK /\ FaultsInv /\ InFlightPerFault /\ ReportedInv /\ ReadersBehindFewFaults
        /\ TypeOK' /\ FaultsInv' /\ InFlightPerFault' /\ ReportedInv'
        /\ [Next]_vars
        => [Abs!Next]_<<received, Start, pos>>
    <2> SUFFICES ASSUME TypeOK, FaultsInv, InFlightPerFault, ReportedInv, ReadersBehindFewFaults,
                        TypeOK', FaultsInv', InFlightPerFault', ReportedInv', [Next]_vars
                 PROVE  Abs!Next \/ UNCHANGED <<received, Start, pos>>
      OBVIOUS
    <2>0. allocated \in Nat /\ received \in Nat /\ UART_RX_BUF_SIZE \in Nat /\ fill - rep \in Nat
      BY ChunkPositive DEF TypeOK
    <2>f. 2 * (1 + faults) <= RxBufShare /\ ReadersBehind
      <3>1. 2 * (1 + faults) <= RxBufShare
        BY SizeAssumption, BoundAssumption DEF TypeOK, FaultsInv
      <3> QED
        BY <3>1 DEF ReadersBehindFewFaults
    <2>1. CASE console_logger_init \/ RxDisabledEvent \/ BufRequestEvent
      <3>1. UNCHANGED <<received, pos>> /\ allocated' = allocated + UART_RX_BUF_SIZE
        BY <2>1 DEF console_logger_init, RxDisabledEvent, BufRequestEvent, uart_rx_start, uart_rx_allocate
      <3>2. Abs!Kept
        BY <3>1, <2>0, StartKept
      <3> QED
        BY <3>1, <3>2 DEF Abs!Next, Abs!Retire
    <2>2. CASE RxTimeoutEvent \/ ChunkFullEvent \/ ChunkLastEvent \/ RxStop
      <3>1. UNCHANGED <<allocated, pos>> /\ received' = received + (fill - rep)
        BY <2>2 DEF RxTimeoutEvent, ChunkFullEvent, ChunkLastEvent, RxStop, uart_rx_ready
      <3>2. CASE fill - rep = 0
        BY <3>1, <3>2, <2>0 DEF Start
      <3>3. CASE fill - rep > 0
        <4>1. Abs!Kept
          BY <3>1, <2>0, StartKept
        <4>2. received' - received > 0 /\ received' = received + (received' - received)
          BY <3>1, <3>3, <2>0
        <4> QED
          BY <3>1, <4>1, <4>2 DEF Abs!Next, Abs!Append
      <3> QED
        BY <3>2, <3>3, <2>0
    <2>3. CASE DmaByte \/ UNCHANGED vars
      BY <2>3 DEF DmaByte, vars, logVars, Start
    <2>4. ASSUME NEW r \in Readers, host_console_read(r)
          PROVE  Abs!Next
      <3>1. PICK n \in ReadSizes : pos' = [pos EXCEPT ![r] = ReadPos(pos[r], n)]
        BY <2>4 DEF host_console_read
      <3>2. UNCHANGED <<received, Start>>
        BY <2>4 DEF host_console_read, logVars, Start
      <3>3. pos[r] \in Nat /\ pos[r] <= received /\ n \in Nat /\ n > 0
        BY <2>f, BoundAssumption DEF TypeOK, ReadersBehind
      <3> DEFINE from == ReadFrom(pos[r])
                 to == ReadPos(pos[r], n)
      <3>4. from \in Nat /\ from <= received /\ from = Abs!From(pos[r])
        BY <3>3, <2>0, <2>f, ReadTypes, StartBehind DEF ReadFrom, Abs!From
      <3>5. to = from + (IF n <= received - from THEN n ELSE received - from)
        BY <3>3, <3>4, <2>0, MinOfTwo DEF ReadPos, ReadLen
      <3> HIDE DEF from, to
      <3>6. to \in from..received /\ (from < received => to > from)
        BY <3>3, <3>4, <3>5, <2>0
      <3>7. pos' = [pos EXCEPT ![r] = to]
        BY <3>1 DEF to
      <3> QED
        BY <3>2, <3>4, <3>6, <3>7 DEF Abs!Next, Abs!Read, Abs!ReadTo
    <2>5. ASSUME NEW r \in Readers, host_console_seek_end(r)
          PROVE  Abs!Next
      <3>1. UNCHANGED <<received, Start>> /\ pos' = [pos EXCEPT ![r] = received]
        BY <2>5 DEF host_console_seek_end, logVars, Start
      <3> QED
        BY <3>1 DEF Abs!Next, Abs!SeekEnd
    <2> QED
      BY <2>1, <2>2, <2>3, <2>4, <2>5 DEF Next, uart_callback
  <1> QED
    BY <1>1, <1>2, TypeCorrect, FaultsBounded, InFlightPerFaultHolds, ReportedInductive,
       ReadersBehindHolds, PTL DEF Spec, ImplementsHostLog, Abs!Spec, Abs!logvars

=============================================================================
