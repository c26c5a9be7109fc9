---------------------------- MODULE ButtonProofs ----------------------------
(***************************************************************************)
(* Proofs about the reset button, for every debounce and hold time: how    *)
(* long the button has been held when reset_work runs.                     *)
(*                                                                         *)
(* QueueInv says that a work item waits for its time or for the queue, and *)
(* is in the queue once.  HeldInv says, as long as the queue has been      *)
(* served in time, that the reset timer has not run for longer than the    *)
(* button has been held, and that while the button is up and a reset is on *)
(* its way, button_work is due before the release counts as one.           *)
(***************************************************************************)
EXTENDS Button, SequenceTheorems, TLAPS

Items == Works \cup {"ntp"}

TypeInv ==
    /\ timer \in [Works -> Int]
    /\ timer["button"] \in Idle..DEBOUNCE_TIME /\ timer["reset"] \in Idle..RESET_HOLD_TIME
    /\ queue \in Seq(Items)
    /\ low \in Nat /\ since \in Idle..Long

FlagInv == pressed \in BOOLEAN /\ rebooted \in BOOLEAN /\ stalled \in BOOLEAN

Once(q, w) == \A i, j \in 1..Len(q) : q[i] = w /\ q[j] = w => i = j

QueueInv ==
    \A w \in Works : Once(queue, w) /\ (timer[w] # Idle => ~Contains(queue, w))

\* button_work will run before the button has been up for longer than the debounce
\* time.
ReleaseSeen ==
    \/ Contains(queue, "button")
    \/ timer["button"] # Idle /\ timer["button"] + low <= DEBOUNCE_TIME

HeldInv ==
    /\ pressed => since >= 0
    /\ timer["reset"] # Idle => since >= 0 /\ since >= RESET_HOLD_TIME - timer["reset"]
    /\ Contains(queue, "reset") => since >= RESET_HOLD_TIME
    /\ ~pressed /\ Pending("reset") => low <= DEBOUNCE_TIME /\ ReleaseSeen
    /\ rebooted => since >= RESET_HOLD_TIME

InTime == ~stalled => HeldInv

-----------------------------------------------------------------------------
(* The work queue.                                                         *)

\* Submitting an item.
LEMMA AppendFacts ==
    ASSUME NEW q \in Seq(Items), NEW w \in Items
    PROVE  /\ Append(q, w) \in Seq(Items)
           /\ \A e : Contains(Append(q, w), e) <=> Contains(q, e) \/ e = w
           /\ \A e : Once(q, e) /\ (e = w => ~Contains(q, e)) => Once(Append(q, w), e)
  <1>1. Append(q, w) \in Seq(Items) /\ Len(Append(q, w)) = Len(q) + 1 /\ Len(q) \in Nat
    BY AppendProperties, LenProperties
  <1>2. \A i \in 1..Len(q) : Append(q, w)[i] = q[i]
    BY AppendProperties
  <1>3. Append(q, w)[Len(q) + 1] = w
    BY AppendProperties
  <1>4. \A i \in 1..Len(Append(q, w)) : i \in 1..Len(q) \/ i = Len(q) + 1
    BY <1>1
  <1>5. \A i \in 1..Len(q) : i \in 1..Len(Append(q, w))
    BY <1>1
  <1>6. Len(q) + 1 \in 1..Len(Append(q, w))
    BY <1>1
  <1>7. \A e : Contains(Append(q, w), e) <=> Contains(q, e) \/ e = w
    BY <1>2, <1>3, <1>4, <1>5, <1>6 DEF Contains
  <1>8. \A e : Once(q, e) /\ (e = w => ~Contains(q, e)) => Once(Append(q, w), e)
    BY <1>2, <1>3, <1>4 DEF Contains, Once
  <1> QED
    BY <1>1, <1>7, <1>8

\* Taking the first item.
LEMMA TailFacts ==
    ASSUME NEW q \in Seq(Items), q # <<>>
    PROVE  /\ Tail(q) \in Seq(Items)
           /\ \A e : Contains(Tail(q), e) => Contains(q, e)
           /\ \A e : Contains(q, e) /\ Head(q) # e => Contains(Tail(q), e)
           /\ \A e : Once(q, e) => Once(Tail(q), e)
           /\ Contains(q, Head(q))
           /\ Once(q, Head(q)) => ~Contains(Tail(q), Head(q))
  <1>1. /\ Tail(q) \in Seq(Items) /\ Len(Tail(q)) = Len(q) - 1
        /\ Len(q) \in Nat /\ Len(q) # 0
    BY HeadTailProperties, LenProperties, EmptySeq
  <1>2. \A i \in 1..Len(Tail(q)) : Tail(q)[i] = q[i + 1]
    BY HeadTailProperties
  <1>3. \A i \in 1..Len(Tail(q)) : i + 1 \in 1..Len(q) /\ i + 1 # 1
    BY <1>1
  <1>4. \A i \in 1..Len(q) : i = 1 \/ (i - 1 \in 1..Len(Tail(q)) /\ (i - 1) + 1 = i)
    BY <1>1
  <1>5. Head(q) = q[1] /\ 1 \in 1..Len(q)
    BY <1>1
  <1>6. \A e : Contains(Tail(q), e) => Contains(q, e)
    BY <1>2, <1>3 DEF Contains
  <1>7. \A e : Contains(q, e) /\ Head(q) # e => Contains(Tail(q), e)
    <2> SUFFICES ASSUME NEW e, Contains(q, e), Head(q) # e PROVE Contains(Tail(q), e)
      OBVIOUS
    <2>1. PICK i \in 1..Len(q) : q[i] = e
      BY DEF Contains
    <2>2. i - 1 \in 1..Len(Tail(q)) /\ (i - 1) + 1 = i
      BY <1>4, <1>5, <2>1
    <2>3. Tail(q)[i - 1] = q[(i - 1) + 1]
      BY <1>2, <2>2
    <2>4. Tail(q)[i - 1] = e
      BY <2>1, <2>2, <2>3
    <2> QED
      BY <2>2, <2>4 DEF Contains
  <1>8. \A e : Once(q, e) => Once(Tail(q), e)
    <2> SUFFICES ASSUME NEW e, Once(q, e), NEW i \in 1..Len(Tail(q)), NEW j \in 1..Len(Tail(q)),
                        Tail(q)[i] = e, Tail(q)[j] = e
                 PROVE  i = j
      BY DEF Once
    <2>1. i + 1 = j + 1
      BY <1>2, <1>3 DEF Once
    <2> QED
      BY <2>1
  <1>9. Contains(q, Head(q))
    BY <1>5 DEF Contains
  <1>10. Once(q, Head(q)) => ~Contains(Tail(q), Head(q))
    BY <1>2, <1>3, <1>5 DEF Contains, Once
  <1> QED
    BY <1>1, <1>6, <1>7, <1>8, <1>9, <1>10

\* Cancelling an item that is in the queue once removes it and nothing else.
LEMMA RemoveFacts ==
    ASSUME NEW q \in Seq(Items), NEW e, Once(q, e)
    PROVE  /\ RemoveFirst(q, e) \in Seq(Items)
           /\ ~Contains(RemoveFirst(q, e), e)
           /\ \A f : Contains(RemoveFirst(q, e), f) => Contains(q, f)
           /\ \A f : Once(q, f) => Once(RemoveFirst(q, e), f)
  <1>1. CASE ~Contains(q, e)
    BY <1>1 DEF Contains, RemoveFirst
  <1>2. CASE Contains(q, e)
    <2>1. PICK k \in 1..Len(q) : q[k] = e
      BY <1>2 DEF Contains
    <2>2. {i \in 1..Len(q) : q[i] = e} = {k}
      BY <2>1 DEF Once
    <2>3. Min({k}) = k
      BY <2>1 DEF Min
    <2>4. SelectInSeq(q, LAMBDA v : v = e) = k
      BY <2>2, <2>3 DEF SelectInSeq
    <2>5. RemoveFirst(q, e) = SubSeq(q, 1, k - 1) \o SubSeq(q, k + 1, Len(q))
      BY <2>1, <2>4 DEF RemoveFirst, RemoveAt
    <2> DEFINE a == SubSeq(q, 1, k - 1)
               b == SubSeq(q, k + 1, Len(q))
               r == a \o b
    <2>6. Len(q) \in Nat /\ k \in Int /\ k >= 1 /\ k <= Len(q)
      BY <2>1, LenProperties
    <2>7. \A i \in 1..Len(q) : q[i] \in Items
      BY ElementOfSeq
    <2>8. /\ a \in Seq(Items) /\ Len(a) = k - 1
          /\ \A i \in 1..(k - 1) : a[i] = q[i]
      <3>1. \A i \in 1..(k - 1) : i \in 1..Len(q)
        BY <2>6
      <3>2. \A i \in 1..(k - 1) : q[i] \in Items
        BY <2>7, <3>1
      <3>3. 1 \in Int /\ k - 1 \in Int
        BY <2>6
      <3>4. /\ a \in Seq(Items) /\ Len(a) = (IF 1 <= k - 1 THEN k - 1 - 1 + 1 ELSE 0)
            /\ \A i \in 1..(k - 1 - 1 + 1) : a[i] = q[1 + i - 1]
        BY <3>2, <3>3, SubSeqProperties
      <3> QED
        BY <3>4, <2>6
    <2>9. /\ b \in Seq(Items) /\ Len(b) = Len(q) - k
          /\ \A i \in 1..(Len(q) - k) : b[i] = q[k + i]
      <3>1. \A i \in (k + 1)..Len(q) : i \in 1..Len(q)
        BY <2>6
      <3>2. \A i \in (k + 1)..Len(q) : q[i] \in Items
        BY <2>7, <3>1
      <3>3. k + 1 \in Int /\ Len(q) \in Int
        BY <2>6
      <3>4. /\ b \in Seq(Items)
            /\ Len(b) = (IF k + 1 <= Len(q) THEN Len(q) - (k + 1) + 1 ELSE 0)
            /\ \A i \in 1..(Len(q) - (k + 1) + 1) : b[i] = q[k + 1 + i - 1]
        BY <3>2, <3>3, SubSeqProperties
      <3> QED
        BY <3>4, <2>6
    <2> HIDE DEF a, b
    <2>10. /\ r \in Seq(Items) /\ Len(r) = Len(q) - 1
           /\ \A i \in 1..Len(r) : r[i] = IF i <= k - 1 THEN a[i] ELSE b[i - (k - 1)]
      <3>1. /\ r \in Seq(Items) /\ Len(r) = Len(a) + Len(b)
            /\ \A i \in 1..(Len(a) + Len(b)) : r[i] = IF i <= Len(a) THEN a[i] ELSE b[i - Len(a)]
        BY <2>8, <2>9, ConcatProperties
      <3>2. Len(a) + Len(b) = Len(q) - 1
        BY <2>6, <2>8, <2>9
      <3> QED
        BY <2>8, <3>1, <3>2
    <2> HIDE DEF r
    <2>11. ASSUME NEW i \in 1..Len(r)
           PROVE  \/ i < k /\ i \in 1..Len(q) /\ r[i] = q[i]
                  \/ i >= k /\ i + 1 \in 1..Len(q) /\ r[i] = q[i + 1]
      <3>1. CASE i <= k - 1
        BY <2>6, <2>8, <2>10, <3>1
      <3>2. CASE ~(i <= k - 1)
        <4>1. i - (k - 1) \in 1..(Len(q) - k) /\ k + (i - (k - 1)) = i + 1
          BY <2>6, <2>10, <3>2
        <4>2. r[i] = q[i + 1]
          BY <2>9, <2>10, <3>2, <4>1
        <4> QED
          BY <2>6, <2>10, <3>2, <4>2
      <3> QED
        BY <3>1, <3>2
    <2>12. ~Contains(r, e)
      <3> SUFFICES ASSUME NEW i \in 1..Len(r), r[i] = e PROVE FALSE
        BY DEF Contains
      <3> QED
        BY <2>1, <2>6, <2>11 DEF Once
    <2>13. \A f : Contains(r, f) => Contains(q, f)
      BY <2>11 DEF Contains
    <2>14. \A f : Once(q, f) => Once(r, f)
      <3> SUFFICES ASSUME NEW f, Once(q, f), NEW i \in 1..Len(r), NEW j \in 1..Len(r),
                          r[i] = f, r[j] = f
                   PROVE  i = j
        BY DEF Once
      <3>1. i \in Int /\ j \in Int
        BY <2>6, <2>10
      <3>2. CASE i < k /\ j < k
        BY <2>6, <2>11, <3>1, <3>2 DEF Once
      <3>3. CASE i >= k /\ j >= k
        <4>1. i + 1 = j + 1
          <5>1. i + 1 \in 1..Len(q) /\ q[i + 1] = f
            BY <2>6, <2>11, <3>1, <3>3
          <5>2. j + 1 \in 1..Len(q) /\ q[j + 1] = f
            BY <2>6, <2>11, <3>1, <3>3
          <5> QED
            BY <5>1, <5>2 DEF Once
        <4> QED
          BY <4>1, <3>1
      <3>4. CASE i < k /\ j >= k
        <4>1. i = j + 1
          <5>1. i \in 1..Len(q) /\ q[i] = f
            BY <2>6, <2>11, <3>1, <3>4
          <5>2. j + 1 \in 1..Len(q) /\ q[j + 1] = f
            BY <2>6, <2>11, <3>1, <3>4
          <5> QED
            BY <5>1, <5>2 DEF Once
        <4> QED
          BY <2>6, <3>1, <3>4, <4>1
      <3>5. CASE i >= k /\ j < k
        <4>1. i + 1 = j
          <5>1. j \in 1..Len(q) /\ q[j] = f
            BY <2>6, <2>11, <3>1, <3>5
          <5>2. i + 1 \in 1..Len(q) /\ q[i + 1] = f
            BY <2>6, <2>11, <3>1, <3>5
          <5> QED
            BY <5>1, <5>2 DEF Once
        <4> QED
          BY <2>6, <3>1, <3>5, <4>1
      <3> QED
        BY <2>6, <3>1, <3>2, <3>3, <3>4, <3>5
    <2>15. RemoveFirst(q, e) = r
      BY <2>5 DEF r, a, b
    <2> QED
      BY <2>10, <2>12, <2>13, <2>14, <2>15
  <1> QED
    BY <1>1, <1>2

-----------------------------------------------------------------------------
(* Types, and the queue invariant.                                         *)

\* Both times are positive.
LEMMA Constants ==
    /\ DEBOUNCE_TIME \in Nat /\ DEBOUNCE_TIME > 0
    /\ RESET_HOLD_TIME \in Nat /\ RESET_HOLD_TIME > 0
    /\ Long = DEBOUNCE_TIME + RESET_HOLD_TIME /\ Idle = -1
  BY ButtonAssumption DEF ButtonAssumption, Long, Idle

\* The work items of the button, and the one of NTP.
LEMMA WorkNames ==
    /\ "button" \in Works /\ "reset" \in Works /\ "button" # "reset"
    /\ "ntp" \notin Works /\ Works \subseteq Items /\ "ntp" \in Items
    /\ \A w \in Works : w = "button" \/ w = "reset"
  BY DEF Works, Items

\* Scheduling an item that is pending changes nothing.
LEMMA ScheduleFacts ==
    ASSUME timer \in [Works -> Int], NEW w \in Works, NEW ticks \in Int, k_work_schedule(w, ticks)
    PROVE  /\ timer' \in [Works -> Int]
           /\ \A v \in Works : v # w => timer'[v] = timer[v]
           /\ Pending(w) => timer'[w] = timer[w]
           /\ ~Pending(w) => timer'[w] = ticks
  BY DEF k_work_schedule

\* Scheduling, expiry and cancellation keep a work item in one place.
LEMMA TypeStep == TypeInv /\ QueueInv /\ [Next]_vars => TypeInv' /\ QueueInv'
  <1> SUFFICES ASSUME TypeInv, QueueInv, [Next]_vars PROVE TypeInv' /\ QueueInv'
    OBVIOUS
  <1>a. timer \in [Works -> Int] /\ queue \in Seq(Items)
    BY DEF TypeInv
  <1>b. \A w : Running(w) => queue # <<>> /\ Head(queue) = w
    BY DEF Running
  <1>1. CASE button_pressed
    <2>1. k_work_schedule("button", DEBOUNCE_TIME) /\ UNCHANGED queue
      BY <1>1 DEF button_pressed
    <2>2. /\ timer' \in [Works -> Int] /\ timer'["reset"] = timer["reset"]
          /\ Pending("button") => timer'["button"] = timer["button"]
          /\ ~Pending("button") => timer'["button"] = DEBOUNCE_TIME
      BY <1>a, <2>1, ScheduleFacts, Constants, WorkNames
    <2>3. low' = 0 /\ since' \in {0, since}
      BY <1>1 DEF button_pressed
    <2>4. TypeInv'
      BY <2>1, <2>2, <2>3, Constants DEF TypeInv
    <2>5. QueueInv'
      BY <2>1, <2>2, WorkNames DEF QueueInv, Pending
    <2> QED
      BY <2>4, <2>5
  <1>2. CASE button_work_fn
    <2>1. queue # <<>> /\ Head(queue) = "button" /\ UNCHANGED <<low, since>>
      BY <1>2, <1>b DEF button_work_fn, history
    <2>2. /\ Tail(queue) \in Seq(Items)
          /\ \A e : Contains(Tail(queue), e) => Contains(queue, e)
          /\ \A e : Once(queue, e) => Once(Tail(queue), e)
      BY <1>a, <2>1, TailFacts
    <2>3. CASE pressed
      <3>1. k_work_schedule("reset", RESET_HOLD_TIME) /\ queue' = Tail(queue)
        BY <1>2, <2>3 DEF button_work_fn
      <3>2. /\ timer' \in [Works -> Int] /\ timer'["button"] = timer["button"]
            /\ Pending("reset") => timer'["reset"] = timer["reset"]
            /\ ~Pending("reset") => timer'["reset"] = RESET_HOLD_TIME
        BY <1>a, <3>1, ScheduleFacts, Constants, WorkNames
      <3>3. TypeInv'
        BY <2>1, <2>2, <3>1, <3>2, Constants DEF TypeInv
      <3>4. QueueInv'
        BY <2>2, <3>1, <3>2, WorkNames DEF QueueInv, Pending
      <3> QED
        BY <3>3, <3>4
    <2>4. CASE ~pressed
      <3>1. timer' = [timer EXCEPT !["reset"] = Idle] /\ queue' = RemoveFirst(Tail(queue), "reset")
        BY <1>2, <2>4 DEF button_work_fn
      <3>2. Once(Tail(queue), "reset")
        BY <2>2, WorkNames DEF QueueInv
      <3>3. /\ queue' \in Seq(Items)
            /\ \A f : Contains(queue', f) => Contains(Tail(queue), f)
            /\ \A f : Once(Tail(queue), f) => Once(queue', f)
        BY <2>2, <3>1, <3>2, RemoveFacts
      <3>4. /\ timer' \in [Works -> Int] /\ timer'["reset"] = Idle
            /\ timer'["button"] = timer["button"]
        BY <1>a, <3>1, Constants, WorkNames
      <3>5. TypeInv'
        BY <2>1, <3>3, <3>4, Constants DEF TypeInv
      <3>6. QueueInv'
        BY <2>2, <3>3, <3>4, WorkNames DEF QueueInv
      <3> QED
        BY <3>5, <3>6
    <2> QED
      BY <2>3, <2>4
  <1>3. CASE reset_work_fn \/ NtpEnd
    <2>1. queue # <<>> /\ queue' = Tail(queue) /\ UNCHANGED <<timer, low, since>>
      BY <1>3, <1>b DEF reset_work_fn, NtpEnd, history
    <2>2. /\ Tail(queue) \in Seq(Items)
          /\ \A e : Contains(Tail(queue), e) => Contains(queue, e)
          /\ \A e : Once(queue, e) => Once(Tail(queue), e)
      BY <1>a, <2>1, TailFacts
    <2>3. TypeInv'
      BY <2>1, <2>2 DEF TypeInv
    <2>4. QueueInv'
      BY <2>1, <2>2 DEF QueueInv
    <2> QED
      BY <2>3, <2>4
  <1>4. ASSUME NEW w \in Works, Expire(w)
        PROVE  TypeInv' /\ QueueInv'
    <2>1. /\ timer[w] = 0 /\ timer' = [timer EXCEPT ![w] = Idle] /\ queue' = Append(queue, w)
          /\ UNCHANGED <<low, since>>
      BY <1>4 DEF Expire, history
    <2>2. ~Contains(queue, w)
      BY <2>1, Constants DEF QueueInv
    <2>3. w \in Items
      BY WorkNames
    <2>4. /\ queue' \in Seq(Items)
          /\ \A e : Contains(queue', e) <=> Contains(queue, e) \/ e = w
          /\ \A e : Once(queue, e) /\ (e = w => ~Contains(queue, e)) => Once(queue', e)
      BY <1>a, <2>1, <2>3, AppendFacts
    <2>5. /\ timer' \in [Works -> Int] /\ timer'[w] = Idle
          /\ \A v \in Works : v # w => timer'[v] = timer[v]
      BY <1>a, <2>1, Constants
    <2>6. TypeInv'
      BY <2>1, <2>4, <2>5, Constants, WorkNames DEF TypeInv
    <2>7. QueueInv'
      BY <2>2, <2>4, <2>5 DEF QueueInv
    <2> QED
      BY <2>6, <2>7
  <1>5. CASE NtpSubmit
    <2>1. queue' = Append(queue, "ntp") /\ UNCHANGED <<timer, low, since>>
      BY <1>5 DEF NtpSubmit, history
    <2>2. /\ queue' \in Seq(Items)
          /\ \A e : Contains(queue', e) <=> Contains(queue, e) \/ e = "ntp"
          /\ \A e : Once(queue, e) /\ (e = "ntp" => ~Contains(queue, e)) => Once(queue', e)
      BY <1>a, <2>1, WorkNames, AppendFacts
    <2>3. TypeInv'
      BY <2>1, <2>2 DEF TypeInv
    <2>4. QueueInv'
      BY <2>1, <2>2, WorkNames DEF QueueInv
    <2> QED
      BY <2>3, <2>4
  <1>6. CASE Tick
    <2>1. /\ \A w \in Works : timer[w] # 0
          /\ timer' = [w \in Works |-> IF timer[w] = Idle THEN Idle ELSE timer[w] - 1]
          /\ UNCHANGED queue
          /\ low' \in {low, low + 1}
      BY <1>6 DEF Tick
    <2>2. timer' \in [Works -> Int] /\ \A w \in Works : timer'[w] # Idle => timer[w] # Idle
      BY <1>a, <2>1, Constants
    <2>3. /\ timer'["button"] \in Idle..DEBOUNCE_TIME
          /\ timer'["reset"] \in Idle..RESET_HOLD_TIME
      BY <2>1, Constants, WorkNames DEF TypeInv
    <2>4. since' \in Idle..Long
      <3>1. since' = Idle \/ since' = since \/ (since \notin {Idle, Long} /\ since' = since + 1)
        BY <1>6 DEF Tick
      <3> QED
        BY <3>1, Constants DEF TypeInv
    <2>5. TypeInv'
      BY <2>1, <2>2, <2>3, <2>4 DEF TypeInv
    <2>6. QueueInv'
      BY <2>1, <2>2 DEF QueueInv
    <2> QED
      BY <2>5, <2>6
  <1>7. CASE UNCHANGED vars
    BY <1>7 DEF vars, TypeInv, QueueInv
  <1> QED
    BY <1>1, <1>2, <1>3, <1>4, <1>5, <1>6, <1>7 DEF Next, Kernel

\* The flags stay flags.
LEMMA FlagStep == FlagInv /\ [Next]_vars => FlagInv'
  <1> SUFFICES ASSUME FlagInv, [Next]_vars PROVE FlagInv'
    OBVIOUS
  <1> USE DEF FlagInv
  <1>1. CASE button_pressed
    BY <1>1 DEF button_pressed
  <1>2. CASE button_work_fn
    BY <1>2 DEF button_work_fn, history
  <1>3. CASE reset_work_fn
    BY <1>3 DEF reset_work_fn, history
  <1>4. CASE NtpSubmit \/ NtpEnd
    BY <1>4 DEF NtpSubmit, NtpEnd, history
  <1>5. ASSUME NEW w \in Works, Expire(w) PROVE FlagInv'
    BY <1>5 DEF Expire, history
  <1>6. CASE Tick
    BY <1>6 DEF Tick
  <1>7. CASE UNCHANGED vars
    BY <1>7 DEF vars
  <1> QED
    BY <1>1, <1>2, <1>3, <1>4, <1>5, <1>6, <1>7 DEF Next, Kernel

-----------------------------------------------------------------------------
(* How long the button has been held.                                      *)

\* Once time passed while NTP had the queue, that stays on record.
LEMMA StalledStays ==
    ASSUME [Next]_vars, ~stalled'
    PROVE  ~stalled /\ (Tick => queue = <<>>)
  <1>1. Tick => ~stalled /\ queue = <<>>
    BY DEF Tick
  <1>2. ~stalled
    <2>1. CASE button_pressed
      BY <2>1 DEF button_pressed
    <2>2. CASE button_work_fn
      BY <2>2 DEF button_work_fn, history
    <2>3. CASE reset_work_fn
      BY <2>3 DEF reset_work_fn, history
    <2>4. CASE NtpSubmit
      BY <2>4 DEF NtpSubmit, history
    <2>5. CASE NtpEnd
      BY <2>5 DEF NtpEnd, history
    <2>6. ASSUME NEW w \in Works, Expire(w) PROVE ~stalled
      BY <2>6 DEF Expire, history
    <2>7. CASE UNCHANGED vars
      BY <2>7 DEF vars
    <2> QED
      BY <1>1, <2>1, <2>2, <2>3, <2>4, <2>5, <2>6, <2>7 DEF Next, Kernel
  <1> QED
    BY <1>1, <1>2

\* If no time passes while the queue is held up, every step keeps the account of how
\* long the button has been held.
LEMMA HeldStep ==
    ASSUME TypeInv, QueueInv, FlagInv, HeldInv, [Next]_vars, Tick => queue = <<>>
    PROVE  HeldInv'
  <1>a. /\ timer \in [Works -> Int] /\ queue \in Seq(Items) /\ low \in Nat
        /\ timer["button"] \in Idle..DEBOUNCE_TIME /\ timer["reset"] \in Idle..RESET_HOLD_TIME
        /\ since \in Idle..Long
    BY DEF TypeInv
  <1>b. \A w : Running(w) => queue # <<>> /\ Head(queue) = w
    BY DEF Running
  <1>1. CASE button_pressed
    <2>1. /\ k_work_schedule("button", DEBOUNCE_TIME) /\ UNCHANGED <<queue, rebooted>>
          /\ low' = 0 /\ since' = IF since = Idle THEN 0 ELSE since
      BY <1>1 DEF button_pressed
    <2>2. /\ timer' \in [Works -> Int] /\ timer'["reset"] = timer["reset"]
          /\ Pending("button") => timer'["button"] = timer["button"]
          /\ ~Pending("button") => timer'["button"] = DEBOUNCE_TIME
      BY <1>a, <2>1, ScheduleFacts, Constants, WorkNames
    <2>3. since' >= 0 /\ since' >= since
      BY <1>a, <2>1, Constants
    <2>4. timer'["reset"] # Idle => since' >= RESET_HOLD_TIME - timer'["reset"]
      BY <1>a, <2>1, <2>2, <2>3, Constants DEF HeldInv
    <2>5. (Contains(queue', "reset") => since' >= RESET_HOLD_TIME)
          /\ (rebooted' => since' >= RESET_HOLD_TIME)
      BY <1>a, <2>1, Constants DEF HeldInv
    <2>6. ReleaseSeen'
      <3>1. Contains(queue, "button") \/ (timer'["button"] # Idle /\ timer'["button"] <= DEBOUNCE_TIME)
        BY <1>a, <2>2, Constants DEF Pending
      <3> QED
        BY <1>a, <2>1, <2>2, <3>1, Constants, WorkNames DEF ReleaseSeen
    <2>7. low' <= DEBOUNCE_TIME
      BY <2>1, Constants
    <2> QED
      BY <2>3, <2>4, <2>5, <2>6, <2>7 DEF HeldInv
  <1>2. CASE button_work_fn
    <2>1. /\ queue # <<>> /\ Head(queue) = "button"
          /\ UNCHANGED <<pressed, rebooted, low, since>>
      BY <1>2, <1>b DEF button_work_fn, history
    <2>2. /\ Tail(queue) \in Seq(Items)
          /\ \A e : Contains(Tail(queue), e) => Contains(queue, e)
          /\ \A e : Once(queue, e) => Once(Tail(queue), e)
      BY <1>a, <2>1, TailFacts
    <2>3. CASE pressed
      <3>1. k_work_schedule("reset", RESET_HOLD_TIME) /\ queue' = Tail(queue)
        BY <1>2, <2>3 DEF button_work_fn
      <3>2. /\ Pending("reset") => timer'["reset"] = timer["reset"]
            /\ ~Pending("reset") => timer'["reset"] = RESET_HOLD_TIME
        BY <1>a, <3>1, ScheduleFacts, Constants, WorkNames
      <3>3. since' >= 0
        BY <2>1, <2>3 DEF HeldInv
      <3>4. timer'["reset"] # Idle => since' >= RESET_HOLD_TIME - timer'["reset"]
        <4>1. CASE Pending("reset")
          BY <2>1, <3>2, <4>1 DEF HeldInv
        <4>2. CASE ~Pending("reset")
          BY <1>a, <2>1, <3>2, <3>3, <4>2, Constants
        <4> QED
          BY <4>1, <4>2
      <3> QED
        BY <2>1, <2>2, <2>3, <3>1, <3>3, <3>4 DEF HeldInv
    <2>4. CASE ~pressed
      <3>1. timer' = [timer EXCEPT !["reset"] = Idle] /\ queue' = RemoveFirst(Tail(queue), "reset")
        BY <1>2, <2>4 DEF button_work_fn
      <3>2. Once(Tail(queue), "reset")
        BY <2>2, WorkNames DEF QueueInv
      <3>3. ~Contains(queue', "reset")
        BY <2>2, <3>1, <3>2, RemoveFacts
      <3>4. timer'["reset"] = Idle
        BY <1>a, <3>1, WorkNames
      <3> QED
        BY <2>1, <2>4, <3>3, <3>4 DEF HeldInv, Pending
    <2> QED
      BY <2>3, <2>4
  <1>3. CASE reset_work_fn
    <2>1. /\ queue # <<>> /\ Head(queue) = "reset" /\ queue' = Tail(queue)
          /\ UNCHANGED <<pressed, timer, low, since>>
      BY <1>3, <1>b DEF reset_work_fn, history
    <2>2. /\ \A e : Contains(Tail(queue), e) => Contains(queue, e)
          /\ \A e : Contains(queue, e) /\ Head(queue) # e => Contains(Tail(queue), e)
          /\ Contains(queue, "reset")
      BY <1>a, <2>1, TailFacts
    <2>3. since >= RESET_HOLD_TIME
      BY <2>2 DEF HeldInv
    <2>4. ReleaseSeen => ReleaseSeen'
      BY <2>1, <2>2, WorkNames DEF ReleaseSeen
    <2>5. Pending("reset")' => Pending("reset")
      BY <2>1, <2>2 DEF Pending
    <2> QED
      BY <2>1, <2>2, <2>3, <2>4, <2>5 DEF HeldInv
  <1>4. CASE NtpEnd
    <2>1. /\ queue # <<>> /\ Head(queue) = "ntp" /\ queue' = Tail(queue)
          /\ UNCHANGED <<pressed, timer, rebooted, low, since>>
      BY <1>4, <1>b DEF NtpEnd, history
    <2>2. /\ \A e : Contains(Tail(queue), e) => Contains(queue, e)
          /\ \A e : Contains(queue, e) /\ Head(queue) # e => Contains(Tail(queue), e)
      BY <1>a, <2>1, TailFacts
    <2>3. ReleaseSeen => ReleaseSeen'
      BY <2>1, <2>2, WorkNames DEF ReleaseSeen
    <2>4. Pending("reset")' => Pending("reset")
      BY <2>1, <2>2 DEF Pending
    <2> QED
      BY <2>1, <2>2, <2>3, <2>4 DEF HeldInv
  <1>5. CASE NtpSubmit
    <2>1. queue' = Append(queue, "ntp") /\ UNCHANGED <<pressed, timer, rebooted, low, since>>
      BY <1>5 DEF NtpSubmit, history
    <2>2. \A e : Contains(queue', e) <=> Contains(queue, e) \/ e = "ntp"
      BY <1>a, <2>1, WorkNames, AppendFacts
    <2>3. ReleaseSeen => ReleaseSeen'
      BY <2>1, <2>2 DEF ReleaseSeen
    <2>4. /\ Pending("reset")' => Pending("reset")
          /\ Contains(queue', "reset") => Contains(queue, "reset")
      BY <2>1, <2>2, WorkNames DEF Pending
    <2> QED
      BY <2>1, <2>3, <2>4 DEF HeldInv
  <1>6. ASSUME NEW w \in Works, Expire(w)
        PROVE  HeldInv'
    <2>1. /\ timer[w] = 0 /\ timer' = [timer EXCEPT ![w] = Idle] /\ queue' = Append(queue, w)
          /\ UNCHANGED <<pressed, rebooted, low, since>>
      BY <1>6 DEF Expire, history
    <2>2. \A e : Contains(queue', e) <=> Contains(queue, e) \/ e = w
      BY <1>a, <2>1, WorkNames, AppendFacts
    <2>3. timer'[w] = Idle /\ \A v \in Works : v # w => timer'[v] = timer[v]
      BY <1>a, <2>1
    <2>4. ReleaseSeen => ReleaseSeen'
      BY <2>1, <2>2, <2>3, WorkNames DEF ReleaseSeen
    <2>5. Pending("reset")' => Pending("reset")
      BY <2>1, <2>2, <2>3, WorkNames, Constants DEF Pending
    <2>6. Contains(queue', "reset") => since >= RESET_HOLD_TIME
      <3>1. CASE w = "reset"
        <4>1. since >= RESET_HOLD_TIME - 0
          BY <2>1, <3>1, Constants DEF HeldInv
        <4> QED
          BY <4>1, Constants
      <3>2. CASE w # "reset"
        BY <2>2, <3>2 DEF HeldInv
      <3> QED
        BY <3>1, <3>2
    <2>7. timer'["reset"] # Idle => timer'["reset"] = timer["reset"]
      BY <2>3, WorkNames
    <2> QED
      BY <2>1, <2>4, <2>5, <2>6, <2>7 DEF HeldInv
  <1>7. CASE Tick
    <2>1. queue = <<>>
      BY <1>7
    <2>2. /\ \A w \in Works : timer[w] # 0
          /\ timer' = [w \in Works |-> IF timer[w] = Idle THEN Idle ELSE timer[w] - 1]
          /\ UNCHANGED <<pressed, queue, rebooted>> /\ ~rebooted
          /\ low' = IF pressed \/ low > DEBOUNCE_TIME THEN low ELSE low + 1
          /\ since' = IF ~pressed /\ low' > DEBOUNCE_TIME THEN Idle
                      ELSE IF since \in {Idle, Long} THEN since
                      ELSE since + 1
      BY <1>7 DEF Tick
    <2>3. ~Contains(queue, "reset") /\ ~Contains(queue, "button")
      BY <2>1 DEF Contains
    <2>4. \A w \in Works : timer'[w] = IF timer[w] = Idle THEN Idle ELSE timer[w] - 1
      BY <2>2
    <2>5. pressed => since' >= 0
      BY <1>a, <2>2, Constants DEF HeldInv
    <2>6. ASSUME timer'["reset"] # Idle
          PROVE  /\ since' >= 0 /\ since' >= RESET_HOLD_TIME - timer'["reset"]
                 /\ ~pressed => low' <= DEBOUNCE_TIME /\ ReleaseSeen'
      <3>1. /\ timer["reset"] # Idle /\ timer'["reset"] = timer["reset"] - 1
            /\ timer["reset"] \in Int /\ Pending("reset")
        BY <1>a, <2>4, <2>6, WorkNames, Constants DEF Pending
      <3>2. since >= 0 /\ since >= RESET_HOLD_TIME - timer["reset"]
        BY <3>1 DEF HeldInv
      <3>3. ASSUME ~pressed
            PROVE  low' <= DEBOUNCE_TIME /\ ReleaseSeen'
        <4>1. timer["button"] # Idle /\ timer["button"] + low <= DEBOUNCE_TIME
          BY <2>3, <3>1, <3>3 DEF HeldInv, ReleaseSeen
        <4>2. timer["button"] >= 1 /\ timer'["button"] = timer["button"] - 1
          BY <1>a, <2>2, <2>4, <4>1, WorkNames, Constants
        <4>3. low + 1 <= DEBOUNCE_TIME /\ low' = low + 1
          BY <1>a, <2>2, <3>3, <4>1, <4>2, Constants
        <4>4. timer'["button"] # Idle /\ timer'["button"] + low' <= DEBOUNCE_TIME
          BY <1>a, <4>1, <4>2, <4>3, Constants
        <4> QED
          BY <4>3, <4>4 DEF ReleaseSeen
      <3>4. since' = IF since = Long THEN since ELSE since + 1
        BY <1>a, <2>2, <3>2, <3>3, Constants DEF TypeInv
      <3>5. since' >= 0 /\ since' >= RESET_HOLD_TIME - timer'["reset"]
        BY <1>a, <3>1, <3>2, <3>4, Constants
      <3> QED
        BY <3>3, <3>5
    <2>7. Pending("reset")' => timer'["reset"] # Idle
      BY <2>2, <2>3 DEF Pending
    <2>8. ~Contains(queue', "reset") /\ ~rebooted'
      BY <2>2, <2>3
    <2> QED
      BY <2>2, <2>5, <2>6, <2>7, <2>8 DEF HeldInv
  <1>8. CASE UNCHANGED vars
    BY <1>8 DEF vars, HeldInv, Pending, ReleaseSeen
  <1> QED
    BY <1>1, <1>2, <1>3, <1>4, <1>5, <1>6, <1>7, <1>8 DEF Next, Kernel

\* As long as the work queue has always been served in time, the BMC clears its
\* configuration and reboots only after the button was held for the hold time,
\* releases no longer than the debounce time not counting ("Hold button for 1s to
\* clear config and reset", button.c:59), for every debounce and hold time and
\* however the contact bounces: a release restarts no timer that is running, but
\* button_work sees it before it counts, and cancels the reset (button.c:50-61).
THEOREM HeldSafe == Spec => []ClearedOnlyIfHeldInTime
  <1>1. Init => TypeInv /\ QueueInv /\ FlagInv /\ InTime
    <2> SUFFICES ASSUME Init PROVE TypeInv /\ QueueInv /\ FlagInv /\ InTime
      OBVIOUS
    <2>1. TypeInv
      <3>1. timer["button"] = Idle /\ timer["reset"] = Idle /\ timer \in [Works -> Int]
        BY WorkNames, Constants DEF Init
      <3>2. queue \in Seq(Items)
        BY DEF Init
      <3> QED
        BY <3>1, <3>2, Constants DEF Init, TypeInv
    <2>2. \A e : ~Contains(queue, e) /\ Once(queue, e)
      BY DEF Init, Contains, Once
    <2>3. QueueInv /\ FlagInv
      BY <2>2 DEF Init, QueueInv, FlagInv
    <2>4. InTime
      BY <2>2, WorkNames DEF Init, InTime, HeldInv, Pending
    <2> QED
      BY <2>1, <2>3, <2>4
  <1>2. TypeInv /\ QueueInv /\ FlagInv /\ InTime /\ [Next]_vars => InTime'
    BY StalledStays, HeldStep DEF InTime
  <1>3. InTime => ClearedOnlyIfHeldInTime
    BY DEF InTime, HeldInv, ClearedOnlyIfHeldInTime, ClearedOnlyIfHeld
  <1> QED
    BY <1>1, <1>2, <1>3, TypeStep, FlagStep, PTL DEF Spec

=============================================================================
