------------------------------- MODULE Button -------------------------------
(***************************************************************************)
(* The reset button (src/button.c): an edge interrupt schedules            *)
(* button_work, which after the debounce time reads the pin and schedules  *)
(* or cancels reset_work, which after the hold time reads the pin again,   *)
(* clears the configuration and reboots.                                   *)
(*                                                                         *)
(* Both work items run on the system work queue, and so does the NTP       *)
(* synchronisation (src/ntp.c), which occupies it while it waits for a     *)
(* server.  Time is counted in ticks.  k_work_schedule and                 *)
(* k_work_cancel_delayable belong to the kernel: scheduling an item that   *)
(* is waiting for its time or for the queue changes nothing.               *)
(***************************************************************************)
EXTENDS Integers, SequencesExt

CONSTANTS DEBOUNCE_TIME,   \* DEBOUNCE_TIME_MS, in ticks
          RESET_HOLD_TIME, \* RESET_HOLD_TIME_MS, in ticks
          MaxErrors        \* bound: failures of config_clear

ASSUME ButtonAssumption ==
    /\ DEBOUNCE_TIME \in Nat \ {0} /\ RESET_HOLD_TIME \in Nat \ {0}
    /\ MaxErrors \in Nat

Works == {"button", "reset"}
Idle == -1
\* A press counts as held from here on; the history need not tell more apart.
Long == DEBOUNCE_TIME + RESET_HOLD_TIME

VARIABLES pressed,     \* the pin
          timer,       \* of each work item: ticks left, or Idle
          queue,       \* the items submitted to the work queue
          rebooted, errors,
          low, since,  \* history: how long released; how long held, but for bounces
          stalled      \* history: did time pass while NTP had the queue?

vars == <<pressed, timer, queue, rebooted, errors, low, since, stalled>>
history == <<low, since, stalled>>

\* button_init arms the interrupt and does not read the pin: the button may have
\* been held since before.
Init ==
    /\ pressed \in BOOLEAN
    /\ timer = [w \in Works |-> Idle] /\ queue = <<>>
    /\ rebooted = FALSE /\ errors = 0
    /\ low = 0 /\ since = (IF pressed THEN 0 ELSE Idle) /\ stalled = FALSE

Pending(w) == timer[w] # Idle \/ Contains(queue, w)

k_work_schedule(w, ticks) ==
    timer' = IF Pending(w) THEN timer ELSE [timer EXCEPT ![w] = ticks]

-----------------------------------------------------------------------------
\* Mutation of button_pressed: only the release raises the interrupt.
ReleaseEdgeOnly ==
    /\ ~rebooted
    /\ pressed' = ~pressed
    /\ IF pressed THEN k_work_schedule("button", DEBOUNCE_TIME) ELSE UNCHANGED timer
    /\ low' = 0
    /\ since' = IF since = Idle THEN 0 ELSE since
    /\ UNCHANGED <<queue, rebooted, errors, stalled>>

\* Either edge of the pin raises the interrupt.
button_pressed ==
    /\ ~rebooted
    /\ pressed' = ~pressed
    /\ k_work_schedule("button", DEBOUNCE_TIME)
    /\ low' = 0
    /\ since' = IF since = Idle THEN 0 ELSE since
    /\ UNCHANGED <<queue, rebooted, errors, stalled>>

Running(w) ==
    ~rebooted /\ queue # <<>> /\ Head(queue) = w

\* Mutation of button_work_fn: a release does not cancel the reset.
ReleaseIgnored ==
    /\ Running("button")
    /\ IF pressed THEN k_work_schedule("reset", RESET_HOLD_TIME) ELSE UNCHANGED timer
    /\ queue' = Tail(queue)
    /\ UNCHANGED <<pressed, rebooted, errors, history>>

button_work_fn ==
    /\ Running("button")
    /\ \/ /\ pressed
          /\ k_work_schedule("reset", RESET_HOLD_TIME)
          /\ queue' = Tail(queue)
       \/ /\ ~pressed
          /\ timer' = [timer EXCEPT !["reset"] = Idle]
          /\ queue' = RemoveFirst(Tail(queue), "reset")
    /\ UNCHANGED <<pressed, rebooted, errors, history>>

\* A failure to clear the configuration ends it; nothing tries again.
reset_work_fn ==
    /\ Running("reset")
    /\ queue' = Tail(queue)
    /\ \/ ~pressed /\ UNCHANGED <<rebooted, errors>>
       \/ pressed /\ rebooted' = TRUE /\ UNCHANGED errors
       \/ pressed /\ errors < MaxErrors /\ errors' = errors + 1 /\ UNCHANGED rebooted
    /\ UNCHANGED <<pressed, timer, history>>

-----------------------------------------------------------------------------
(* The kernel: timers, the queue, and the other user of the queue.         *)

Expire(w) ==
    /\ ~rebooted /\ timer[w] = 0
    /\ timer' = [timer EXCEPT ![w] = Idle]
    /\ queue' = Append(queue, w)
    /\ UNCHANGED <<pressed, rebooted, errors, history>>

\* ntp_sync_work becomes due now and then; its handler occupies the queue.
NtpSubmit ==
    /\ ~rebooted /\ ~Contains(queue, "ntp")
    /\ queue' = Append(queue, "ntp")
    /\ UNCHANGED <<pressed, timer, rebooted, errors, history>>

NtpEnd ==
    /\ Running("ntp")
    /\ queue' = Tail(queue)
    /\ UNCHANGED <<pressed, timer, rebooted, errors, history>>

\* Submitted work runs within a tick, unless the NTP handler has the queue.
Tick ==
    /\ ~rebooted
    /\ \A w \in Works : timer[w] # 0
    /\ queue = <<>> \/ Running("ntp")
    /\ timer' = [w \in Works |-> IF timer[w] = Idle THEN Idle ELSE timer[w] - 1]
    /\ low' = IF pressed \/ low > DEBOUNCE_TIME THEN low ELSE low + 1
    /\ since' = IF ~pressed /\ low' > DEBOUNCE_TIME THEN Idle
                ELSE IF since \in {Idle, Long} THEN since
                ELSE since + 1
    /\ stalled' = (stalled \/ queue # <<>>)
    /\ UNCHANGED <<pressed, queue, rebooted, errors>>

Kernel == Tick \/ NtpEnd \/ \E w \in Works : Expire(w)

Next == button_pressed \/ button_work_fn \/ reset_work_fn \/ NtpSubmit \/ Kernel

\* Time passes, the queue is served, and an NTP request ends (it times out).
Spec ==
    /\ Init /\ [][Next]_vars
    /\ WF_vars(button_work_fn) /\ WF_vars(reset_work_fn) /\ WF_vars(NtpEnd)
    /\ WF_vars(Tick) /\ \A w \in Works : WF_vars(Expire(w))

-----------------------------------------------------------------------------
(* Properties.                                                             *)

\* "Hold button for 1s to clear config and reset" (button.c:59): the BMC clears
\* its configuration and reboots only after the button was held for the hold
\* time, releases no longer than the debounce time not counting.
ClearedOnlyIfHeld == rebooted => since >= RESET_HOLD_TIME

\* The same as long as the work queue has always been served in time: then every
\* release that lasts is seen before the reset is due, bounces or not.
ClearedOnlyIfHeldInTime == ~stalled => ClearedOnlyIfHeld

\* A button that is pressed after button_init and stays pressed has its effect,
\* whatever bounces and cancelled presses came before and however often NTP has the
\* work queue, unless clearing the configuration fails (button.c:27-71).
HeldClears == <>~pressed /\ <>[]pressed => <>(rebooted \/ errors > 0)

-----------------------------------------------------------------------------
(* What the code does not give; README.md says how each one fails.         *)

\* The same for a button held from the start ("Hold button for 1s to clear config
\* and reset", button.c:59).
HeldFromStartClears == <>[]pressed => <>(rebooted \/ errors > 0)

=============================================================================
