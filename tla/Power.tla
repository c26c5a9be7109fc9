------------------------------- MODULE Power --------------------------------
(***************************************************************************)
(* Host power and reset (src/power.c).  power_on and power_off drive the   *)
(* power pins one after the other and then set system_power_state, which   *)
(* Redfish reports.  The main thread (power_init), the shell and the HTTP  *)
(* thread call them without a lock, and the shell does not wait for the    *)
(* boot to finish.  A GPIO operation may fail.  Boot.tla has the rest of   *)
(* the boot, and the reboots.                                              *)
(***************************************************************************)
EXTENDS Integers

CONSTANTS NPins,         \* ARRAY_SIZE(power_gpios)
          Callers,       \* threads that give power commands
          Shell,         \* the callers that may do so during the boot
          MaxErrors,     \* bound: failures
          MaxCommands    \* bound: commands

ASSUME PowerAssumption ==
    /\ NPins \in Nat
    /\ Shell \subseteq Callers /\ "main" \notin Callers
    /\ MaxErrors \in Nat /\ MaxCommands \in Nat

Pins == 1..NPins
Threads == Callers \cup {"main"}

VARIABLES has_reset,            \* does the board have a reset GPIO?
          auto_poweron,         \* config_host_auto_poweron()
          pin, configured,      \* the power pins: level, set up as outputs
          reset, reset_output,  \* the reset pin: host held in reset, set up as output
          system_power_state,
          op, at,               \* of each thread: its command and how far it is
          boot,                 \* the main thread's progress
          http_server,          \* is the HTTP server running?
          touched, overlapped, early,  \* since the BMC started: was a command given, did
                                       \* one start while another was running, or before
                                       \* the pins were set up?
          errors, commands

board == <<has_reset, auto_poweron, http_server>>
resetVars == <<reset, reset_output>>
history == <<touched, overlapped, early>>
powerVars == <<board, pin, configured, resetVars, system_power_state, op, at, boot, history,
               errors, commands>>

AllLow == [i \in Pins |-> FALSE]
AllIdle == [t \in Threads |-> "idle"]
AllFirst == [t \in Threads |-> 1]

PowerInit ==
    /\ has_reset \in BOOLEAN /\ auto_poweron = FALSE /\ http_server = FALSE
    /\ pin = AllLow /\ configured = AllLow
    /\ reset = FALSE /\ reset_output = FALSE /\ system_power_state = FALSE
    /\ op = AllIdle /\ at = AllFirst
    /\ touched = FALSE /\ overlapped = FALSE /\ early = FALSE
    /\ errors = 0 /\ commands = 0

\* The RAM and the pins after a reset of the BMC; the pins are inputs again.
PowerReset ==
    /\ auto_poweron' = FALSE /\ http_server' = FALSE /\ UNCHANGED has_reset
    /\ pin' = AllLow /\ configured' = AllLow
    /\ reset' = FALSE /\ reset_output' = FALSE /\ system_power_state' = FALSE
    /\ op' = AllIdle /\ at' = AllFirst
    /\ touched' = FALSE /\ overlapped' = FALSE /\ early' = FALSE

MayFail == errors < MaxErrors
Fail == errors' = errors + 1

\* gpio_pin_set_dt on a pin that is not an output yet does not drive it.
Drive(i, on) == pin' = [pin EXCEPT ![i] = IF configured[i] THEN on ELSE @]

Done(t) == op' = [op EXCEPT ![t] = "idle"] /\ at' = [at EXCEPT ![t] = 1]

-----------------------------------------------------------------------------
(* power_on and power_off, in any thread; the caller ignores a failure.    *)

\* Mutation of SetPin: power_off sets the pins too.
SetPinOn(t) ==
    /\ op[t] \in {"on", "off"} /\ at[t] <= NPins
    /\ Drive(at[t], TRUE)
    /\ at' = [at EXCEPT ![t] = @ + 1]
    /\ UNCHANGED <<board, configured, resetVars, system_power_state, op, boot, history, errors, commands>>

SetPin(t) ==
    /\ op[t] \in {"on", "off"} /\ at[t] <= NPins
    /\ Drive(at[t], op[t] = "on")
    /\ at' = [at EXCEPT ![t] = @ + 1]
    /\ UNCHANGED <<board, configured, resetVars, system_power_state, op, boot, history, errors, commands>>

\* The pins set so far stay as they are and the state is not changed.  In
\* power_init the failure ends the boot.
SetPinError(t) ==
    /\ op[t] \in {"on", "off"} /\ at[t] <= NPins
    /\ MayFail /\ Fail
    /\ Done(t)
    /\ boot' = IF t = "main" THEN "failed" ELSE boot
    /\ UNCHANGED <<board, pin, configured, resetVars, system_power_state, history, commands>>

SetState(t) ==
    /\ op[t] \in {"on", "off"} /\ at[t] > NPins
    /\ system_power_state' = (op[t] = "on")
    /\ Done(t)
    /\ boot' = IF t = "main" THEN "reset_init" ELSE boot
    /\ UNCHANGED <<board, pin, configured, resetVars, history, errors, commands>>

-----------------------------------------------------------------------------
(* The boot: power_init, then reset_init.                                  *)

ConfigurePin ==
    /\ op["main"] = "configure" /\ at["main"] <= NPins
    /\ configured' = [configured EXCEPT ![at["main"]] = TRUE]
    /\ pin' = [pin EXCEPT ![at["main"]] = FALSE]
    /\ at' = [at EXCEPT !["main"] = @ + 1]
    /\ UNCHANGED <<board, resetVars, system_power_state, op, boot, history, errors, commands>>

ConfigureError ==
    /\ op["main"] = "configure" /\ at["main"] <= NPins
    /\ MayFail /\ Fail
    /\ Done("main") /\ boot' = "failed"
    /\ UNCHANGED <<board, pin, configured, resetVars, system_power_state, history, commands>>

AutoPower ==
    /\ op["main"] = "configure" /\ at["main"] > NPins
    /\ IF auto_poweron
       THEN op' = [op EXCEPT !["main"] = "on"] /\ at' = [at EXCEPT !["main"] = 1] /\ UNCHANGED boot
       ELSE Done("main") /\ boot' = "reset_init"
    /\ UNCHANGED <<board, pin, configured, resetVars, system_power_state, history, errors, commands>>

\* The reset pin is configured active and released after that.
ResetStep(to) ==
    /\ boot' = to
    /\ UNCHANGED <<board, pin, configured, system_power_state, op, at, history, commands>>

reset_init ==
    \/ /\ boot = "reset_init" /\ ~has_reset
       /\ ResetStep("led")
       /\ UNCHANGED <<resetVars, errors>>
    \/ /\ boot = "reset_init" /\ has_reset
       /\ reset_output' = TRUE /\ reset' = TRUE
       /\ ResetStep("reset_release")
       /\ UNCHANGED errors
    \/ /\ boot = "reset_release"
       /\ reset' = FALSE
       /\ ResetStep("led")
       /\ UNCHANGED <<reset_output, errors>>
    \/ /\ boot \in {"reset_init", "reset_release"} /\ has_reset
       /\ MayFail /\ Fail
       /\ ResetStep("failed")
       /\ UNCHANGED resetVars

-----------------------------------------------------------------------------
(* Commands: power on, power off and reset of the shell, and the Redfish   *)
(* reset types On, ForceOff and PowerCycle.                                *)

Command(t, what) ==
    /\ op[t] = "idle" /\ commands < MaxCommands
    /\ op' = [op EXCEPT ![t] = what]
    /\ commands' = commands + 1
    /\ touched' = TRUE
    /\ overlapped' = (overlapped \/ \E u \in Threads \ {t} : op[u] # "idle")
    /\ early' = (early \/ \E i \in Pins : ~configured[i])
    /\ UNCHANGED <<board, pin, configured, resetVars, system_power_state, at, boot, errors>>

\* The shell is there before main runs.
cmd_power(t, what) == t \in Shell /\ Command(t, what)

system_reset_post_handler(t, what) == t \notin Shell /\ http_server /\ Command(t, what)

\* power_reset holds the reset pin for a second.
Assert(t) ==
    /\ op[t] = "reset" /\ at[t] = 1
    /\ \/ ~has_reset /\ Done(t) /\ UNCHANGED <<reset, errors>>
       \/ /\ has_reset /\ reset' = (reset \/ reset_output)
          /\ at' = [at EXCEPT ![t] = 2] /\ UNCHANGED <<op, errors>>
       \/ has_reset /\ MayFail /\ Fail /\ Done(t) /\ UNCHANGED reset
    /\ UNCHANGED <<board, pin, configured, reset_output, system_power_state, boot, history, commands>>

\* Mutation of Release: the reset pin is left asserted.
ReleaseForgotten(t) ==
    /\ op[t] = "reset" /\ at[t] = 2
    /\ Done(t)
    /\ UNCHANGED <<board, pin, configured, resetVars, system_power_state, boot, history, errors, commands>>

Release(t) ==
    /\ op[t] = "reset" /\ at[t] = 2
    /\ Done(t)
    /\ \/ reset' = FALSE /\ UNCHANGED errors
       \/ MayFail /\ Fail /\ UNCHANGED reset
    /\ UNCHANGED <<board, pin, configured, reset_output, system_power_state, boot, history, commands>>

power_reset(t) == Assert(t) \/ Release(t)
Step(t) == SetPin(t) \/ SetPinError(t) \/ SetState(t) \/ power_reset(t)
PowerBoot == ConfigurePin \/ ConfigureError \/ AutoPower \/ reset_init

PowerNext ==
    \/ PowerBoot
    \/ \E t \in Threads : Step(t)
    \/ \E t \in Callers, what \in {"on", "off", "reset"} :
          cmd_power(t, what) \/ system_reset_post_handler(t, what)

-----------------------------------------------------------------------------
(* Properties.                                                             *)

\* Pins and system_power_state are levels, and a thread is at a pin of the board
\* or just past the last one, or in the second half of a reset pulse.
PowerTypeOK ==
    /\ pin \in [Pins -> BOOLEAN] /\ configured \in [Pins -> BOOLEAN]
    /\ {has_reset, auto_poweron, http_server, reset, reset_output} \subseteq BOOLEAN
    /\ {system_power_state, touched, overlapped, early} \subseteq BOOLEAN
    /\ op \in [Threads -> {"idle", "configure", "on", "off", "reset", "reboot"}]
    /\ at \in [Threads -> 1..(NPins + 1) \cup {2}]
    /\ errors \in 0..MaxErrors /\ commands \in 0..MaxCommands

\* The pins are set up and no command is running.
Quiet == (\A i \in Pins : configured[i]) /\ op = AllIdle

\* What Redfish reports as PowerState is what every power pin says, once no
\* command is running (power_get_state, power.c:35-72).
ReportedStateIsTrue ==
    Quiet => \A i \in Pins : pin[i] = system_power_state

\* The same, if nothing failed and every command was given after the power pins
\* had been set up.
StateIsTrueAfterBoot == errors = 0 /\ ~early => ReportedStateIsTrue

\* The same, if also no two commands overlapped: power_on and power_off are right
\* one at a time, whatever resets, reboots and automatic power-on come between.
SequentialStateIsTrue == ~overlapped => StateIsTrueAfterBoot

\* The host is not held in reset for ever: an overlapping reset may end a pulse
\* early but none is left standing, unless something failed.
ResetEnds == reset ~> (~reset \/ errors > 0)

=============================================================================
