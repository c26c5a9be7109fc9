-------------------------------- MODULE Boot --------------------------------
(***************************************************************************)
(* The BMC from reset to reset (src/main.c): main calls the components'    *)
(* initialisation functions one after the other and gives up at the first  *)
(* that fails, except that it goes on without the file system or the       *)
(* button.  What an earlier stage started keeps running while main goes    *)
(* on, and also when main gives up.  bmc_reboot starts all over, in the    *)
(* middle of whatever the other threads are doing.  Power and reset        *)
(* (Power.tla) and the JTAG daemon (Jtag.tla) are the components of which  *)
(* more than "started or not" is kept here; the configuration is reduced   *)
(* to the one setting that power_init reads, the restore policy.           *)
(***************************************************************************)
EXTENDS Power, Jtag

CONSTANT MaxReboots   \* bound: reboots; MaxCommands is one of the two together

ASSUME BootAssumption == MaxReboots \in Nat

VARIABLES storage,       \* is the file system mounted?
          button,        \* does the button work?
          saved,         \* the setting auto_poweron in the flash
          saving,        \* threads that have set it in RAM and not yet in the flash
          asked,         \* its value when a call to set it last returned 0, as far as
                         \* such an answer counts
          policy,        \* that value when the BMC started
          rebooting,     \* has bmc_reboot been called?
          reboots

bootVars == <<storage, button, saved, saving, asked, policy, rebooting, reboots>>
vars == <<powerVars, jtagVars, bootVars>>

\* The stages of main after each of which the next one follows; power_init and
\* reset_init, between "net" and "led", are Power's.
After == [rtc |-> "vpd", vpd |-> "fs", fs |-> "config", config |-> "button",
          button |-> "net", net |-> "power_init", led |-> "jtag", jtag |-> "http",
          http |-> "logger", logger |-> "bridge", bridge |-> "ws", ws |-> "finished"]

Init ==
    /\ PowerInit /\ JtagInit /\ boot = "rtc"
    /\ storage = FALSE /\ button = FALSE /\ rebooting = FALSE /\ reboots = 0
    /\ saved \in BOOLEAN /\ saving = {} /\ asked = saved /\ policy = saved

-----------------------------------------------------------------------------
(* main                                                                    *)

\* An initialisation function returns 0.
StageDone ==
    /\ boot \in DOMAIN After
    /\ boot' = After[boot]
    /\ storage' = (storage \/ boot = "fs")
    /\ button' = (button \/ boot = "button")
    /\ auto_poweron' = IF boot = "config" THEN storage /\ saved ELSE auto_poweron
    /\ op' = IF boot = "net" THEN [op EXCEPT !["main"] = "configure"] ELSE op
    /\ http_server' = (http_server \/ boot = "http")
    /\ IF boot = "jtag" THEN jtag_init ELSE UNCHANGED jtagVars
    /\ UNCHANGED <<has_reset, pin, configured, resetVars, system_power_state, at, history,
                   errors, commands, saved, saving, asked, policy, rebooting, reboots>>

\* It returns an error.
StageFails ==
    /\ boot \in DOMAIN After
    /\ MayFail /\ Fail
    /\ boot' = IF boot \in {"fs", "button"} THEN After[boot] ELSE "failed"
    /\ UNCHANGED <<board, pin, configured, resetVars, system_power_state, op, at, history,
                   commands, jtagVars, bootVars>>

-----------------------------------------------------------------------------
(* The restore policy, and reboots.                                        *)

\* The shell waits for the boot to finish, Redfish only for the HTTP server.
MaySet(t) ==
    op[t] = "idle" /\ t \notin saving /\ (IF t \in Shell THEN boot = "finished" ELSE http_server)

\* What the setter leaves alone.
settingOnly == <<has_reset, http_server, pin, configured, resetVars, system_power_state,
                 op, at, boot, history, errors, commands, jtagVars, storage, button,
                 policy, rebooting, reboots>>

\* A value that RAM has already is not written: return 0.  That answer counts if the
\* file system is open and no other call is between RAM and flash.  Otherwise RAM
\* is changed first.
config_host_auto_poweron_set(t, on) ==
    /\ MaySet(t)
    /\ \/ /\ auto_poweron = on
          /\ asked' = IF storage /\ saving = {} THEN on ELSE asked
          /\ UNCHANGED <<auto_poweron, saving>>
       \/ /\ auto_poweron # on
          /\ auto_poweron' = on /\ saving' = saving \cup {t}
          /\ UNCHANGED asked
    /\ UNCHANGED <<saved, settingOnly>>

\* Mutation of SavePolicy: the new value stays in RAM.
PolicyNotSaved(t) ==
    /\ t \in saving /\ saving' = saving \ {t}
    /\ asked' = IF storage THEN auto_poweron ELSE asked
    /\ UNCHANGED <<auto_poweron, saved, settingOnly>>

\* Then what is in RAM now is written.  Without the file system the setter returns an
\* error and the RAM stays changed.
SavePolicy(t) ==
    /\ t \in saving /\ saving' = saving \ {t}
    /\ IF storage THEN saved' = auto_poweron /\ asked' = auto_poweron
       ELSE UNCHANGED <<saved, asked>>
    /\ UNCHANGED <<auto_poweron, settingOnly>>

\* bmc_reboot: the file system is closed at once, the reset comes after 100 ms.
bmc_reboot ==
    /\ ~rebooting /\ reboots < MaxReboots
    /\ commands + reboots < MaxCommands
    /\ rebooting' = TRUE /\ storage' = FALSE /\ reboots' = reboots + 1
    /\ UNCHANGED <<board, pin, configured, resetVars, system_power_state, at, boot, history,
                   errors, commands, jtagVars, button, saving, policy>>

\* The shell's reboot may come at any time.
cmd_bmc_reboot(t) ==
    /\ t \in Shell /\ op[t] = "idle" /\ t \notin saving
    /\ bmc_reboot
    /\ op' = [op EXCEPT ![t] = "reboot"]
    /\ UNCHANGED <<saved, asked>>

\* It waits for the end of the boot, and reboots if the flash could be cleared.
cmd_config_clear(t) ==
    /\ t \in Shell /\ op[t] = "idle" /\ t \notin saving /\ boot = "finished" /\ storage
    /\ bmc_reboot
    /\ op' = [op EXCEPT ![t] = "reboot"]
    /\ saved' = FALSE /\ asked' = FALSE

\* The button clears the configuration first.
reset_work_fn ==
    /\ button /\ storage
    /\ bmc_reboot
    /\ saved' = FALSE /\ asked' = FALSE
    /\ UNCHANGED op

sys_reboot ==
    /\ rebooting
    /\ PowerReset /\ JtagReset
    /\ boot' = "rtc" /\ storage' = FALSE /\ button' = FALSE /\ rebooting' = FALSE
    /\ saving' = {} /\ policy' = asked
    /\ UNCHANGED <<errors, commands, saved, asked, reboots>>

-----------------------------------------------------------------------------
Main == StageDone \/ StageFails \/ (PowerBoot /\ UNCHANGED <<jtagVars, bootVars>>)

Run(t) == Step(t) /\ UNCHANGED <<jtagVars, bootVars>>

\* A bound: power commands and JTAG clients, which share nothing but the boot, are
\* not in the same behaviour, and a reboot takes the place of a command.
Bounded == commands + reboots <= MaxCommands /\ (commands = 0 \/ clients = 0)

Next ==
    \/ Main \/ sys_reboot \/ reset_work_fn
    \/ \E t \in Threads : Run(t)
    \/ \E t \in Callers :
          \/ \E on \in BOOLEAN : config_host_auto_poweron_set(t, on)
          \/ SavePolicy(t) \/ cmd_bmc_reboot(t) \/ cmd_config_clear(t)
          \/ \E what \in {"on", "off", "reset"} :
                /\ cmd_power(t, what) \/ system_reset_post_handler(t, what)
                /\ t \notin saving
                /\ UNCHANGED <<jtagVars, bootVars>> /\ Bounded'
    \/ JtagNext /\ UNCHANGED <<powerVars, bootVars>> /\ Bounded'

\* main and the threads with a command run on; nobody has to give commands.
Spec ==
    /\ Init /\ [][Next]_vars
    /\ WF_vars(Main) /\ WF_vars(sys_reboot)
    /\ \A t \in Threads : WF_vars(Run(t))

-----------------------------------------------------------------------------
(* Properties.                                                             *)

\* If nothing failed and nobody has given a power command since the BMC started, the
\* host is on if and only if the policy is to power it on that was set when the last
\* call before that returned 0, with the file system open and no other call between
\* RAM and flash: whatever calls a reboot cut short or refused, and in whatever order
\* two threads changed RAM and flash (power.c:107-110, config.c:641-661, main.c:65-85).
RestorePolicyHolds ==
    Quiet /\ errors = 0 /\ ~touched => \A i \in Pins : pin[i] = policy

-----------------------------------------------------------------------------
(* What the code does not give; README.md says how each one fails.         *)

\* Whenever the setter would find its value in RAM and return 0, the flash has it
\* (config.c:645-651).
PolicyInRamIsSaved ==
    boot = "finished" /\ errors = 0 /\ saving = {} => auto_poweron = saved

=============================================================================
