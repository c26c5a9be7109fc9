----------------------------- MODULE BootProofs -----------------------------
(***************************************************************************)
(* Proofs about the BMC from reset to reset (Boot): the reported power     *)
(* state, the restore policy and the JTAG lines, for any number of power   *)
(* pins, callers, commands, JTAG clients and reboots.                      *)
(***************************************************************************)
EXTENDS Boot, TLAPS

-----------------------------------------------------------------------------
(* The steps of the system, and where main is when they are taken.         *)

Others == UNCHANGED <<jtagVars, bootVars>>

\* Every step is one of these.
LEMMA Steps ==
    ASSUME [Next]_vars
    PROVE  \/ StageDone \/ StageFails
           \/ (ConfigurePin \/ ConfigureError \/ AutoPower \/ reset_init) /\ Others
           \/ \E t \in Threads : /\ \/ SetPin(t) \/ SetPinError(t) \/ SetState(t)
                                    \/ Assert(t) \/ Release(t)
                                 /\ Others
           \/ \E t \in Callers, on \in BOOLEAN :
                 config_host_auto_poweron_set(t, on) \/ SavePolicy(t)
           \/ \E t \in Callers : cmd_bmc_reboot(t) \/ cmd_config_clear(t)
           \/ \E t \in Callers, what \in {"on", "off", "reset"} : Command(t, what) /\ Others
           \/ reset_work_fn \/ sys_reboot
           \/ JtagNext /\ UNCHANGED <<powerVars, bootVars>>
           \/ UNCHANGED vars
  BY DEF Next, Main, PowerBoot, Run, Step, power_reset, cmd_power,
         system_reset_post_handler, Others

BeforePower == {"rtc", "vpd", "fs", "config", "button", "net"}
BeforeJtag == BeforePower \cup {"power_init", "reset_init", "reset_release", "led", "jtag"}
Stages == BeforeJtag \cup {"http", "logger", "bridge", "ws", "finished", "failed"}

\* The pins, the progress of each thread, the counters, and the flags.
TypeInv ==
    /\ pin \in [Pins -> BOOLEAN] /\ configured \in [Pins -> BOOLEAN]
    /\ op \in [Threads -> {"idle", "configure", "on", "off", "reset", "reboot"}]
    /\ at \in [Threads -> 1..(NPins + 1) \cup {2}]
    /\ errors \in 0..MaxErrors /\ commands \in 0..MaxCommands

FlagsInv ==
    /\ has_reset \in BOOLEAN /\ auto_poweron \in BOOLEAN /\ http_server \in BOOLEAN
    /\ reset \in BOOLEAN /\ reset_output \in BOOLEAN /\ system_power_state \in BOOLEAN
    /\ touched \in BOOLEAN /\ overlapped \in BOOLEAN /\ early \in BOOLEAN
    /\ saved \in BOOLEAN /\ asked \in BOOLEAN /\ policy \in BOOLEAN
    /\ storage \in BOOLEAN /\ button \in BOOLEAN /\ rebooting \in BOOLEAN

\* main runs power_init, and nothing else, in the stage of that name; only main sets
\* up pins; and what a later stage starts is not there before it.
StageInv ==
    /\ boot \in Stages
    /\ op["main"] \in {"idle", "configure", "on"}
    /\ boot = "power_init" <=> op["main"] # "idle"
    /\ \A t \in Callers : op[t] # "configure"
    /\ \A t \in Threads : op[t] \in {"idle", "reboot"} => at[t] = 1
    /\ boot \in BeforePower => configured = AllLow
    /\ boot \in BeforeJtag => daemon = "off"

\* The strengthening of the type invariant that holds through every boot and reboot.
LEMMA StagesInductive == Spec => [](TypeInv /\ FlagsInv /\ StageInv)
  <1> USE PowerAssumption
  <1>1. Init => TypeInv /\ FlagsInv /\ StageInv
    <2> SUFFICES ASSUME Init PROVE TypeInv /\ FlagsInv /\ StageInv
      OBVIOUS
    <2>1. TypeInv
      BY DEF Init, PowerInit, TypeInv, AllLow, AllIdle, AllFirst
    <2>2. FlagsInv
      BY DEF Init, PowerInit, FlagsInv
    <2>3. StageInv
      BY DEF Init, PowerInit, JtagInit, StageInv, AllIdle, AllFirst,
             Threads, Stages, BeforeJtag, BeforePower
    <2> QED
      BY <2>1, <2>2, <2>3
  <1>2. TypeInv /\ [Next]_vars => TypeInv'
    <2> SUFFICES ASSUME TypeInv, [Next]_vars PROVE TypeInv'
      OBVIOUS
    <2>1. CASE StageDone
      BY <2>1 DEF StageDone, TypeInv, Threads
    <2>2. CASE StageFails
      BY <2>2 DEF StageFails, Fail, MayFail, TypeInv
    <2>3. CASE (ConfigurePin \/ ConfigureError \/ AutoPower \/ reset_init) /\ Others
      <3>1. CASE ConfigurePin
        BY <2>3, <3>1 DEF ConfigurePin, Others, TypeInv, Pins, Threads
      <3>2. CASE ConfigureError
        BY <2>3, <3>2 DEF ConfigureError, Done, Fail, MayFail, Others, TypeInv, Threads
      <3>3. CASE AutoPower
        BY <2>3, <3>3 DEF AutoPower, Done, Others, TypeInv, Threads
      <3>4. CASE reset_init
        BY <2>3, <3>4 DEF reset_init, ResetStep, Fail, MayFail, Others, TypeInv
      <3> QED
        BY <2>3, <3>1, <3>2, <3>3, <3>4
    <2>4. ASSUME NEW t \in Threads, Others,
                 SetPin(t) \/ SetPinError(t) \/ SetState(t) \/ Assert(t) \/ Release(t)
          PROVE  TypeInv'
      <3>1. CASE SetPin(t)
        <4>1. pin' \in [Pins -> BOOLEAN]
          BY <2>4, <3>1 DEF SetPin, Drive, TypeInv
        <4> QED
          BY <2>4, <3>1, <4>1 DEF SetPin, TypeInv
      <3>2. CASE SetPinError(t)
        BY <2>4, <3>2 DEF SetPinError, Done, Fail, MayFail, Others, TypeInv
      <3>3. CASE SetState(t)
        BY <2>4, <3>3 DEF SetState, Done, Others, TypeInv
      <3>4. CASE Assert(t)
        BY <2>4, <3>4 DEF Assert, Done, Fail, MayFail, Others, TypeInv
      <3>5. CASE Release(t)
        BY <2>4, <3>5 DEF Release, Done, Fail, MayFail, Others, TypeInv
      <3> QED
        BY <2>4, <3>1, <3>2, <3>3, <3>4, <3>5
    <2>5. ASSUME NEW t \in Callers, NEW on \in BOOLEAN,
                 config_host_auto_poweron_set(t, on) \/ SavePolicy(t)
          PROVE  TypeInv'
      BY <2>5 DEF config_host_auto_poweron_set, SavePolicy, settingOnly, TypeInv
    <2>6. ASSUME NEW t \in Callers, cmd_bmc_reboot(t) \/ cmd_config_clear(t) PROVE TypeInv'
      BY <2>6 DEF cmd_bmc_reboot, cmd_config_clear, bmc_reboot, TypeInv, Threads
    <2>7. ASSUME NEW t \in Callers, NEW what \in {"on", "off", "reset"}, Command(t, what), Others
          PROVE  TypeInv'
      BY <2>7 DEF Command, Others, TypeInv, Threads
    <2>8. CASE reset_work_fn
      BY <2>8 DEF reset_work_fn, bmc_reboot, TypeInv
    <2>9. CASE sys_reboot
      BY <2>9 DEF sys_reboot, PowerReset, AllLow, AllIdle, AllFirst, TypeInv
    <2>10. CASE JtagNext /\ UNCHANGED <<powerVars, bootVars>>
      BY <2>10 DEF TypeInv, powerVars
    <2>11. CASE UNCHANGED vars
      BY <2>11 DEF TypeInv, vars, powerVars
    <2> QED
      BY <2>1, <2>2, <2>3, <2>4, <2>5, <2>6, <2>7, <2>8, <2>9, <2>10, <2>11, Steps
  <1>3. FlagsInv /\ [Next]_vars => FlagsInv'
    <2> SUFFICES ASSUME FlagsInv, [Next]_vars PROVE FlagsInv'
      OBVIOUS
    <2>1. CASE StageDone
      BY <2>1 DEF StageDone, FlagsInv, history, resetVars, Threads
    <2>2. CASE StageFails
      BY <2>2 DEF StageFails, Fail, MayFail, FlagsInv, history, resetVars, board, bootVars
    <2>3. CASE (ConfigurePin \/ ConfigureError \/ AutoPower \/ reset_init) /\ Others
      <3>1. CASE ConfigurePin
        BY <2>3, <3>1 DEF ConfigurePin, Others, FlagsInv, history, resetVars, board, bootVars, Pins, Threads
      <3>2. CASE ConfigureError
        BY <2>3, <3>2 DEF ConfigureError, Done, Fail, MayFail, Others, FlagsInv, history, resetVars, board, bootVars, Threads
      <3>3. CASE AutoPower
        BY <2>3, <3>3 DEF AutoPower, Done, Others, FlagsInv, history, resetVars, board, bootVars, Threads
      <3>4. CASE reset_init
        <4>1. UNCHANGED <<board, system_power_state, history, bootVars>>
          BY <2>3, <3>4 DEF reset_init, ResetStep, Others
        <4>2. reset' \in BOOLEAN /\ reset_output' \in BOOLEAN
          BY <3>4 DEF reset_init, FlagsInv, resetVars
        <4> QED
          BY <4>1, <4>2 DEF FlagsInv, history, board, bootVars
      <3> QED
        BY <2>3, <3>1, <3>2, <3>3, <3>4
    <2>4. ASSUME NEW t \in Threads, Others,
                 SetPin(t) \/ SetPinError(t) \/ SetState(t) \/ Assert(t) \/ Release(t)
          PROVE  FlagsInv'
      <3>1. CASE SetPin(t)
        BY <2>4, <3>1 DEF SetPin, Drive, Others, FlagsInv, history, resetVars, board, bootVars, Pins
      <3>2. CASE SetPinError(t)
        BY <2>4, <3>2 DEF SetPinError, Done, Fail, MayFail, Others, FlagsInv, history, resetVars, board, bootVars
      <3>3. CASE SetState(t)
        BY <2>4, <3>3 DEF SetState, Done, Others, FlagsInv, history, resetVars, board, bootVars
      <3>4. CASE Assert(t)
        BY <2>4, <3>4 DEF Assert, Done, Fail, MayFail, Others, FlagsInv, history, resetVars, board, bootVars
      <3>5. CASE Release(t)
        <4>1. UNCHANGED <<board, reset_output, system_power_state, history, bootVars>>
          BY <2>4, <3>5 DEF Release, Others
        <4>2. reset' \in BOOLEAN
          BY <3>5 DEF Release, FlagsInv
        <4> QED
          BY <4>1, <4>2 DEF FlagsInv, history, board, bootVars
      <3> QED
        BY <2>4, <3>1, <3>2, <3>3, <3>4, <3>5
    <2>5. ASSUME NEW t \in Callers, NEW on \in BOOLEAN,
                 config_host_auto_poweron_set(t, on) \/ SavePolicy(t)
          PROVE  FlagsInv'
      BY <2>5 DEF config_host_auto_poweron_set, SavePolicy, settingOnly, FlagsInv, history, resetVars
    <2>6. ASSUME NEW t \in Callers, cmd_bmc_reboot(t) \/ cmd_config_clear(t) PROVE FlagsInv'
      <3>1. UNCHANGED <<board, resetVars, system_power_state, history, button, policy>>
        BY <2>6 DEF cmd_bmc_reboot, cmd_config_clear, bmc_reboot
      <3>2. rebooting' = TRUE /\ storage' = FALSE /\ saved' \in BOOLEAN /\ asked' \in BOOLEAN
        BY <2>6 DEF cmd_bmc_reboot, cmd_config_clear, bmc_reboot, FlagsInv
      <3> QED
        BY <3>1, <3>2 DEF FlagsInv, history, resetVars, board
    <2>7. ASSUME NEW t \in Callers, NEW what \in {"on", "off", "reset"}, Command(t, what), Others
          PROVE  FlagsInv'
      BY <2>7 DEF Command, Others, FlagsInv, history, resetVars, board, bootVars, Threads
    <2>8. CASE reset_work_fn
      BY <2>8 DEF reset_work_fn, bmc_reboot, FlagsInv, history, resetVars, board
    <2>9. CASE sys_reboot
      BY <2>9 DEF sys_reboot, PowerReset, AllLow, AllIdle, AllFirst, FlagsInv
    <2>10. CASE JtagNext /\ UNCHANGED <<powerVars, bootVars>>
      BY <2>10 DEF FlagsInv, powerVars, history, resetVars, board, bootVars
    <2>11. CASE UNCHANGED vars
      BY <2>11 DEF FlagsInv, vars, powerVars, history, resetVars, board, bootVars
    <2> QED
      BY <2>1, <2>2, <2>3, <2>4, <2>5, <2>6, <2>7, <2>8, <2>9, <2>10, <2>11, Steps
  <1>4. TypeInv /\ StageInv /\ [Next]_vars => StageInv'
    <2> SUFFICES ASSUME TypeInv, StageInv, [Next]_vars PROVE StageInv'
      OBVIOUS
    <2> USE DEF Stages, BeforeJtag, BeforePower
    <2>1. CASE StageDone
      BY <2>1 DEF StageDone, After, TypeInv, StageInv, Threads, jtagVars
    <2>2. CASE StageFails
      BY <2>2 DEF StageFails, After, StageInv, jtagVars
    <2>3. CASE (ConfigurePin \/ ConfigureError \/ AutoPower \/ reset_init) /\ Others
      <3>1. CASE ConfigurePin
        BY <2>3, <3>1 DEF ConfigurePin, Others, TypeInv, StageInv, jtagVars, Threads
      <3>2. CASE ConfigureError
        BY <2>3, <3>2 DEF ConfigureError, Done, Others, TypeInv, StageInv, jtagVars, Threads
      <3>3. CASE AutoPower
        BY <2>3, <3>3 DEF AutoPower, Done, Others, TypeInv, StageInv, jtagVars, Threads
      <3>4. CASE reset_init
        BY <2>3, <3>4 DEF reset_init, ResetStep, Others, TypeInv, StageInv, jtagVars
      <3> QED
        BY <2>3, <3>1, <3>2, <3>3, <3>4
    <2>4. ASSUME NEW t \in Threads, Others,
                 SetPin(t) \/ SetPinError(t) \/ SetState(t) \/ Assert(t) \/ Release(t)
          PROVE  StageInv'
      <3>1. CASE SetPin(t)
        BY <2>4, <3>1 DEF SetPin, Others, TypeInv, StageInv, jtagVars, Threads
      <3>2. CASE SetPinError(t)
        BY <2>4, <3>2 DEF SetPinError, Done, Others, TypeInv, StageInv, jtagVars, Threads
      <3>3. CASE SetState(t)
        BY <2>4, <3>3 DEF SetState, Done, Others, TypeInv, StageInv, jtagVars, Threads
      <3>4. CASE Assert(t)
        BY <2>4, <3>4 DEF Assert, Done, Others, TypeInv, StageInv, jtagVars, Threads
      <3>5. CASE Release(t)
        BY <2>4, <3>5 DEF Release, Done, Others, TypeInv, StageInv, jtagVars, Threads
      <3> QED
        BY <2>4, <3>1, <3>2, <3>3, <3>4, <3>5
    <2>5. ASSUME NEW t \in Callers, NEW on \in BOOLEAN,
                 config_host_auto_poweron_set(t, on) \/ SavePolicy(t)
          PROVE  StageInv'
      BY <2>5 DEF config_host_auto_poweron_set, SavePolicy, settingOnly, StageInv, jtagVars
    <2>6. ASSUME NEW t \in Callers, cmd_bmc_reboot(t) \/ cmd_config_clear(t) PROVE StageInv'
      BY <2>6 DEF cmd_bmc_reboot, cmd_config_clear, bmc_reboot, TypeInv, StageInv, jtagVars, Threads
    <2>7. ASSUME NEW t \in Callers, NEW what \in {"on", "off", "reset"}, Command(t, what), Others
          PROVE  StageInv'
      BY <2>7 DEF Command, Others, TypeInv, StageInv, jtagVars, Threads
    <2>8. CASE reset_work_fn
      BY <2>8 DEF reset_work_fn, bmc_reboot, StageInv, jtagVars
    <2>9. CASE sys_reboot
      BY <2>9 DEF sys_reboot, PowerReset, JtagReset, AllIdle, AllFirst, StageInv, Threads
    <2>10. CASE JtagNext /\ UNCHANGED <<powerVars, bootVars>>
      <3>1. daemon = "off" => daemon' = "off"
        BY <2>10 DEF JtagNext, JtagThread, Client, DaemonInit, Accept, ClientGone, Quit, EndClient,
                     Connect, Disconnect, WriteBits, Serving
      <3> QED
        BY <2>10, <3>1 DEF StageInv, powerVars
    <2>11. CASE UNCHANGED vars
      BY <2>11 DEF StageInv, vars, powerVars, jtagVars
    <2> QED
      BY <2>1, <2>2, <2>3, <2>4, <2>5, <2>6, <2>7, <2>8, <2>9, <2>10, <2>11, Steps
  <1> QED
    BY <1>1, <1>2, <1>3, <1>4, PTL DEF Spec

\* Pins and system_power_state are levels and no thread runs past the last pin, in
\* whatever order main, the shell, the HTTP thread and the reboots come.
THEOREM PowerTypes == Spec => []PowerTypeOK
  <1>1. TypeInv /\ FlagsInv => PowerTypeOK
    BY DEF TypeInv, FlagsInv, PowerTypeOK
  <1> QED
    BY <1>1, StagesInductive, PTL

-----------------------------------------------------------------------------
(* The reported power state.                                               *)

Active(t) == op[t] \in {"configure", "on", "off", "reset"}
Ready == \A i \in Pins : configured[i]
Driving(t) == op[t] \in {"on", "off"}

\* Without overlaps, early commands and failures one thread at a time is at work, and
\* the pins that it is past have the level it drives; the others, and all pins while
\* nobody drives them, have the level that is reported.
SequentialInv ==
    errors = 0 /\ ~overlapped /\ ~early /\ NPins > 0 =>
        /\ \A t, u \in Threads : Active(t) /\ Active(u) => t = u
        /\ \A t \in Callers : Active(t) => Ready
        /\ ~Ready => system_power_state = FALSE
        /\ op["main"] = "configure" =>
              /\ system_power_state = FALSE
              /\ \A i \in Pins : i < at["main"] => configured[i] /\ pin[i] = FALSE
        /\ \A t \in Threads : Driving(t) =>
              Ready /\ \A i \in Pins : i < at[t] => pin[i] = (op[t] = "on")
        /\ Ready /\ op["main"] # "configure" /\ (\A t \in Threads : ~Driving(t)) =>
              \A i \in Pins : pin[i] = system_power_state

\* power_init, power_on, power_off and power_reset keep it, and so does a reset of the
\* BMC in the middle of one of them.
LEMMA SequentialInductive == Spec => []SequentialInv
  <1> USE PowerAssumption
  <1>1. Init => SequentialInv
    BY DEF Init, PowerInit, SequentialInv, AllLow, AllIdle, Active, Driving, Ready, Threads, Pins
  <1>2. TypeInv /\ FlagsInv /\ StageInv /\ SequentialInv /\ [Next]_vars => SequentialInv'
    <2> SUFFICES ASSUME TypeInv, FlagsInv, StageInv, SequentialInv, [Next]_vars,
                        errors' = 0, ~overlapped', ~early', NPins > 0
                 PROVE  SequentialInv'
      BY DEF SequentialInv
    <2> USE DEF Active, Driving, Ready
    <2>1. CASE StageDone
      BY <2>1 DEF StageDone, SequentialInv, StageInv, BeforePower, TypeInv, history, AllLow, Threads, Pins
    <2>2. CASE StageFails
      BY <2>2 DEF StageFails, Fail, MayFail, TypeInv
    <2>3. CASE (ConfigurePin \/ ConfigureError \/ AutoPower \/ reset_init) /\ Others
      <3>1. CASE ConfigurePin
        <4>1. /\ op["main"] = "configure" /\ op' = op /\ system_power_state' = system_power_state
              /\ errors = 0 /\ ~overlapped /\ ~early /\ "main" \in Threads
          BY <3>1 DEF ConfigurePin, history, Threads
        <4>2. \A u \in Callers : ~Active(u)
          BY <4>1 DEF SequentialInv, Threads
        <4>3. system_power_state = FALSE
          BY <4>1 DEF SequentialInv
        <4>4. \A i \in Pins : i < at'["main"] => configured'[i] /\ pin'[i] = FALSE
          BY <3>1, <4>1 DEF ConfigurePin, SequentialInv, TypeInv, Pins
        <4> QED
          BY <4>1, <4>2, <4>3, <4>4 DEF SequentialInv, Threads
      <3>2. CASE ConfigureError
        BY <3>2 DEF ConfigureError, Fail, MayFail, TypeInv
      <3>3. CASE AutoPower
        <4>1. /\ op["main"] = "configure" /\ at["main"] > NPins /\ "main" \in Threads
              /\ UNCHANGED <<pin, configured, system_power_state>>
              /\ errors = 0 /\ ~overlapped /\ ~early
          BY <3>3 DEF AutoPower, history, Threads
        <4>2. \A u \in Callers : ~Active(u)
          BY <4>1 DEF SequentialInv, Threads
        <4>3. \A i \in Pins : i < at["main"]
          BY <4>1 DEF TypeInv, Pins
        <4>4. Ready /\ system_power_state = FALSE /\ \A i \in Pins : pin[i] = FALSE
          BY <4>1, <4>3 DEF SequentialInv
        <4>5. /\ op'["main"] \in {"on", "idle"} /\ at'["main"] = 1
              /\ \A u \in Callers : op'[u] = op[u]
          BY <3>3, <4>1 DEF AutoPower, Done, TypeInv, Threads
        <4>6. \A i \in Pins : ~(i < 1)
          BY DEF Pins
        <4> QED
          BY <4>1, <4>2, <4>4, <4>5, <4>6 DEF SequentialInv, Threads
      <3>4. CASE reset_init
        BY <3>4 DEF reset_init, ResetStep, Fail, MayFail, SequentialInv, TypeInv, history
      <3> QED
        BY <2>3, <3>1, <3>2, <3>3, <3>4
    <2>4. ASSUME NEW t \in Threads, Others,
                 SetPin(t) \/ SetPinError(t) \/ SetState(t) \/ Assert(t) \/ Release(t)
          PROVE  SequentialInv'
      <3>1. CASE SetPin(t)
        BY <2>4, <3>1 DEF SetPin, Drive, SequentialInv, StageInv, TypeInv, history, Threads, Pins
      <3>2. CASE SetPinError(t)
        BY <2>4, <3>2 DEF SetPinError, Fail, MayFail, TypeInv
      <3>3. CASE SetState(t)
        BY <2>4, <3>3 DEF SetState, Done, SequentialInv, StageInv, TypeInv, history, Threads, Pins
      <3>4. CASE Assert(t)
        BY <2>4, <3>4 DEF Assert, Done, Fail, MayFail, SequentialInv, StageInv, TypeInv, history, Threads, Pins
      <3>5. CASE Release(t)
        BY <2>4, <3>5 DEF Release, Done, Fail, MayFail, SequentialInv, StageInv, TypeInv, history, Threads, Pins
      <3> QED
        BY <2>4, <3>1, <3>2, <3>3, <3>4, <3>5
    <2>5. ASSUME NEW t \in Callers, NEW on \in BOOLEAN,
                 config_host_auto_poweron_set(t, on) \/ SavePolicy(t)
          PROVE  SequentialInv'
      BY <2>5 DEF config_host_auto_poweron_set, SavePolicy, settingOnly, SequentialInv, history
    <2>6. ASSUME NEW t \in Callers, cmd_bmc_reboot(t) \/ cmd_config_clear(t) PROVE SequentialInv'
      BY <2>6 DEF cmd_bmc_reboot, cmd_config_clear, bmc_reboot, SequentialInv, TypeInv, history, Threads
    <2>7. ASSUME NEW t \in Callers, NEW what \in {"on", "off", "reset"}, Command(t, what), Others
          PROVE  SequentialInv'
      <3>1. /\ t \in Threads /\ op[t] = "idle" /\ UNCHANGED <<pin, configured, system_power_state, at>>
            /\ op' = [op EXCEPT ![t] = what]
            /\ errors = 0 /\ ~overlapped /\ ~early
        BY <2>7 DEF Command, Threads
      <3>2. Ready /\ \A u \in Threads \ {t} : op[u] = "idle"
        BY <2>7 DEF Command
      <3>3. op'[t] = what /\ (\A u \in Threads \ {t} : op'[u] = "idle") /\ t # "main"
        BY <3>1, <3>2 DEF TypeInv
      <3>4. at[t] = 1 /\ \A i \in Pins : ~(i < 1)
        BY <3>1 DEF StageInv, Pins
      <3>5. \A i \in Pins : pin[i] = system_power_state
        BY <3>1, <3>2 DEF SequentialInv, Threads
      <3> QED
        BY <3>1, <3>2, <3>3, <3>4, <3>5 DEF SequentialInv, Threads
    <2>8. CASE reset_work_fn
      BY <2>8 DEF reset_work_fn, bmc_reboot, SequentialInv, history
    <2>9. CASE sys_reboot
      BY <2>9 DEF sys_reboot, PowerReset, AllLow, AllIdle, AllFirst, SequentialInv, Threads, Pins
    <2>10. CASE JtagNext /\ UNCHANGED <<powerVars, bootVars>>
      BY <2>10 DEF SequentialInv, powerVars, history
    <2>11. CASE UNCHANGED vars
      BY <2>11 DEF SequentialInv, vars, powerVars, history
    <2> QED
      BY <2>1, <2>2, <2>3, <2>4, <2>5, <2>6, <2>7, <2>8, <2>9, <2>10, <2>11, Steps
  <1> QED
    BY <1>1, <1>2, StagesInductive, PTL DEF Spec

\* What Redfish reports as PowerState is what every power pin says once no command is
\* running, if nothing failed, no command came before the pins were set up and no two
\* overlapped (power.c:35-110), for any number of pins, threads, commands and reboots.
THEOREM SequentialStateIsTrueHolds == Spec => []SequentialStateIsTrue
  <1>1. StageInv /\ SequentialInv => SequentialStateIsTrue
    BY PowerAssumption
    DEF SequentialInv, SequentialStateIsTrue, StateIsTrueAfterBoot, ReportedStateIsTrue,
        Quiet, AllIdle, Ready, Driving, Pins, Threads
  <1> QED
    BY <1>1, SequentialInductive, StagesInductive, PTL

-----------------------------------------------------------------------------
(* The restore policy.                                                     *)

BeforeButton == {"rtc", "vpd", "fs", "config", "button"}
AfterLoad == Stages \ {"rtc", "vpd", "fs", "config", "failed"}
AfterHttp == {"logger", "bridge", "ws", "finished", "failed"}
AfterPower == Stages \ (BeforePower \cup {"power_init", "failed"})
NoReboot == \A t \in Callers : op[t] # "reboot"

\* The flash has what was last set, and so has RAM from config_init on, as long as the
\* file system is open and nobody is about to write; until config_init has read it
\* nobody can set it.
SavedInv ==
    /\ asked = saved
    /\ (http_server \/ boot \in AfterLoad) /\ storage /\ saving = {} => auto_poweron = saved
    /\ saving # {} => http_server \/ boot = "finished"
    /\ http_server => boot \in AfterHttp
    /\ button => boot \notin BeforeButton
    /\ boot \in BeforeButton \ {"button"} => saved = policy

\* Unless something failed, a command was given or a reboot was asked for in the
\* shell, power_init reads the policy and leaves the pins at its level.
RestoreInv ==
    errors = 0 =>
        /\ boot # "failed"
        /\ ~touched /\ NoReboot =>
              /\ \A t \in Callers : op[t] = "idle"
              /\ boot = "config" => storage
              /\ boot \in {"button", "net", "power_init"} => auto_poweron = policy
              /\ op["main"] = "configure" =>
                    \A i \in Pins : i < at["main"] => configured[i] /\ pin[i] = FALSE
              /\ op["main"] = "on" => /\ policy = TRUE /\ Ready
                                     /\ \A i \in Pins : i < at["main"] => pin[i] = TRUE
              /\ boot \in AfterPower => \A i \in Pins : pin[i] = policy

\* Redfish and the shell can set the policy, and the button can clear it, only in
\* stages after the one that reads it.
LEMMA SavedInductive == Spec => []SavedInv
  <1> USE DEF BeforeButton, AfterHttp, AfterLoad, Stages, BeforeJtag, BeforePower
  <1>1. Init => SavedInv
    BY DEF Init, PowerInit, SavedInv
  <1>2. TypeInv /\ FlagsInv /\ StageInv /\ SavedInv /\ [Next]_vars => SavedInv'
    <2> SUFFICES ASSUME TypeInv, FlagsInv, StageInv, SavedInv, [Next]_vars PROVE SavedInv'
      OBVIOUS
    <2>1. CASE StageDone
      <3>1. /\ UNCHANGED <<saved, saving, asked, policy>>
            /\ boot \in DOMAIN After /\ boot' = After[boot]
        BY <2>1 DEF StageDone
      <3>2. http_server' => http_server \/ boot = "http"
        BY <2>1, Zenon DEF StageDone
      <3>3. button' => button \/ boot = "button"
        BY <2>1, Zenon DEF StageDone
      <3>4. boot = "config" => auto_poweron' = (storage /\ saved) /\ (storage' => storage)
        <4>1. boot = "config" => auto_poweron' = (storage /\ saved)
          BY <2>1, Zenon DEF StageDone
        <4>2. storage' => storage \/ boot = "fs"
          BY <2>1, Zenon DEF StageDone
        <4> QED
          BY <4>1, <4>2
      <3>5. boot \notin {"config", "fs"} => UNCHANGED <<auto_poweron, storage>>
        BY <2>1 DEF StageDone, FlagsInv
      <3>6. (http_server' \/ boot' \in AfterLoad) /\ storage' /\ saving' = {}
              => auto_poweron' = saved'
        <4>1. CASE boot = "config"
          <5>1. storage' => auto_poweron' = saved
            BY <3>4, <4>1, Zenon DEF FlagsInv
          <5> QED
            BY <3>1, <5>1
        <4>2. CASE boot = "fs"
          <5>1. ~http_server'
            BY <3>2, <4>2 DEF SavedInv
          <5>2. boot' = "config"
            BY <3>1, <4>2 DEF After
          <5> QED
            BY <5>1, <5>2
        <4>3. CASE boot \notin {"config", "fs"}
          <5>1. boot = "http" => boot \in AfterLoad
            OBVIOUS
          <5>2. boot' \in AfterLoad => boot \in AfterLoad
            BY <3>1, <4>3 DEF After
          <5>3. UNCHANGED <<auto_poweron, storage, saved, saving>>
            BY <3>1, <3>5, <4>3
          <5> QED
            BY <3>2, <5>1, <5>2, <5>3 DEF SavedInv
        <4> QED
          BY <4>1, <4>2, <4>3
      <3>7. /\ asked' = saved'
            /\ http_server' => boot' \in AfterHttp
            /\ button' => boot' \notin BeforeButton
            /\ saving' # {} => http_server' \/ boot' = "finished"
            /\ boot' \in BeforeButton \ {"button"} => saved' = policy'
        <4>1. http_server => http_server'
          BY <2>1, Zenon DEF StageDone
        <4> QED
          BY <3>1, <3>2, <3>3, <4>1 DEF After, SavedInv
      <3> QED
        BY <3>6, <3>7 DEF SavedInv
    <2>2. CASE StageFails
      BY <2>2 DEF StageFails, After, SavedInv, bootVars, board
    <2>3. CASE (ConfigurePin \/ ConfigureError \/ AutoPower \/ reset_init) /\ Others
      <3>1. UNCHANGED <<saved, saving, asked, policy, storage, auto_poweron, http_server, button>>
        BY <2>3 DEF ConfigurePin, ConfigureError, AutoPower, reset_init, ResetStep, Others, bootVars, board
      <3>2. boot \in {"power_init", "reset_init", "reset_release"}
        BY <2>3 DEF ConfigurePin, ConfigureError, AutoPower, reset_init, StageInv
      <3>3. boot' \in {boot, "reset_init", "reset_release", "led", "failed"}
        BY <2>3 DEF ConfigurePin, ConfigureError, AutoPower, reset_init, ResetStep
      <3> QED
        BY <3>1, <3>2, <3>3 DEF SavedInv
    <2>4. ASSUME NEW t \in Threads, Others,
                 SetPin(t) \/ SetPinError(t) \/ SetState(t) \/ Assert(t) \/ Release(t)
          PROVE  SavedInv'
      <3>1. UNCHANGED <<saved, saving, asked, policy, storage, auto_poweron, http_server, button>>
        BY <2>4 DEF SetPin, SetPinError, SetState, Assert, Release, Others, bootVars, board
      <3>2. boot' = boot \/ (boot = "power_init" /\ boot' \in {"reset_init", "failed"})
        BY <2>4 DEF SetPin, SetPinError, SetState, Assert, Release, StageInv
      <3> QED
        BY <3>1, <3>2 DEF SavedInv
    <2>5. ASSUME NEW t \in Callers, NEW on \in BOOLEAN,
                 config_host_auto_poweron_set(t, on) \/ SavePolicy(t)
          PROVE  SavedInv'
      <3>1. UNCHANGED <<policy, storage, http_server, button, boot>>
        BY <2>5 DEF config_host_auto_poweron_set, SavePolicy, settingOnly
      <3>2. CASE config_host_auto_poweron_set(t, on)
        <4>1. saved' = saved /\ (http_server \/ boot = "finished")
          BY <3>2 DEF config_host_auto_poweron_set, MaySet
        <4>2. CASE auto_poweron = on
          <5>1. /\ auto_poweron' = auto_poweron /\ saving' = saving
                /\ asked' = IF storage /\ saving = {} THEN on ELSE asked
            BY <3>2, <4>2 DEF config_host_auto_poweron_set
          <5>2. asked' = saved
            BY <4>1, <4>2, <5>1 DEF SavedInv
          <5> QED
            BY <3>1, <4>1, <5>1, <5>2 DEF SavedInv
        <4>3. CASE auto_poweron # on
          <5>1. saving' # {} /\ asked' = asked
            BY <3>2, <4>3 DEF config_host_auto_poweron_set
          <5> QED
            BY <3>1, <4>1, <5>1 DEF SavedInv
        <4> QED
          BY <4>2, <4>3
      <3>3. CASE SavePolicy(t)
        <4>1. CASE storage
          BY <3>1, <3>3, <4>1 DEF SavePolicy, SavedInv
        <4>2. CASE ~storage
          BY <3>1, <3>3, <4>2 DEF SavePolicy, SavedInv
        <4> QED
          BY <4>1, <4>2
      <3> QED
        BY <2>5, <3>2, <3>3
    <2>6. ASSUME NEW t \in Callers, cmd_bmc_reboot(t) \/ cmd_config_clear(t) PROVE SavedInv'
      <3>1. UNCHANGED <<http_server, button, boot, policy, saving>> /\ storage' = FALSE
        BY <2>6 DEF cmd_bmc_reboot, cmd_config_clear, bmc_reboot, board
      <3>2. /\ asked' = saved'
            /\ boot # "finished" => saved' = saved
        BY <2>6 DEF cmd_bmc_reboot, cmd_config_clear, SavedInv
      <3> QED
        BY <3>1, <3>2 DEF SavedInv
    <2>7. ASSUME NEW t \in Callers, NEW what \in {"on", "off", "reset"}, Command(t, what), Others
          PROVE  SavedInv'
      BY <2>7 DEF Command, Others, SavedInv, bootVars, board
    <2>8. CASE reset_work_fn
      BY <2>8 DEF reset_work_fn, bmc_reboot, SavedInv, board
    <2>9. CASE sys_reboot
      BY <2>9 DEF sys_reboot, PowerReset, SavedInv
    <2>10. CASE JtagNext /\ UNCHANGED <<powerVars, bootVars>>
      BY <2>10 DEF SavedInv, powerVars, bootVars, board
    <2>11. CASE UNCHANGED vars
      BY <2>11 DEF SavedInv, vars, powerVars, bootVars, board
    <2> QED
      BY <2>1, <2>2, <2>3, <2>4, <2>5, <2>6, <2>7, <2>8, <2>9, <2>10, <2>11, Steps
  <1> QED
    BY <1>1, <1>2, StagesInductive, PTL DEF Spec

\* Every stage of the boot, and every reset of the BMC, keeps the relation between the
\* policy and the pins.
LEMMA RestoreInductive == Spec => []RestoreInv
  <1> USE PowerAssumption DEF NoReboot, Ready
  <1>1. Init => RestoreInv
    BY DEF Init, PowerInit, RestoreInv, AllIdle, AfterPower, BeforePower, Threads
  <1>2. TypeInv /\ FlagsInv /\ StageInv /\ SavedInv /\ RestoreInv /\ [Next]_vars => RestoreInv'
    <2> SUFFICES ASSUME TypeInv, FlagsInv, StageInv, SavedInv, RestoreInv, [Next]_vars, errors' = 0
                 PROVE  RestoreInv'
      BY DEF RestoreInv
    <2>1. CASE StageDone
      <3>1. /\ errors = 0 /\ boot \in DOMAIN After /\ boot' = After[boot] /\ boot' # "failed"
            /\ UNCHANGED <<touched, policy, pin, configured, at, saved>>
        BY <2>1 DEF StageDone, After, history
      <3> SUFFICES ASSUME ~touched, NoReboot'
                   PROVE  RestoreInv'
        BY <3>1 DEF RestoreInv
      <3>2. \A t \in Callers : op'[t] = op[t]
        BY <2>1 DEF StageDone, TypeInv, Threads
      <3>3. NoReboot /\ \A t \in Callers : op[t] = "idle"
        BY <3>1, <3>2 DEF RestoreInv
      <3>4. boot' = "config" => storage'
        <4>1. boot' = "config" => boot = "fs"
          <5>1. boot \in {"rtc", "vpd", "fs", "config", "button", "net", "led", "jtag", "http",
                          "logger", "bridge", "ws"}
            BY <3>1 DEF After
          <5>2. /\ After["rtc"] # "config" /\ After["vpd"] # "config" /\ After["config"] # "config"
                /\ After["button"] # "config" /\ After["net"] # "config" /\ After["led"] # "config"
                /\ After["jtag"] # "config" /\ After["http"] # "config" /\ After["logger"] # "config"
                /\ After["bridge"] # "config" /\ After["ws"] # "config"
            BY DEF After
          <5> QED
            BY <3>1, <5>1, <5>2
        <4>2. boot = "fs" => storage'
          BY <2>1, Zenon DEF StageDone
        <4> QED
          BY <4>1, <4>2
      <3>5. boot' \in {"button", "net", "power_init"} => auto_poweron' = policy
        <4>1. CASE boot = "config"
          BY <2>1, <3>1, <3>3, <4>1 DEF StageDone, RestoreInv, SavedInv, BeforeButton, FlagsInv
        <4>2. CASE boot \in {"button", "net"}
          BY <2>1, <3>1, <3>3, <4>2 DEF StageDone, RestoreInv
        <4> QED
          BY <2>1, <4>1, <4>2 DEF StageDone, After
      <3>6. \/ boot = "net" /\ op'["main"] = "configure" /\ at["main"] = 1
            \/ op'["main"] = "idle"
        BY <2>1 DEF StageDone, After, StageInv, TypeInv, Threads, BeforePower
      <3>7. boot' \in AfterPower => boot \in AfterPower
        BY <2>1 DEF StageDone, After, AfterPower, Stages, BeforeJtag, BeforePower
      <3>8. \A i \in Pins : ~(i < 1)
        BY DEF Pins
      <3> QED
        BY <3>1, <3>2, <3>3, <3>4, <3>5, <3>6, <3>7, <3>8 DEF RestoreInv
    <2>2. CASE StageFails
      BY <2>2 DEF StageFails, Fail, MayFail, TypeInv
    <2>3. CASE (ConfigurePin \/ ConfigureError \/ AutoPower \/ reset_init) /\ Others
      <3>1. CASE ConfigurePin
        BY <2>3, <3>1 DEF ConfigurePin, Others, RestoreInv, StageInv, TypeInv, history, board, bootVars,
             Pins, Threads, AfterPower
      <3>2. CASE ConfigureError
        BY <3>2 DEF ConfigureError, Fail, MayFail, TypeInv
      <3>3. CASE AutoPower
        BY <2>3, <3>3 DEF AutoPower, Done, Others, RestoreInv, StageInv, TypeInv, FlagsInv, history, board, bootVars,
             Pins, Threads, AfterPower
      <3>4. CASE reset_init
        BY <2>3, <3>4 DEF reset_init, ResetStep, Fail, MayFail, Others, RestoreInv, TypeInv, history, board, bootVars,
             AfterPower, Stages, BeforeJtag, BeforePower
      <3> QED
        BY <2>3, <3>1, <3>2, <3>3, <3>4
    <2>4. ASSUME NEW t \in Threads, Others,
                 SetPin(t) \/ SetPinError(t) \/ SetState(t) \/ Assert(t) \/ Release(t)
          PROVE  RestoreInv'
      <3>1. CASE SetPin(t)
        BY <2>4, <3>1 DEF SetPin, Drive, Others, RestoreInv, StageInv, TypeInv, history, board, bootVars,
             Threads, Pins, AfterPower
      <3>2. CASE SetPinError(t)
        BY <2>4, <3>2 DEF SetPinError, Fail, MayFail, TypeInv
      <3>3. CASE SetState(t)
        <4>1. CASE t \in Callers
          BY <2>4, <3>3, <4>1 DEF SetState, Done, Others, RestoreInv, StageInv, TypeInv, history,
               board, bootVars, Threads
        <4>2. CASE t = "main"
          <5>1. \A i \in Pins : i < at["main"]
            BY <3>3, <4>2 DEF SetState, TypeInv, Pins, Threads
          <5>2. op["main"] = "on" /\ op'["main"] = "idle" /\ \A u \in Callers : op'[u] = op[u]
            BY <3>3, <4>2 DEF SetState, Done, StageInv, TypeInv, Threads
          <5>3. boot' = "reset_init" /\ UNCHANGED <<pin, touched, policy, errors>>
            BY <2>4, <3>3, <4>2 DEF SetState, Others, history, bootVars
          <5> QED
            BY <5>1, <5>2, <5>3 DEF RestoreInv
        <4> QED
          BY <4>1, <4>2 DEF Threads
      <3>4. CASE Assert(t)
        BY <2>4, <3>4 DEF Assert, Done, Fail, MayFail, Others, RestoreInv, StageInv, TypeInv, history, board, bootVars,
             Threads, Pins
      <3>5. CASE Release(t)
        BY <2>4, <3>5 DEF Release, Done, Fail, MayFail, Others, RestoreInv, StageInv, TypeInv, history, board, bootVars,
             Threads, Pins
      <3> QED
        BY <2>4, <3>1, <3>2, <3>3, <3>4, <3>5
    <2>5. ASSUME NEW t \in Callers, NEW on \in BOOLEAN,
                 config_host_auto_poweron_set(t, on) \/ SavePolicy(t)
          PROVE  RestoreInv'
      BY <2>5 DEF config_host_auto_poweron_set, SavePolicy, settingOnly, MaySet, RestoreInv, SavedInv, AfterHttp, history
    <2>6. ASSUME NEW t \in Callers, cmd_bmc_reboot(t) \/ cmd_config_clear(t) PROVE RestoreInv'
      BY <2>6 DEF cmd_bmc_reboot, cmd_config_clear, bmc_reboot, RestoreInv, TypeInv, history, Threads
    <2>7. ASSUME NEW t \in Callers, NEW what \in {"on", "off", "reset"}, Command(t, what), Others
          PROVE  RestoreInv'
      BY <2>7 DEF Command, RestoreInv
    <2>8. CASE reset_work_fn
      BY <2>8 DEF reset_work_fn, bmc_reboot, RestoreInv, SavedInv, BeforeButton, history, board
    <2>9. CASE sys_reboot
      BY <2>9 DEF sys_reboot, PowerReset, AllIdle, RestoreInv, Threads, AfterPower, BeforePower
    <2>10. CASE JtagNext /\ UNCHANGED <<powerVars, bootVars>>
      BY <2>10 DEF RestoreInv, powerVars, history, board, bootVars
    <2>11. CASE UNCHANGED vars
      BY <2>11 DEF RestoreInv, vars, powerVars, history, board, bootVars
    <2> QED
      BY <2>1, <2>2, <2>3, <2>4, <2>5, <2>6, <2>7, <2>8, <2>9, <2>10, <2>11, Steps
  <1> QED
    BY <1>1, <1>2, StagesInductive, SavedInductive, PTL DEF Spec

\* If nothing failed and nobody has given a power command since the BMC started, the
\* host is on exactly if the policy that was last set without an error before that is
\* to power it on (power.c:107-110, config.c:641-661), for any number of pins, threads,
\* settings and reboots.
THEOREM RestorePolicyAlwaysHolds == Spec => []RestorePolicyHolds
  <1>1. StageInv /\ RestoreInv => RestorePolicyHolds
    <2> SUFFICES ASSUME StageInv, RestoreInv, Quiet, errors = 0, ~touched, NEW i \in Pins
                 PROVE  pin[i] = policy
      BY DEF RestorePolicyHolds
    <2>1. NoReboot /\ op["main"] = "idle"
      BY PowerAssumption DEF Quiet, AllIdle, NoReboot, Threads
    <2>2. boot \notin BeforePower
      BY DEF Quiet, StageInv, AllLow
    <2> QED
      BY <2>1, <2>2 DEF RestoreInv, StageInv, AfterPower
  <1> QED
    BY <1>1, RestoreInductive, StagesInductive, PTL

-----------------------------------------------------------------------------
(* The JTAG lines.                                                         *)

Level == {0, 1}
Cached == {-1, 0, 1}

\* The pins are driven exactly while there is a client, and what is cached of a
\* driven pin is nothing or its level.
JtagInv ==
    /\ daemon \in {"off", "init", "halted", "accept", "client"}
    /\ output = (daemon = "client")
    /\ line \in [tck : Cached, tms : Cached, tdi : Cached]
    /\ prev \in [tck : Cached, tms : Cached, tdi : Cached]
    /\ output => /\ line \in Bits
                 /\ prev.tck \in {-1, line.tck}
                 /\ prev.tms \in {-1, line.tms}
                 /\ prev.tdi \in {-1, line.tdi}

\* Every step of the system either leaves the JTAG daemon alone or is one of these.
LEMMA JtagSteps ==
    [Next]_vars => \/ UNCHANGED jtagVars
                   \/ JtagNext
                   \/ jtag_init /\ boot = "jtag"
                   \/ JtagReset
  <1> SUFFICES ASSUME [Next]_vars
               PROVE  UNCHANGED jtagVars \/ JtagNext \/ (jtag_init /\ boot = "jtag") \/ JtagReset
    OBVIOUS
  <1>1. CASE Main
    BY <1>1 DEF Main, StageDone, StageFails, jtag_init
  <1>2. CASE sys_reboot
    BY <1>2 DEF sys_reboot
  <1>3. CASE reset_work_fn
    BY <1>3 DEF reset_work_fn, bmc_reboot
  <1>4. ASSUME NEW t \in Threads, Run(t) PROVE UNCHANGED jtagVars
    BY <1>4 DEF Run
  <1>5. ASSUME NEW t \in Callers, NEW on \in BOOLEAN,
               config_host_auto_poweron_set(t, on) \/ SavePolicy(t)
        PROVE  UNCHANGED jtagVars
    BY <1>5 DEF config_host_auto_poweron_set, SavePolicy, settingOnly
  <1>6. ASSUME NEW t \in Callers, cmd_bmc_reboot(t) \/ cmd_config_clear(t)
        PROVE  UNCHANGED jtagVars
    BY <1>6 DEF cmd_bmc_reboot, cmd_config_clear, bmc_reboot
  <1>7. CASE UNCHANGED vars
    BY <1>7 DEF vars
  <1> QED
    BY <1>1, <1>2, <1>3, <1>4, <1>5, <1>6, <1>7 DEF Next

Pin3 == [tck : Cached, tms : Cached, tdi : Cached]

\* set_tms leaves the value on the pin and in the cache whether it writes or not, if
\* what is cached is nothing or the pin's level.
LEMMA SetTmsWrites ==
    ASSUME NEW l \in Pin3, NEW q \in Pin3, NEW s, NEW v \in Level, q.tms \in {-1, l.tms}
    PROVE  set_pin([line |-> l, prev |-> q, sampled |-> s], "tms", v)
              = [line |-> [l EXCEPT !.tms = v], prev |-> [q EXCEPT !.tms = v],
                 sampled |-> s]
  <1>1. CASE q.tms = v
    <2>1. l = [l EXCEPT !.tms = v] /\ q = [q EXCEPT !.tms = v]
      BY <1>1 DEF Pin3, Level
    <2> QED
      BY <1>1, <2>1 DEF set_pin
  <1>2. CASE q.tms # v
    BY <1>2 DEF set_pin
  <1> QED
    BY <1>1, <1>2

\* So does set_tdi.
LEMMA SetTdiWrites ==
    ASSUME NEW l \in Pin3, NEW q \in Pin3, NEW s, NEW v \in Level, q.tdi \in {-1, l.tdi}
    PROVE  set_pin([line |-> l, prev |-> q, sampled |-> s], "tdi", v)
              = [line |-> [l EXCEPT !.tdi = v], prev |-> [q EXCEPT !.tdi = v],
                 sampled |-> s]
  <1>1. CASE q.tdi = v
    <2>1. l = [l EXCEPT !.tdi = v] /\ q = [q EXCEPT !.tdi = v]
      BY <1>1 DEF Pin3, Level
    <2> QED
      BY <1>1, <2>1 DEF set_pin
  <1>2. CASE q.tdi # v
    BY <1>2 DEF set_pin
  <1> QED
    BY <1>1, <1>2

\* So does set_tck, and the host's TAP samples the other two lines if the pin rises.
LEMMA SetTckWrites ==
    ASSUME NEW l \in Pin3, NEW q \in Pin3, NEW s, NEW v \in Level, q.tck \in {-1, l.tck}
    PROVE  set_pin([line |-> l, prev |-> q, sampled |-> s], "tck", v)
              = [line |-> [l EXCEPT !.tck = v], prev |-> [q EXCEPT !.tck = v],
                 sampled |-> IF v = 1 /\ l.tck = 0 THEN <<l.tms, l.tdi>> ELSE s]
  <1>1. CASE q.tck = v
    <2>1. l = [l EXCEPT !.tck = v] /\ q = [q EXCEPT !.tck = v]
      BY <1>1 DEF Pin3, Level
    <2>2. ~(v = 1 /\ l.tck = 0)
      BY <1>1 DEF Level
    <2> QED
      BY <1>1, <2>1, <2>2 DEF set_pin
  <1>2. CASE q.tck # v
    BY <1>2 DEF set_pin
  <1> QED
    BY <1>1, <1>2

\* A write leaves the client's bits on the lines, and the host's TAP has seen them
\* if TCK rose, whatever was cached.
LEMMA WriteReachesTheLines ==
    ASSUME JtagInv, NEW bits \in Bits, WriteBits(bits)
    PROVE  /\ output /\ line' = bits /\ prev' = bits /\ written' = bits
           /\ sampled' = IF line.tck = 0 /\ bits.tck = 1 THEN <<bits.tms, bits.tdi>> ELSE sampled
           /\ UNCHANGED <<daemon, output>>
  <1> DEFINE l1 == [line EXCEPT !.tms = bits.tms]
             q1 == [prev EXCEPT !.tms = bits.tms]
             l2 == [l1 EXCEPT !.tdi = bits.tdi]
             q2 == [q1 EXCEPT !.tdi = bits.tdi]
             l3 == [l2 EXCEPT !.tck = bits.tck]
             q3 == [q2 EXCEPT !.tck = bits.tck]
             pins == [line |-> line, prev |-> prev, sampled |-> sampled]
             data == set_pin(set_pin(pins, "tms", bits.tms), "tdi", bits.tdi)
             all == set_pin(data, "tck", bits.tck)
  <1>1. /\ output /\ line \in Bits /\ UNCHANGED <<daemon, output>> /\ written' = bits
        /\ line' = all.line /\ prev' = all.prev /\ sampled' = all.sampled
    BY DEF WriteBits, Serving, JtagInv
  <1>2. /\ line \in Pin3 /\ prev \in Pin3
        /\ bits.tms \in Level /\ bits.tdi \in Level /\ bits.tck \in Level
        /\ prev.tck \in {-1, line.tck} /\ prev.tms \in {-1, line.tms} /\ prev.tdi \in {-1, line.tdi}
    BY <1>1 DEF JtagInv, Bits, Pin3, Level, Cached
  <1>3. /\ l1 \in Pin3 /\ q1 \in Pin3 /\ l1.tck = line.tck /\ q1.tck = prev.tck
        /\ l1.tdi = line.tdi /\ q1.tdi = prev.tdi /\ l1.tms = bits.tms /\ q1.tms = bits.tms
    BY <1>2 DEF Pin3, Level, Cached
  <1>4. set_pin(pins, "tms", bits.tms) = [line |-> l1, prev |-> q1, sampled |-> sampled]
    BY <1>2, SetTmsWrites
  <1> HIDE DEF l1, q1
  <1>5. /\ l2 \in Pin3 /\ q2 \in Pin3 /\ l2.tck = line.tck /\ q2.tck = prev.tck
        /\ l2.tdi = bits.tdi /\ q2.tdi = bits.tdi /\ l2.tms = bits.tms /\ q2.tms = bits.tms
    BY <1>2, <1>3 DEF Pin3, Level, Cached
  <1>6. data = [line |-> l2, prev |-> q2, sampled |-> sampled]
    BY <1>2, <1>3, <1>4, SetTdiWrites
  <1> HIDE DEF l2, q2, data
  <1>7. /\ l3 \in Pin3 /\ q3 \in Pin3 /\ l3.tck = bits.tck /\ q3.tck = bits.tck
        /\ l3.tdi = bits.tdi /\ q3.tdi = bits.tdi /\ l3.tms = bits.tms /\ q3.tms = bits.tms
    BY <1>2, <1>5 DEF Pin3, Level, Cached
  <1>8. l3 = bits /\ q3 = bits
    BY <1>7 DEF Pin3, Bits
  <1>9. all = [line |-> l3, prev |-> q3,
               sampled |-> IF bits.tck = 1 /\ l2.tck = 0 THEN <<l2.tms, l2.tdi>> ELSE sampled]
    BY <1>2, <1>5, <1>6, SetTckWrites
  <1> HIDE DEF all
  <1>10. all.line = bits /\ all.prev = bits
    BY <1>8, <1>9
  <1>11. all.sampled = IF bits.tck = 1 /\ l2.tck = 0 THEN <<l2.tms, l2.tdi>> ELSE sampled
    BY <1>9
  <1> QED
    BY <1>1, <1>5, <1>10, <1>11

\* A client finds the pins idle and nothing cached, and leaves them floating; the
\* rest of the daemon does not touch them.
LEMMA JtagInductive == Spec => []JtagInv
  <1>1. Init => JtagInv
    <2> SUFFICES ASSUME Init PROVE JtagInv
      OBVIOUS
    <2>1. Unknown \in [tck : Cached, tms : Cached, tdi : Cached]
      BY DEF Unknown, Cached
    <2> QED
      BY <2>1 DEF Init, JtagInit, JtagInv
  <1>2. JtagInv /\ StageInv /\ [Next]_vars => JtagInv'
    <2> SUFFICES ASSUME JtagInv, StageInv, [Next]_vars PROVE JtagInv'
      OBVIOUS
    <2>u. Unknown \in [tck : Cached, tms : Cached, tdi : Cached] /\ Unknown.tck = -1
          /\ Unknown.tms = -1 /\ Unknown.tdi = -1
      BY DEF Unknown, Cached
    <2>1. CASE UNCHANGED jtagVars
      BY <2>1 DEF jtagVars, pinVars, JtagInv
    <2>2. CASE jtag_init /\ boot = "jtag"
      BY <2>2 DEF jtag_init, pinVars, JtagInv, StageInv, BeforeJtag
    <2>3. CASE JtagReset
      BY <2>3, <2>u DEF JtagReset, JtagInv
    <2>4. CASE DaemonInit
      BY <2>4 DEF DaemonInit, pinVars, JtagInv
    <2>5. CASE Accept
      <3>1. [tck |-> 0, tms |-> 1, tdi |-> 0] \in Bits
        BY DEF Bits
      <3>2. [tck |-> 0, tms |-> 1, tdi |-> 0] \in [tck : Cached, tms : Cached, tdi : Cached]
        BY DEF Cached
      <3> QED
        BY <2>5, <2>u, <3>1, <3>2 DEF Accept, jtag_pins_enable, JtagInv
    <2>6. CASE ClientGone \/ Quit
      BY <2>6, <2>u DEF ClientGone, Quit, EndClient, jtag_pins_disable, JtagInv
    <2>7. CASE Connect \/ Disconnect
      BY <2>7 DEF Connect, Disconnect, pinVars, JtagInv
    <2>8. ASSUME NEW bits \in Bits, WriteBits(bits) PROVE JtagInv'
      <3>1. bits \in [tck : Cached, tms : Cached, tdi : Cached]
        BY DEF Bits, Cached
      <3> QED
        BY <2>8, <3>1, WriteReachesTheLines DEF JtagInv
    <2> QED
      BY <2>1, <2>2, <2>3, <2>4, <2>5, <2>6, <2>7, <2>8, JtagSteps
      DEF JtagNext, JtagThread, Client
  <1> QED
    BY <1>1, <1>2, StagesInductive, PTL DEF Spec

\* Every client gets what it writes: with every write the three lines take the
\* client's bits, the TAP samples that write's TMS and TDI if TCK rises, a client
\* finds the lines idle, and nothing is driven between clients and after a reset
\* (jtag.c:39-64, 149-166), for any number of clients and reboots.
THEOREM JtagWireRefined == Spec => ImplementsJtagWire
  <1>1. Init => Wire!Init
    BY DEF Init, JtagInit, Unknown, Wire!Init, Wire!Floating
  <1>2. JtagInv /\ StageInv /\ [Next]_vars => [Wire!Next]_<<output, line, written, sampled>>
    <2> SUFFICES ASSUME JtagInv, StageInv, [Next]_vars
                 PROVE  Wire!Next \/ UNCHANGED <<output, line, written, sampled>>
      OBVIOUS
    <2>1. CASE UNCHANGED jtagVars
      BY <2>1 DEF jtagVars, pinVars
    <2>2. CASE jtag_init \/ DaemonInit \/ Connect \/ Disconnect
      BY <2>2 DEF jtag_init, DaemonInit, Connect, Disconnect, pinVars
    <2>3. CASE JtagReset
      BY <2>3 DEF JtagReset, Unknown, Wire!Next, Wire!Release, Wire!Floating
    <2>4. CASE Accept
      BY <2>4 DEF Accept, jtag_pins_enable, JtagInv, Wire!Next, Wire!Enable, Wire!Idle
    <2>5. CASE ClientGone \/ Quit
      BY <2>5 DEF ClientGone, Quit, EndClient, jtag_pins_disable, Unknown,
                  Wire!Next, Wire!Release, Wire!Floating
    <2>6. ASSUME NEW bits \in Bits, WriteBits(bits) PROVE Wire!Next
      <3>1. Wire!Write(bits)
        BY <2>6, WriteReachesTheLines DEF Wire!Write
      <3> QED
        BY <3>1 DEF Wire!Next, Wire!Bits, Bits
    <2> QED
      BY <2>1, <2>2, <2>3, <2>4, <2>5, <2>6, JtagSteps DEF JtagNext, JtagThread, Client
  <1> QED
    BY <1>1, <1>2, JtagInductive, StagesInductive, PTL DEF Spec, ImplementsJtagWire, Wire!Spec

=============================================================================
