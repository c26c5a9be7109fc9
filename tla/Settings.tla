------------------------------ MODULE Settings ------------------------------
(***************************************************************************)
(* The threads that change settings (src/config.c) and the way a call runs *)
(* through a setter.  The main thread initialises the services, then the   *)
(* shell gives one setting at a time and the HTTP thread the settings one  *)
(* PATCH names, in the order its handler applies them (src/redfish.c).     *)
(* Nothing excludes them from each other.                                  *)
(*                                                                         *)
(* A call is a sequence of settings; the first is being applied and pc is  *)
(* the place in its setter.  What config_write does to the flash is in     *)
(* module Config; here it succeeds or fails.                               *)
(***************************************************************************)
EXTENDS Integers, Sequences

CONSTANTS MaxCalls,   \* bound: calls of the shell and of Redfish
          MaxErrors   \* bound: failing operations

ASSUME SettingsAssumption == MaxCalls \in Nat /\ MaxErrors \in Nat

Callers == {"shell", "http"}
Threads == Callers \cup {"main"}

VARIABLES config_data,  \* the settings in RAM
          todo, pc,     \* of each thread: the settings to apply, and where it is
          boot_finished,
          overlapped,   \* history: did a call start while another was running?
          calls, errors

callVars == <<todo, pc, boot_finished, overlapped, calls>>
settingVars == <<config_data, callVars, errors>>

\* rtc_init and net_init, in pieces: the parts of main that initialise what is
\* modelled here.
BootCall ==
    <<[set |-> "rtc_init"], [set |-> "init_ip"], [set |-> "init_dhcp"], [set |-> "ntp_init"]>>

SettingsInit ==
    /\ config_data \in [use_dhcp4 : BOOLEAN, ip4 : {"none", "a"}, nm : {"m"}, gw : {"g"},
                        use_ntp : BOOLEAN, ntp_server : {"s"}]
    /\ todo = [t \in Threads |-> IF t = "main" THEN BootCall ELSE <<>>]
    /\ pc = [t \in Threads |-> "begin"]
    /\ boot_finished = FALSE /\ overlapped = FALSE
    /\ calls = 0 /\ errors = 0

Cur(t) == Head(todo[t])
At(t, sets, place) == todo[t] # <<>> /\ Cur(t).set \in sets /\ pc[t] = place
Busy(t) == todo[t] # <<>>

Goto(t, place) ==
    /\ pc' = [pc EXCEPT ![t] = place]
    /\ UNCHANGED <<todo, boot_finished, overlapped, calls>>

\* The handlers pass over a failure of these two setters.
Ignored == {"use_dhcp4", "use_ntp"}

\* The setter returns; on an error the handler, or main, leaves out the rest.
Return(t, ok) ==
    /\ pc' = [pc EXCEPT ![t] = "begin"]
    /\ todo' = [todo EXCEPT ![t] = IF ok \/ Cur(t).set \in Ignored THEN Tail(@) ELSE <<>>]
    /\ boot_finished' = (boot_finished \/ (t = "main" /\ ok /\ Len(todo[t]) = 1))
    /\ UNCHANGED <<overlapped, calls>>

MayFail == errors < MaxErrors
Fail == errors' = errors + 1

\* A call begins: a shell command waits for boot_finished, the HTTP server is
\* started after net_init.
Call(t, settings) ==
    /\ boot_finished /\ ~Busy(t) /\ calls < MaxCalls
    /\ settings # <<>>
    /\ todo' = [todo EXCEPT ![t] = settings]
    /\ overlapped' = (overlapped \/ \E u \in Threads : Busy(u))
    /\ calls' = calls + 1
    /\ UNCHANGED <<config_data, pc, boot_finished, errors>>

\* config_write and config_write_str.  Setting the server goes on from there.
Write(t) ==
    /\ Busy(t) /\ pc[t] = "write"
    /\ \/ /\ IF Cur(t).set = "ntp_server" THEN Goto(t, "restart") ELSE Return(t, TRUE)
          /\ UNCHANGED errors
       \/ MayFail /\ Fail /\ Return(t, FALSE)
    /\ UNCHANGED config_data

Quiet == boot_finished /\ \A t \in Threads : ~Busy(t)

=============================================================================
