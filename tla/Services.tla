------------------------------ MODULE Services ------------------------------
(***************************************************************************)
(* The settings that act on running services, from the shell and from the  *)
(* PATCH handlers of src/redfish.c: the network interface (Net), NTP (Ntp) *)
(* and the clocks (Clock), initialised by the main thread before either    *)
(* caller is there.                                                        *)
(***************************************************************************)
EXTENDS Net, Ntp

\* Net shares no state with Ntp and Clock.  A behaviour is about one of the two
\* groups of settings, and the services of the other one stay off.
VARIABLE about

vars == <<about, settingVars, netVars, clockVars, ntpVars>>

NetSettings == {"hostname", "use_dhcp4", "ip4", "nm", "gw"}
TimeSettings == {"use_ntp", "ntp_server", "date_time"}

Init ==
    /\ SettingsInit /\ NetInit /\ ClockInit /\ NtpInit
    /\ about \in {NetSettings, TimeSettings}
    /\ about = NetSettings => ~config_data.use_ntp /\ ~has_rtc
    /\ about = TimeSettings => ~config_data.use_dhcp4 /\ config_data.ip4 = "none"

-----------------------------------------------------------------------------
(* The calls.  A PATCH body may leave out any field.                       *)

Set(name, values) == {<<[set |-> name, val |-> v]>> : v \in values}
Opt(settings) == settings \cup {<<>>}

\* One shell command per setting.
ShellCalls ==
    Set("hostname", {"h"}) \cup Set("use_dhcp4", BOOLEAN)
    \cup Set("ip4", {"b", "invalid"}) \cup Set("nm", {"n"}) \cup Set("gw", {"none"})
    \cup Set("use_ntp", BOOLEAN) \cup Set("ntp_server", {"r"})

\* A static address is all three settings, and an empty list clears them.
StaticAddress(a, n, g) ==
    <<[set |-> "ip4", val |-> a], [set |-> "nm", val |-> n], [set |-> "gw", val |-> g]>>

ethernet_patch_handler ==
    {h \o d \o s : h \in Opt(Set("hostname", {"h"})), d \in Opt(Set("use_dhcp4", BOOLEAN)),
                   s \in {<<>>, StaticAddress("a", "m", "g"), StaticAddress("none", "none", "none")}}

network_protocol_patch_handler ==
    {s \o u : s \in Opt(Set("ntp_server", {"q"})), u \in Opt(Set("use_ntp", BOOLEAN))}

\* payload is not cleared: without a DateTime in the body date_time is what the
\* stack holds.  If it can be read at all it is no date, and refused like one
\* without a fraction.
manager_patch_handler == Set("date_time", DateTimes)

About(c) == \A i \in DOMAIN c : c[i].set \in about

cmd_config == \E c \in ShellCalls : About(c) /\ Call("shell", c)

redfish_patch ==
    \E c \in ethernet_patch_handler \cup network_protocol_patch_handler
              \cup manager_patch_handler : About(c) /\ Call("http", c)

Next ==
    /\ ~corrupt /\ UNCHANGED about
    /\ \/ (cmd_config \/ redfish_patch) /\ UNCHANGED <<netVars, clockVars, ntpVars>>
       \/ (\E t \in Threads : Write(t)) /\ UNCHANGED <<netVars, clockVars, ntpVars>>
       \/ NetNext /\ UNCHANGED <<clockVars, ntpVars>>
       \/ TimeNext /\ UNCHANGED netVars

Runs(t) ==
    /\ ~corrupt /\ UNCHANGED about
    /\ \/ Write(t) /\ UNCHANGED <<netVars, clockVars, ntpVars>>
       \/ NetSteps(t) /\ UNCHANGED <<clockVars, ntpVars>>
       \/ TimeSteps(t) /\ UNCHANGED netVars

\* Time passes, a query ends (it times out), and a thread in a call runs on.
Spec ==
    /\ Init /\ [][Next]_vars
    /\ WF_vars(~corrupt /\ ntp_sync_work_handler /\ UNCHANGED <<about, netVars>>)
    /\ \A t \in Callers : WF_vars(Runs(t))

-----------------------------------------------------------------------------
(* Properties.                                                             *)

\* Every call returns: stop_ntp does not wait for ever for a handler that
\* schedules itself again, whoever else starts or stops NTP meanwhile
\* (ntp.c:173).
CallsEnd == []<>(corrupt \/ \A t \in Callers : ~Busy(t))

=============================================================================
