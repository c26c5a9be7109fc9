-------------------------------- MODULE Net ---------------------------------
(***************************************************************************)
(* The network interface (src/net.c, src/dhcp.c) and the setters that act  *)
(* on it: host name, DHCP, and the default address, netmask and gateway.   *)
(*                                                                         *)
(* The interface and the DHCP client are Zephyr's.  The interface has two  *)
(* address slots ("2 addresses so we can have a DHCP and an overridable    *)
(* static", prj.conf:34) and one gateway.  A lease takes the first slot    *)
(* that is free or holds an overridable address, and sets the gateway.     *)
(* Stopping the client removes the lease; starting a running client does   *)
(* nothing, restarting it stops and starts it.                             *)
(***************************************************************************)
EXTENDS Settings, FiniteSetsExt

NET_IF_MAX_IPV4_ADDR == 2
Slots == 1..NET_IF_MAX_IPV4_ADDR

VARIABLES dhcp,     \* the DHCP client: "off", "selecting" or "bound"
          unicast,  \* the slots of the interface
          gateway,
          ip4       \* of each thread: the values it read from the configuration

netVars == <<dhcp, unicast, gateway, ip4>>

Unused == [type |-> "unused", addr |-> "none", nm |-> "none"]
Lease == [type |-> "DHCP", addr |-> "lease", nm |-> "lease"]
NoIp4 == [addr |-> "none", nm |-> "none", gw |-> "none"]

NetInit ==
    /\ dhcp = "off"
    /\ unicast = [i \in Slots |-> Unused]
    /\ gateway = "none"
    /\ ip4 = [t \in Threads |-> NoIp4]

-----------------------------------------------------------------------------
(* Zephyr: the addresses of the interface, and the DHCP client.            *)

\* The slots net_if_ipv4_addr_add may use for an address of a type.
Candidates(type) ==
    {i \in Slots : unicast[i].type = "unused"
                    \/ (type = "DHCP" /\ unicast[i].type = "OVERRIDABLE")}

Remove(types) == [i \in Slots |-> IF unicast[i].type \in types THEN Unused ELSE unicast[i]]

net_dhcpv4_start ==
    /\ dhcp' = IF dhcp = "off" THEN "selecting" ELSE dhcp
    /\ UNCHANGED unicast

net_dhcpv4_stop == dhcp' = "off" /\ unicast' = Remove({"DHCP"})
net_dhcpv4_restart == dhcp' = "selecting" /\ unicast' = Remove({"DHCP"})

\* The server grants or extends a lease; the reply names the router.
LeaseGranted ==
    /\ dhcp \in {"selecting", "bound"}
    /\ dhcp' = "bound"
    /\ unicast' = IF dhcp = "bound" THEN unicast
                  ELSE [unicast EXCEPT ![Min(Candidates("DHCP"))] = Lease]
    /\ gateway' = "lease"
    /\ UNCHANGED <<ip4, settingVars>>

\* The lease runs out or is withdrawn.
LeaseLost ==
    /\ dhcp = "bound"
    /\ net_dhcpv4_restart
    /\ UNCHANGED <<gateway, ip4, settingVars>>

-----------------------------------------------------------------------------
(* net_do_set_default_ip4_from_config, in any thread: read the three       *)
(* settings, set the gateway, remove the static address, add the new one.  *)

\* The setter goes on: the address setters return a failure, stopping DHCP and
\* net_init only log it.
Applied(t, ok) ==
    IF Cur(t).set \in {"init_ip", "init_dhcp"} THEN Return(t, TRUE)
    ELSE IF ok \/ Cur(t).set = "use_dhcp4" THEN Goto(t, "write")
    ELSE Return(t, FALSE)

ReadIp4(t) ==
    /\ Busy(t) /\ pc[t] = "ip4"
    /\ ip4' = [ip4 EXCEPT ![t] =
          [addr |-> config_data.ip4, nm |-> config_data.nm, gw |-> config_data.gw]]
    /\ Goto(t, "gw")
    /\ UNCHANGED <<dhcp, unicast, gateway, config_data, errors>>

SetGateway(t) ==
    /\ Busy(t) /\ pc[t] = "gw"
    /\ gateway' = ip4[t].gw
    /\ Goto(t, "rm")
    /\ UNCHANGED <<dhcp, unicast, ip4, config_data, errors>>

RemoveStatic(t) ==
    /\ Busy(t) /\ pc[t] = "rm"
    /\ unicast' = Remove({"OVERRIDABLE"})
    /\ Goto(t, "add")
    /\ UNCHANGED <<dhcp, gateway, ip4, config_data, errors>>

HasAddr(a) == \E i \in Slots : unicast[i].addr = a

\* The values that were read are not needed any more.
Forget(t) == ip4' = [ip4 EXCEPT ![t] = NoIp4]

\* "Just remove any manual address if this was 0".
AddNothing(t) ==
    /\ Busy(t) /\ pc[t] = "add" /\ ip4[t].addr = "none"
    /\ Applied(t, TRUE) /\ Forget(t)
    /\ UNCHANGED <<dhcp, unicast, gateway, config_data, errors>>

\* net_if_ipv4_addr_add: an address that is there already is kept.
AddStatic(t) ==
    /\ Busy(t) /\ pc[t] = "add" /\ ip4[t].addr # "none"
    /\ \/ HasAddr(ip4[t].addr) /\ UNCHANGED unicast
       \/ /\ ~HasAddr(ip4[t].addr) /\ Candidates("OVERRIDABLE") # {}
          /\ unicast' = [unicast EXCEPT ![Min(Candidates("OVERRIDABLE"))] =
                [type |-> "OVERRIDABLE", addr |-> ip4[t].addr, nm |-> "none"]]
    /\ Goto(t, "nm")
    /\ UNCHANGED <<dhcp, gateway, ip4, config_data, errors>>

\* It fails if no slot is left, or for a reason of its own.
AddStaticError(t) ==
    /\ Busy(t) /\ pc[t] = "add" /\ ip4[t].addr # "none"
    /\ \/ ~HasAddr(ip4[t].addr) /\ Candidates("OVERRIDABLE") = {} /\ UNCHANGED errors
       \/ MayFail /\ Fail
    /\ Applied(t, FALSE) /\ Forget(t)
    /\ UNCHANGED <<dhcp, unicast, gateway, config_data>>

\* The address may be gone by now.
SetNetmask(t) ==
    /\ Busy(t) /\ pc[t] = "nm"
    /\ unicast' = [i \in Slots |-> IF unicast[i].addr = ip4[t].addr
                                   THEN [unicast[i] EXCEPT !.nm = ip4[t].nm] ELSE unicast[i]]
    /\ Applied(t, HasAddr(ip4[t].addr)) /\ Forget(t)
    /\ UNCHANGED <<dhcp, gateway, config_data, errors>>

net_do_set_default_ip4(t) ==
    \/ ReadIp4(t) \/ SetGateway(t) \/ RemoveStatic(t)
    \/ AddNothing(t) \/ AddStatic(t) \/ AddStaticError(t) \/ SetNetmask(t)

-----------------------------------------------------------------------------
(* net_init.  The configuration of the interface always starts DHCP.       *)

init_ip ==
    /\ At("main", {"init_ip"}, "begin")
    /\ IF config_data.ip4 # "none" THEN Goto("main", "ip4") ELSE Return("main", TRUE)
    /\ UNCHANGED <<netVars, config_data, errors>>

net_config_init_app ==
    /\ At("main", {"init_dhcp"}, "begin")
    /\ \/ net_dhcpv4_start /\ Goto("main", "want") /\ UNCHANGED errors
       \/ MayFail /\ Fail /\ Return("main", FALSE) /\ UNCHANGED <<dhcp, unicast>>
    /\ UNCHANGED <<gateway, ip4, config_data>>

StopUnwanted ==
    /\ At("main", {"init_dhcp"}, "want")
    /\ IF config_data.use_dhcp4
       THEN Return("main", TRUE) /\ UNCHANGED <<dhcp, unicast>>
       ELSE net_dhcpv4_stop /\ Goto("main", "ip4")
    /\ UNCHANGED <<gateway, ip4, config_data, errors>>

net_init == init_ip \/ net_config_init_app \/ StopUnwanted

-----------------------------------------------------------------------------
(* The setters.                                                            *)

\* net_do_set_hostname: the name is registered with DHCP, if that is in use.
SetHostname(t) ==
    /\ At(t, {"hostname"}, "begin")
    /\ \/ Goto(t, "dhcp?") /\ UNCHANGED errors
       \/ MayFail /\ Fail /\ Return(t, FALSE)
    /\ UNCHANGED <<netVars, config_data>>

AskDhcp(t) ==
    /\ At(t, {"hostname"}, "dhcp?")
    /\ Goto(t, IF config_data.use_dhcp4 THEN "restart" ELSE "write")
    /\ UNCHANGED <<netVars, config_data, errors>>

restart_dhcp4(t) ==
    /\ At(t, {"hostname"}, "restart")
    /\ net_dhcpv4_restart
    /\ Goto(t, "write")
    /\ UNCHANGED <<gateway, ip4, config_data, errors>>

config_bmc_hostname_set(t) == SetHostname(t) \/ AskDhcp(t) \/ restart_dhcp4(t)

\* A string that is no address is refused; none at all stands for 0.
config_bmc_default_ip4_set(t) ==
    /\ At(t, {"ip4", "nm", "gw"}, "begin")
    /\ IF Cur(t).val = "invalid"
       THEN Return(t, FALSE) /\ UNCHANGED config_data
       ELSE /\ config_data' = [config_data EXCEPT ![Cur(t).set] = Cur(t).val]
            /\ Goto(t, "ip4")
    /\ UNCHANGED <<netVars, errors>>

StoreUseDhcp(t) ==
    /\ At(t, {"use_dhcp4"}, "begin")
    /\ IF config_data.use_dhcp4 = Cur(t).val
       THEN Return(t, TRUE) /\ UNCHANGED config_data
       ELSE config_data' = [config_data EXCEPT !.use_dhcp4 = Cur(t).val] /\ Goto(t, "switch")
    /\ UNCHANGED <<netVars, errors>>

\* Mutation of SwitchDhcp: after stopping, the static address is not set again.
SwitchDhcpOnly(t) ==
    /\ At(t, {"use_dhcp4"}, "switch")
    /\ IF Cur(t).val THEN net_dhcpv4_start ELSE net_dhcpv4_stop
    /\ Goto(t, "write")
    /\ UNCHANGED <<gateway, ip4, config_data, errors>>

\* net_start_dhcp4, or net_stop_dhcp4, which goes on to set the static address.
SwitchDhcp(t) ==
    /\ At(t, {"use_dhcp4"}, "switch")
    /\ IF Cur(t).val
       THEN net_dhcpv4_start /\ Goto(t, "write")
       ELSE net_dhcpv4_stop /\ Goto(t, "ip4")
    /\ UNCHANGED <<gateway, ip4, config_data, errors>>

config_bmc_use_dhcp4_set(t) == StoreUseDhcp(t) \/ SwitchDhcp(t)

NetSteps(t) ==
    \/ net_do_set_default_ip4(t)
    \/ config_bmc_hostname_set(t)
    \/ config_bmc_default_ip4_set(t)
    \/ config_bmc_use_dhcp4_set(t)

NetNext == net_init \/ LeaseGranted \/ LeaseLost \/ \E t \in Threads : NetSteps(t)

-----------------------------------------------------------------------------
(* Properties.                                                             *)

Static == {unicast[i] : i \in Slots} \ {Unused, Lease}
Configured ==
    IF config_data.ip4 = "none" THEN {}
    ELSE {[type |-> "OVERRIDABLE", addr |-> config_data.ip4, nm |-> config_data.nm]}

\* Once no call is running, the interface is what the settings say, if no two
\* calls overlapped: DHCP runs exactly if it is wanted (whatever failed), and
\* unless an address could not be added the static address is the configured one;
\* without DHCP it is there, with the configured gateway and nothing left of a
\* lease (config.c:428-451, net.c:46-140).
InterfaceFollowsSettings ==
    Quiet /\ ~overlapped =>
        /\ (dhcp # "off") = config_data.use_dhcp4
        /\ errors = 0 => Static \subseteq Configured
        /\ errors = 0 /\ ~config_data.use_dhcp4 =>
              {unicast[i] : i \in Slots} \ {Unused} = Configured /\ gateway = config_data.gw

-----------------------------------------------------------------------------
(* What the code does not give; README.md says how each one fails.         *)

\* The same whoever calls when.
DhcpFollowsSetting == Quiet => (dhcp # "off") = config_data.use_dhcp4

\* While the BMC has a lease its gateway is the lease's.
LeaseKeepsGateway == Quiet /\ dhcp = "bound" => gateway = "lease"

\* The default address is there whenever there is no lease.
DefaultAddressWithoutLease ==
    Quiet /\ errors = 0 /\ dhcp # "bound" => Static = Configured

=============================================================================
