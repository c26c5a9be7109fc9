--------------------------- MODULE ServicesProofs ---------------------------
(***************************************************************************)
(* Proofs about the settings that act on running services, for any number  *)
(* of calls and of failures: what NTP, the clocks and the interface are    *)
(* once no call is running.                                                *)
(*                                                                         *)
(* CallInv says where a thread can be in a setter, and that before         *)
(* boot_finished there is only the main thread.  Each service has an       *)
(* invariant of its own that says what it is while a setter is at work on  *)
(* it; steps of the other settings leave it alone.                         *)
(***************************************************************************)
EXTENDS Services, TLAPS

-----------------------------------------------------------------------------
(* Calls.                                                                  *)

Items(name, values) == {[set |-> name, val |-> v] : v \in values}

Addresses == {"none", "a", "b"}
Netmasks == {"none", "m", "n"}
Gateways == {"none", "g"}

\* What the shell and the PATCH handlers set.
CallItem ==
    Items("hostname", {"h"}) \cup Items("use_dhcp4", BOOLEAN)
    \cup Items("ip4", Addresses \cup {"invalid"}) \cup Items("nm", Netmasks)
    \cup Items("gw", Gateways) \cup Items("use_ntp", BOOLEAN)
    \cup Items("ntp_server", {"q", "r"}) \cup Items("date_time", DateTimes)

\* What main has yet to initialise.
MainTodo ==
    {<<>>, <<[set |-> "ntp_init"]>>, <<[set |-> "init_dhcp"], [set |-> "ntp_init"]>>,
     <<[set |-> "init_ip"], [set |-> "init_dhcp"], [set |-> "ntp_init"]>>, BootCall}

Ip4Places == {"ip4", "gw", "rm", "add", "nm"}
StartPlaces == {"start", "init", "started"}
StopPlaces == {"stop", "cancel", "wait", "stopped"}

\* The places of a setter.
Placed(t) ==
    \/ pc[t] = "begin"
    \/ Cur(t).set \in {"ip4", "nm", "gw"} /\ pc[t] \in Ip4Places \cup {"write"}
    \/ Cur(t).set = "use_dhcp4" /\ pc[t] \in Ip4Places \cup {"switch", "write"}
    \/ Cur(t).set = "hostname" /\ pc[t] \in {"dhcp?", "restart", "write"}
    \/ Cur(t).set = "init_ip" /\ pc[t] \in Ip4Places
    \/ Cur(t).set = "init_dhcp" /\ pc[t] \in Ip4Places \cup {"want"}
    \/ Cur(t).set = "use_ntp" /\ pc[t] \in StartPlaces \cup StopPlaces \cup {"write"}
    \/ Cur(t).set = "ntp_server"
         /\ pc[t] \in StartPlaces \cup StopPlaces \cup {"copied", "write", "restart"}
    \/ Cur(t).set = "ntp_init" /\ pc[t] \in StartPlaces
    \/ Cur(t).set = "date_time" /\ pc[t] \in {"nsec", "rtc", "clock"}

ConfigInv ==
    /\ config_data = [use_dhcp4 |-> config_data.use_dhcp4, ip4 |-> config_data.ip4,
                      nm |-> config_data.nm, gw |-> config_data.gw,
                      use_ntp |-> config_data.use_ntp, ntp_server |-> config_data.ntp_server]
    /\ config_data.use_dhcp4 \in BOOLEAN /\ config_data.ip4 \in Addresses
    /\ config_data.nm \in Netmasks /\ config_data.gw \in Gateways
    /\ config_data.use_ntp \in BOOLEAN

\* Until boot_finished only main runs; without an overlap there is one call.
CallInv ==
    /\ DOMAIN todo = Threads /\ todo["main"] \in MainTodo
    /\ \A t \in Callers : todo[t] \in Seq(CallItem)
    /\ pc = [t \in Threads |-> pc[t]]
    /\ \A t \in Threads : (Busy(t) => Placed(t)) /\ (~Busy(t) => pc[t] = "begin")
    /\ boot_finished \in BOOLEAN /\ overlapped \in BOOLEAN /\ errors \in Nat
    /\ boot_finished => todo["main"] = <<>>
    /\ ~boot_finished => ~overlapped /\ \A t \in Callers : ~Busy(t)
    /\ ~overlapped => \A t, u \in Threads : Busy(t) /\ Busy(u) => t = u

-----------------------------------------------------------------------------
(* NTP.                                                                    *)

Starting(t) == Busy(t) /\ pc[t] \in StartPlaces
Stopping(t) == Busy(t) /\ pc[t] \in StopPlaces

\* The places of the setter of the server before the handler is known to be idle.
Renaming(t) ==
    Busy(t) /\ Cur(t).set = "ntp_server"
      /\ pc[t] \in {"copied", "write", "restart", "stop", "cancel", "wait"}

NtpInv ==
    /\ work \in {"idle", "scheduled", "running"}
    /\ ntp_started \in BOOLEAN
    /\ ~overlapped =>
         /\ ~corrupt
         /\ sync # "none" => work = "running"
         /\ \A t \in Threads :
              /\ Starting(t) => ~ntp_started /\ config_data.use_ntp
              /\ Stopping(t) => ntp_started /\ config_data.use_ntp = (Cur(t).set = "ntp_server")
              /\ Stopping(t) /\ pc[t] = "wait" => work # "scheduled"
              /\ Stopping(t) /\ pc[t] = "stopped" => work = "idle"
         /\ (\A t \in Threads : ~Starting(t) /\ ~Stopping(t)) =>
              ntp_started = (config_data.use_ntp /\ boot_finished)
         /\ ~ntp_started /\ (\A t \in Threads : ~(Starting(t) /\ pc[t] = "started")) =>
              work = "idle" /\ ntp_interval_sec \in {1, 20}
         /\ errors = 0 /\ work = "running" /\ (\A t \in Threads : ~Renaming(t)) =>
              asked = config_data.ntp_server

-----------------------------------------------------------------------------
(* The clocks.                                                             *)

\* rtc_init has returned.
ClockReady == boot_finished \/ (Busy("main") /\ Cur("main").set # "rtc_init")

RtcInv ==
    /\ sync \in {"none", "rtc", "done"} /\ apart \in BOOLEAN
    /\ sync = "rtc" => has_rtc
    /\ Busy("main") /\ Cur("main").set = "rtc_init" =>
         rtc \in {<<Unset, Unset>>, <<BootTime, BootTime>>}
    /\ ~apart =>
         /\ sync # "none" => \A t \in Callers : ~Setting(t)
         /\ \A t, u \in Callers : Setting(t) /\ Setting(u) => t = u
         /\ \A t \in Callers :
              /\ At(t, {"date_time"}, "nsec") => tm[1] = Asked(t)
              /\ At(t, {"date_time"}, "rtc") => tm = <<Asked(t), Asked(t)>>
              /\ At(t, {"date_time"}, "clock") => rtc = <<Asked(t), Asked(t)>>
         /\ sync = "rtc" => tm = <<NtpTime, NtpTime>> /\ sys_clock = NtpTime
         /\ has_rtc /\ ClockReady /\ (sync = "done" \/ ~Disturbed) =>
              rtc = <<sys_clock, sys_clock>>

-----------------------------------------------------------------------------
(* The interface.                                                          *)

Applying(t) == Busy(t) /\ pc[t] \in Ip4Places
Switching(t) == Busy(t) /\ Cur(t).set = "use_dhcp4" /\ pc[t] = "switch"

\* net_init has returned.
NetReady == boot_finished \/ (Busy("main") /\ Cur("main").set = "ntp_init")
MainAt(set, place) == Busy("main") /\ Cur("main").set = set /\ pc["main"] = place

\* The client has a lease exactly if a slot does, and one slot only.
SlotInv ==
    ~overlapped /\ errors = 0 =>
        /\ dhcp \in {"off", "selecting", "bound"}
        /\ DOMAIN unicast = Slots
        /\ \A i \in Slots :
             \/ unicast[i] \in {Unused, Lease}
             \/ \E a \in Addresses \ {"none"}, n \in Netmasks :
                   unicast[i] = [type |-> "OVERRIDABLE", addr |-> a, nm |-> n]
        /\ \E i \in Slots : unicast[i] # Lease
        /\ dhcp = "bound" <=> \E i \in Slots : unicast[i] = Lease
        /\ DOMAIN ip4 = Threads

DhcpInv ==
    ~overlapped =>
        /\ \A t \in Threads : Switching(t) =>
              /\ config_data.use_dhcp4 = Cur(t).val /\ (dhcp # "off") = ~config_data.use_dhcp4
        /\ NetReady /\ (\A t \in Threads : ~Switching(t)) =>
              (dhcp # "off") = config_data.use_dhcp4
        /\ \A t \in Threads : Busy(t) /\ Cur(t).set = "hostname" /\ pc[t] = "restart" =>
              config_data.use_dhcp4
        /\ ~NetReady /\ Busy("main") /\ ~MainAt("init_dhcp", "want") => dhcp = "off"
        /\ MainAt("init_dhcp", "want") => dhcp # "off"
        /\ Busy("main") /\ Cur("main").set = "init_dhcp" /\ pc["main"] \in Ip4Places =>
              ~config_data.use_dhcp4

IsStatic(i) == unicast[i].type = "OVERRIDABLE"

AddrInv ==
    ~overlapped /\ errors = 0 =>
        /\ \E i \in Slots : ~IsStatic(i)
        /\ \A t \in Threads : Applying(t) /\ pc[t] # "ip4" =>
              ip4[t] = [addr |-> config_data.ip4, nm |-> config_data.nm, gw |-> config_data.gw]
        /\ \A t \in Threads : Applying(t) /\ pc[t] \in {"rm", "add", "nm"} /\ dhcp = "off" =>
              gateway = config_data.gw
        /\ \A t \in Threads : Applying(t) /\ pc[t] = "add" => \A i \in Slots : ~IsStatic(i)
        /\ \A t \in Threads : Applying(t) /\ pc[t] = "nm" =>
              /\ config_data.ip4 # "none"
              /\ \A i \in Slots : IsStatic(i) => unicast[i].addr = config_data.ip4
              /\ dhcp = "off" => \E i \in Slots : IsStatic(i)
        /\ (\A t \in Threads : ~Applying(t)) =>
              \A i \in Slots : IsStatic(i) => unicast[i] \in Configured
        /\ (\A t \in Threads : ~Applying(t)) /\ NetReady /\ dhcp = "off" =>
              /\ gateway = config_data.gw
              /\ config_data.ip4 # "none" => \E i \in Slots : IsStatic(i)

IndInv == ConfigInv /\ CallInv /\ NtpInv /\ RtcInv /\ SlotInv /\ DhcpInv /\ AddrInv

-----------------------------------------------------------------------------
(* How a step moves the threads.                                           *)

\* Every thread but t stays where it is.
Others(t) ==
    \A u \in Threads \ {t} :
        (Busy(u)' <=> Busy(u)) /\ Cur(u)' = Cur(u) /\ pc'[u] = pc[u]

\* Main goes through its call in order, and gives up on a failure.
MainMoves(ok) ==
    /\ ~ok => ~Busy("main")'
    /\ ok /\ Cur("main").set = "rtc_init" => Busy("main")' /\ Cur("main")'.set = "init_ip"
    /\ ok /\ Cur("main").set = "init_ip" => Busy("main")' /\ Cur("main")'.set = "init_dhcp"
    /\ ok /\ Cur("main").set = "init_dhcp" => Busy("main")' /\ Cur("main")'.set = "ntp_init"
    /\ ok /\ Cur("main").set = "ntp_init" => ~Busy("main")' /\ boot_finished'

\* A thread goes on in its setter (config.c).
LEMMA GotoMoves ==
    ASSUME CallInv, NEW t \in Threads, NEW p, Busy(t), Goto(t, p)
    PROVE  /\ Others(t) /\ pc'[t] = p /\ Busy(t)' /\ Cur(t)' = Cur(t)
           /\ boot_finished' = boot_finished /\ overlapped' = overlapped
           /\ Placed(t)' /\ errors' \in Nat => CallInv'
  <1> USE DEF Goto, CallInv
  <1>1. /\ todo' = todo /\ pc' = [pc EXCEPT ![t] = p]
        /\ boot_finished' = boot_finished /\ overlapped' = overlapped
    OBVIOUS
  <1>2. pc'[t] = p /\ \A u \in Threads \ {t} : pc'[u] = pc[u]
    BY <1>1
  <1>3. \A u \in Threads : (Busy(u)' <=> Busy(u)) /\ Cur(u)' = Cur(u)
    BY <1>1 DEF Busy, Cur
  <1>4. ASSUME Placed(t)', errors' \in Nat
        PROVE  CallInv'
    <2>1. \A u \in Threads : (Busy(u)' => Placed(u)') /\ (~Busy(u)' => pc'[u] = "begin")
      <3> SUFFICES ASSUME NEW u \in Threads
                   PROVE  (Busy(u)' => Placed(u)') /\ (~Busy(u)' => pc'[u] = "begin")
        OBVIOUS
      <3>1. CASE u = t
        BY <3>1, <1>3, <1>4
      <3>2. CASE u # t
        <4>1. Busy(u) => Placed(u)'
          BY <3>2, <1>2, <1>3 DEF Placed
        <4> QED
          BY <3>2, <1>2, <1>3, <4>1
      <3> QED
        BY <3>1, <3>2
    <2>2. pc' = [u \in Threads |-> pc'[u]]
      BY <1>1
    <2> QED
      BY <2>1, <2>2, <1>1, <1>3, <1>4 DEF Callers, Threads
  <1> QED
    BY <1>1, <1>2, <1>3, <1>4 DEF Others

\* What main has left after a step of its call (main.c:198-231, net.c:142-188).
LEMMA MainTail ==
    ASSUME NEW s \in MainTodo, s # <<>>
    PROVE  /\ Tail(s) \in MainTodo
           /\ Head(s).set \in {"rtc_init", "init_ip", "init_dhcp", "ntp_init"}
           /\ Len(s) = 1 <=> Head(s).set = "ntp_init"
           /\ Tail(s) = <<>> <=> Head(s).set = "ntp_init"
           /\ Head(s).set = "rtc_init" => Head(Tail(s)).set = "init_ip"
           /\ Head(s).set = "init_ip" => Head(Tail(s)).set = "init_dhcp"
           /\ Head(s).set = "init_dhcp" => Head(Tail(s)).set = "ntp_init"
  <1> DEFINE r == [set |-> "rtc_init"]
             i == [set |-> "init_ip"]
             d == [set |-> "init_dhcp"]
             n == [set |-> "ntp_init"]
             S == {r, i, d, n}
  <1>1. r.set = "rtc_init" /\ i.set = "init_ip" /\ d.set = "init_dhcp" /\ n.set = "ntp_init"
    OBVIOUS
  <1>2. MainTodo = {<<>>, <<n>>, <<d, n>>, <<i, d, n>>, <<r, i, d, n>>}
    BY DEF MainTodo, BootCall
  <1> HIDE DEF r, i, d, n
  <1>3. /\ Tail(<<n>>) = <<>> /\ Tail(<<d, n>>) = <<n>> /\ Tail(<<i, d, n>>) = <<d, n>>
        /\ Tail(<<r, i, d, n>>) = <<i, d, n>>
    OBVIOUS
  <1>4. /\ Head(<<n>>) = n /\ Head(<<d, n>>) = d /\ Head(<<i, d, n>>) = i
        /\ Head(<<r, i, d, n>>) = r
    OBVIOUS
  <1>5. /\ Len(<<n>>) = 1 /\ Len(<<d, n>>) = 2 /\ Len(<<i, d, n>>) = 3
        /\ Len(<<r, i, d, n>>) = 4
    OBVIOUS
  <1>6. <<n>> # <<>> /\ <<d, n>> # <<>> /\ <<i, d, n>> # <<>>
    OBVIOUS
  <1>7. CASE s = <<n>>
    BY <1>1, <1>2, <1>3, <1>4, <1>5, <1>7
  <1>8. CASE s = <<d, n>>
    BY <1>1, <1>2, <1>3, <1>4, <1>5, <1>6, <1>8
  <1>9. CASE s = <<i, d, n>>
    BY <1>1, <1>2, <1>3, <1>4, <1>5, <1>6, <1>9
  <1>10. CASE s = <<r, i, d, n>>
    BY <1>1, <1>2, <1>3, <1>4, <1>5, <1>6, <1>10
  <1> QED
    BY <1>2, <1>7, <1>8, <1>9, <1>10

\* A setter returns, and the call goes on with the next one or ends (config.c,
\* redfish.c, main.c).
LEMMA ReturnMoves ==
    ASSUME CallInv, NEW t \in Threads, NEW ok \in BOOLEAN, Busy(t), Return(t, ok),
           errors' \in Nat
    PROVE  /\ Others(t) /\ pc'[t] = "begin" /\ CallInv'
           /\ overlapped' = overlapped
           /\ ~(t = "main" /\ ok /\ Cur(t).set = "ntp_init") => boot_finished' = boot_finished
           /\ t = "main" => MainMoves(ok)
  <1> USE DEF Return, CallInv
  <1> DEFINE rest == IF ok \/ Cur(t).set \in Ignored THEN Tail(todo[t]) ELSE <<>>
  <1>1. /\ todo' = [todo EXCEPT ![t] = rest] /\ pc' = [pc EXCEPT ![t] = "begin"]
        /\ overlapped' = overlapped
        /\ boot_finished' = (boot_finished \/ (t = "main" /\ ok /\ Len(todo[t]) = 1))
    OBVIOUS
  <1>2. rest \in {<<>>, Tail(todo[t])}
    OBVIOUS
  <1>2a. t = "main" => (rest = IF ok THEN Tail(todo[t]) ELSE <<>>)
    BY MainTail DEF Cur, Ignored, Busy
  <1> HIDE DEF rest
  <1>3. pc'[t] = "begin" /\ todo'[t] = rest
        /\ \A u \in Threads \ {t} : pc'[u] = pc[u] /\ todo'[u] = todo[u]
    BY <1>1
  <1>4. \A u \in Threads \ {t} : (Busy(u)' <=> Busy(u)) /\ Cur(u)' = Cur(u)
    BY <1>3 DEF Busy, Cur
  <1>5. t = "main" => MainMoves(ok) /\ rest \in MainTodo
    <2> SUFFICES ASSUME t = "main" PROVE MainMoves(ok) /\ rest \in MainTodo
      OBVIOUS
    <2>1. todo["main"] \in MainTodo /\ todo["main"] # <<>>
      BY DEF Busy
    <2>2. CASE ok
      <3>1. todo'["main"] = Tail(todo["main"]) /\ rest = Tail(todo["main"])
        BY <2>2, <1>2a, <1>3
      <3> QED
        BY <2>1, <2>2, <3>1, <1>1, MainTail DEF MainMoves, Busy, Cur
    <2>3. CASE ~ok
      <3>1. todo'["main"] = <<>> /\ rest = <<>>
        BY <2>3, <1>2a, <1>3
      <3> QED
        BY <2>3, <3>1 DEF MainMoves, Busy, MainTodo
    <2> QED
      BY <2>2, <2>3
  <1>6. /\ ~(t = "main" /\ ok /\ Cur(t).set = "ntp_init") => boot_finished' = boot_finished
        /\ boot_finished' \in BOOLEAN /\ boot_finished => boot_finished'
        /\ boot_finished' /\ ~boot_finished => t = "main" /\ ~Busy("main")'
    <2>1. t = "main" => (Len(todo[t]) = 1 <=> Cur(t).set = "ntp_init")
      BY MainTail DEF Busy, Cur
    <2> QED
      BY <2>1, <1>1, <1>5 DEF MainMoves
  <1>7. CallInv'
    <2>1. \A u \in Threads : (Busy(u)' => Placed(u)') /\ (~Busy(u)' => pc'[u] = "begin")
      BY <1>3, <1>4 DEF Placed
    <2>2. pc' = [u \in Threads |-> pc'[u]] /\ DOMAIN todo' = Threads
      BY <1>1
    <2>3. todo'["main"] \in MainTodo
      BY <1>3, <1>5 DEF Threads
    <2>4. \A u \in Callers : todo'[u] \in Seq(CallItem)
      <3> SUFFICES ASSUME NEW u \in Callers PROVE todo'[u] \in Seq(CallItem)
        OBVIOUS
      <3>1. u \in Threads /\ todo[u] \in Seq(CallItem)
        BY DEF Threads
      <3>2. CASE u = t
        BY <3>1, <3>2, <1>2, <1>3 DEF Busy
      <3>3. CASE u # t
        BY <3>1, <3>3, <1>3
      <3> QED
        BY <3>2, <3>3
    <2>5. \A u \in Threads : Busy(u)' => Busy(u)
      BY <1>4
    <2>6. boot_finished' => todo'["main"] = <<>>
      BY <1>3, <1>4, <1>6 DEF Busy, Threads
    <2> QED
      BY <2>1, <2>2, <2>3, <2>4, <2>5, <2>6, <1>1, <1>6 DEF Callers, Threads
  <1> QED
    BY <1>1, <1>3, <1>4, <1>5, <1>6, <1>7 DEF Others

\* A call begins (redfish.c, shell commands).
LEMMA CallMoves ==
    ASSUME CallInv, NEW t \in Callers, NEW c \in Seq(CallItem), Call(t, c)
    PROVE  /\ Others(t) /\ pc' = pc /\ pc[t] = "begin" /\ CallInv'
           /\ boot_finished' = boot_finished /\ boot_finished
           /\ overlapped => overlapped'
           /\ ~overlapped' => \A u \in Threads : ~Busy(u)
  <1> USE DEF Call, CallInv
  <1>1. /\ todo' = [todo EXCEPT ![t] = c] /\ pc' = pc /\ t \in Threads /\ t # "main"
        /\ overlapped' = (overlapped \/ \E u \in Threads : Busy(u))
        /\ boot_finished' = boot_finished /\ boot_finished /\ errors' = errors
        /\ ~Busy(t)
    BY DEF Callers, Threads
  <1>2. todo'[t] = c /\ \A u \in Threads \ {t} : todo'[u] = todo[u]
    BY <1>1
  <1>3. \A u \in Threads \ {t} : (Busy(u)' <=> Busy(u)) /\ Cur(u)' = Cur(u)
    BY <1>2 DEF Busy, Cur
  <1>4. \A u \in Threads : (Busy(u)' => Placed(u)') /\ (~Busy(u)' => pc'[u] = "begin")
    <2> SUFFICES ASSUME NEW u \in Threads
                 PROVE  (Busy(u)' => Placed(u)') /\ (~Busy(u)' => pc'[u] = "begin")
      OBVIOUS
    <2>1. CASE u = t
      BY <2>1, <1>1 DEF Placed
    <2>2. CASE u # t
      <3>1. Placed(u) => Placed(u)'
        BY <2>2, <1>1, <1>3 DEF Placed
      <3> QED
        BY <2>2, <3>1, <1>1, <1>3
    <2> QED
      BY <2>1, <2>2
  <1>5. overlapped' \in BOOLEAN /\ (overlapped => overlapped')
        /\ (~overlapped' => \A u \in Threads : ~Busy(u))
    BY <1>1
  <1>6. todo'["main"] = todo["main"] /\ \A u \in Callers : todo'[u] \in Seq(CallItem)
    <2>1. "main" \in Threads \ {t} /\ \A u \in Callers : u \in Threads
      BY <1>1 DEF Threads
    <2> QED
      BY <2>1, <1>2
  <1>7. DOMAIN todo' = Threads /\ pc' = [u \in Threads |-> pc'[u]]
    BY <1>1
  <1>8. ~overlapped' => \A u, v \in Threads : Busy(u)' /\ Busy(v)' => u = v
    BY <1>3, <1>5
  <1> QED
    BY <1>1, <1>3, <1>4, <1>5, <1>6, <1>7, <1>8 DEF Others

\* The calls of the shell and of the PATCH handlers are sequences of settings.
LEMMA CallsAreItems ==
    ASSUME NEW c \in ShellCalls \cup ethernet_patch_handler
                        \cup network_protocol_patch_handler \cup manager_patch_handler
    PROVE  c \in Seq(CallItem)
  <1>1. \A name, values, more : values \subseteq more /\ Items(name, more) \subseteq CallItem =>
            \A x \in Set(name, values) : x \in Seq(CallItem)
    <2> SUFFICES ASSUME NEW name, NEW values, NEW more, values \subseteq more,
                        Items(name, more) \subseteq CallItem, NEW x \in Set(name, values)
                 PROVE  x \in Seq(CallItem)
      OBVIOUS
    <2>1. PICK v \in values : x = <<[set |-> name, val |-> v]>>
      BY DEF Set
    <2>2. [set |-> name, val |-> v] \in CallItem
      BY DEF Items
    <2> QED
      BY <2>1, <2>2
  <1>2. /\ Items("hostname", {"h"}) \subseteq CallItem
        /\ Items("use_dhcp4", BOOLEAN) \subseteq CallItem
        /\ Items("ip4", Addresses \cup {"invalid"}) \subseteq CallItem
        /\ Items("nm", Netmasks) \subseteq CallItem
        /\ Items("gw", Gateways) \subseteq CallItem
        /\ Items("use_ntp", BOOLEAN) \subseteq CallItem
        /\ Items("ntp_server", {"q", "r"}) \subseteq CallItem
        /\ Items("date_time", DateTimes) \subseteq CallItem
    BY DEF CallItem
  <1>3. /\ {"h"} \subseteq {"h"} /\ BOOLEAN \subseteq BOOLEAN
        /\ {"b", "invalid"} \subseteq Addresses \cup {"invalid"}
        /\ {"n"} \subseteq Netmasks /\ {"none"} \subseteq Gateways
        /\ {"r"} \subseteq {"q", "r"} /\ {"q"} \subseteq {"q", "r"}
        /\ DateTimes \subseteq DateTimes
    BY DEF Addresses, Netmasks, Gateways
  <1>4. /\ \A x \in Set("hostname", {"h"}) : x \in Seq(CallItem)
        /\ \A x \in Set("use_dhcp4", BOOLEAN) : x \in Seq(CallItem)
        /\ \A x \in Set("ip4", {"b", "invalid"}) : x \in Seq(CallItem)
        /\ \A x \in Set("nm", {"n"}) : x \in Seq(CallItem)
        /\ \A x \in Set("gw", {"none"}) : x \in Seq(CallItem)
        /\ \A x \in Set("use_ntp", BOOLEAN) : x \in Seq(CallItem)
        /\ \A x \in Set("ntp_server", {"r"}) : x \in Seq(CallItem)
        /\ \A x \in Set("ntp_server", {"q"}) : x \in Seq(CallItem)
        /\ \A x \in Set("date_time", DateTimes) : x \in Seq(CallItem)
    BY <1>1, <1>2, <1>3
  <1>5. \A a \in Addresses, n \in Netmasks, g \in Gateways : StaticAddress(a, n, g) \in Seq(CallItem)
    <2> TAKE a \in Addresses, n \in Netmasks, g \in Gateways
    <2>1. /\ [set |-> "ip4", val |-> a] \in CallItem /\ [set |-> "nm", val |-> n] \in CallItem
          /\ [set |-> "gw", val |-> g] \in CallItem
      BY <1>2 DEF Items
    <2> QED
      BY <2>1 DEF StaticAddress
  <1>6. \A x, y \in Seq(CallItem) : x \o y \in Seq(CallItem)
    OBVIOUS
  <1>7. <<>> \in Seq(CallItem)
    OBVIOUS
  <1>8. CASE c \in ShellCalls
    BY <1>4, <1>8 DEF ShellCalls
  <1>9. CASE c \in ethernet_patch_handler
    <2>1. PICK h \in Opt(Set("hostname", {"h"})), d \in Opt(Set("use_dhcp4", BOOLEAN)),
               a \in {<<>>, StaticAddress("a", "m", "g"), StaticAddress("none", "none", "none")} :
               c = h \o d \o a
      BY <1>9 DEF ethernet_patch_handler
    <2>2. h \in Seq(CallItem) /\ d \in Seq(CallItem)
      BY <1>4, <1>7 DEF Opt
    <2>3. a \in Seq(CallItem)
      BY <1>5, <1>7 DEF Addresses, Netmasks, Gateways
    <2>4. h \o d \in Seq(CallItem)
      BY <2>2, <1>6
    <2> QED
      BY <2>1, <2>3, <2>4, <1>6
  <1>10. CASE c \in network_protocol_patch_handler
    <2>1. PICK a \in Opt(Set("ntp_server", {"q"})), u \in Opt(Set("use_ntp", BOOLEAN)) :
               c = a \o u
      BY <1>10 DEF network_protocol_patch_handler
    <2>2. a \in Seq(CallItem) /\ u \in Seq(CallItem)
      BY <1>4, <1>7 DEF Opt
    <2> QED
      BY <2>1, <2>2, <1>6
  <1>11. CASE c \in manager_patch_handler
    BY <1>4, <1>11 DEF manager_patch_handler
  <1> QED
    BY <1>8, <1>9, <1>10, <1>11

\* Who applies which setting, and with which values.
LEMMA ItemFacts ==
    ASSUME CallInv, NEW t \in Threads, Busy(t)
    PROVE  /\ Placed(t)
           /\ t = "main" => Cur(t).set \in {"rtc_init", "init_ip", "init_dhcp", "ntp_init"}
           /\ t # "main" => Cur(t).set \in {"hostname", "use_dhcp4", "ip4", "nm", "gw", "use_ntp",
                                            "ntp_server", "date_time"}
           /\ Cur(t).set \in {"use_dhcp4", "use_ntp"} => Cur(t).val \in BOOLEAN
           /\ Cur(t).set = "ip4" => Cur(t).val \in Addresses \cup {"invalid"}
           /\ Cur(t).set = "nm" => Cur(t).val \in Netmasks
           /\ Cur(t).set = "gw" => Cur(t).val \in Gateways
  <1>1. Placed(t)
    BY DEF CallInv
  <1>2. CASE t = "main"
    <2>1. Cur(t).set \in {"rtc_init", "init_ip", "init_dhcp", "ntp_init"}
      BY <1>2, MainTail DEF CallInv, Busy, Cur
    <2> QED
      BY <1>1, <1>2, <2>1
  <1>3. CASE t # "main"
    <2>1. Cur(t) \in CallItem
      BY <1>3 DEF CallInv, Busy, Cur, Threads
    <2>2. \A name, values : Cur(t) \in Items(name, values) =>
              Cur(t).set = name /\ Cur(t).val \in values
      BY DEF Items
    <2> HIDE DEF Items
    <2> QED
      BY <1>1, <1>3, <2>1, <2>2 DEF CallItem
  <1> QED
    BY <1>2, <1>3

\* Thread t takes a step of its setter, or returns from it.
Moved(t) ==
    /\ Busy(t) /\ Others(t) /\ overlapped' = overlapped
    /\ pc'[t] = "begin" \/ (Busy(t)' /\ Cur(t)' = Cur(t))

NetSets == {"ip4", "nm", "gw", "use_dhcp4", "hostname", "init_ip", "init_dhcp"}

\* What a step of a network setting leaves alone.
NetMoved(t) ==
    /\ Moved(t) /\ CallInv' /\ boot_finished' = boot_finished
    /\ Cur(t).set \in NetSets
    /\ errors' \in Nat /\ (errors' = 0 => errors = 0)
    /\ t = "main" /\ Busy("main")' =>
          Cur("main")'.set \in {"init_ip", "init_dhcp", "ntp_init"}

\* A network setting goes on.
LEMMA NetGoto ==
    ASSUME CallInv, NEW t \in Threads, NEW p, Busy(t), Goto(t, p), Cur(t).set \in NetSets,
           errors' \in Nat, errors' = 0 => errors = 0,
           \/ Cur(t).set \in {"ip4", "nm", "gw"} /\ p \in Ip4Places \cup {"write"}
           \/ Cur(t).set = "use_dhcp4" /\ p \in Ip4Places \cup {"switch", "write"}
           \/ Cur(t).set = "hostname" /\ p \in {"dhcp?", "restart", "write"}
           \/ Cur(t).set = "init_ip" /\ p \in Ip4Places
           \/ Cur(t).set = "init_dhcp" /\ p \in Ip4Places \cup {"want"}
    PROVE  NetMoved(t)
  <1>1. /\ Others(t) /\ pc'[t] = p /\ Busy(t)' /\ Cur(t)' = Cur(t)
        /\ boot_finished' = boot_finished /\ overlapped' = overlapped
        /\ Placed(t)' /\ errors' \in Nat => CallInv'
    BY GotoMoves
  <1>3. Placed(t)'
    BY <1>1 DEF Placed
  <1>4. t = "main" => Cur(t).set \in {"init_ip", "init_dhcp"}
    BY ItemFacts DEF NetSets
  <1> QED
    BY <1>1, <1>3, <1>4 DEF NetMoved, Moved

\* A network setting returns.
LEMMA NetReturn ==
    ASSUME CallInv, NEW t \in Threads, NEW ok \in BOOLEAN, Busy(t), Return(t, ok),
           Cur(t).set \in NetSets, errors' \in Nat, errors' = 0 => errors = 0
    PROVE  NetMoved(t)
  <1>1. /\ Others(t) /\ pc'[t] = "begin" /\ CallInv'
        /\ overlapped' = overlapped
        /\ ~(t = "main" /\ ok /\ Cur(t).set = "ntp_init") => boot_finished' = boot_finished
        /\ t = "main" => MainMoves(ok)
    BY ReturnMoves
  <1>2. Cur(t).set # "ntp_init"
    BY DEF NetSets
  <1>3. t = "main" => Cur(t).set \in {"init_ip", "init_dhcp"}
    BY ItemFacts DEF NetSets
  <1> QED
    BY <1>1, <1>2, <1>3 DEF NetMoved, Moved, MainMoves

\* net_do_set_default_ip4_from_config is done (net.c:99-112).
LEMMA AppliedMoves ==
    ASSUME CallInv, NEW t \in Threads, NEW ok \in BOOLEAN, Busy(t), pc[t] \in Ip4Places,
           Applied(t, ok), errors' \in Nat, errors' = 0 => errors = 0
    PROVE  NetMoved(t) /\ pc'[t] \in {"begin", "write"}
  <1>1. Cur(t).set \in {"ip4", "nm", "gw", "use_dhcp4", "init_ip", "init_dhcp"}
    BY ItemFacts DEF Placed, Ip4Places, StartPlaces, StopPlaces
  <1>2. Cur(t).set \in NetSets
    BY <1>1 DEF NetSets
  <1>3. CASE Return(t, TRUE) \/ Return(t, FALSE)
    <2>1. NetMoved(t)
      BY <1>2, <1>3, NetReturn
    <2>2. pc'[t] = "begin"
      BY <1>3, ReturnMoves
    <2> QED
      BY <2>1, <2>2
  <1>4. CASE Goto(t, "write") /\ Cur(t).set \notin {"init_ip", "init_dhcp"}
    <2>1. NetMoved(t)
      BY <1>1, <1>2, <1>4, NetGoto
    <2>2. pc'[t] = "write"
      BY <1>4, GotoMoves
    <2> QED
      BY <2>1, <2>2
  <1> QED
    BY <1>3, <1>4 DEF Applied

\* A step that applies the static address (net.c:46-112).
LEMMA Ip4Moves ==
    ASSUME CallInv, NEW t \in Threads, net_do_set_default_ip4(t)
    PROVE  NetMoved(t) /\ config_data' = config_data
  <1>1. errors \in Nat
    BY DEF CallInv
  <1>2. Busy(t) /\ pc[t] \in Ip4Places
    BY DEF net_do_set_default_ip4, ReadIp4, SetGateway, RemoveStatic, AddNothing, AddStatic,
           AddStaticError, SetNetmask, Ip4Places
  <1>3. Cur(t).set \in {"ip4", "nm", "gw", "use_dhcp4", "init_ip", "init_dhcp"}
    BY <1>2, ItemFacts DEF Placed, Ip4Places, StartPlaces, StopPlaces
  <1>4. \A p \in Ip4Places : Goto(t, p) /\ errors' = errors => NetMoved(t)
    <2> TAKE p \in Ip4Places
    <2> QED
      BY <1>1, <1>2, <1>3, NetGoto DEF NetSets
  <1>5. \A ok \in BOOLEAN : Applied(t, ok) /\ (errors' = errors \/ Fail) => NetMoved(t)
    <2> SUFFICES ASSUME NEW ok \in BOOLEAN, Applied(t, ok), errors' = errors \/ Fail
                 PROVE  NetMoved(t)
      OBVIOUS
    <2>1. errors' \in Nat /\ (errors' = 0 => errors = 0)
      BY <1>1 DEF Fail
    <2> QED
      BY <1>2, <2>1, AppliedMoves
  <1>6. {"gw", "rm", "add", "nm"} \subseteq Ip4Places
    BY DEF Ip4Places
  <1>7. HasAddr(ip4[t].addr) \in BOOLEAN
    BY DEF HasAddr
  <1>8. CASE ReadIp4(t)
    BY <1>4, <1>6, <1>8 DEF ReadIp4
  <1>9. CASE SetGateway(t)
    BY <1>4, <1>6, <1>9 DEF SetGateway
  <1>10. CASE RemoveStatic(t)
    BY <1>4, <1>6, <1>10 DEF RemoveStatic
  <1>11. CASE AddNothing(t)
    BY <1>5, <1>11 DEF AddNothing
  <1>12. CASE AddStatic(t)
    BY <1>4, <1>6, <1>12 DEF AddStatic
  <1>13. CASE AddStaticError(t)
    BY <1>5, <1>13 DEF AddStaticError
  <1>14. CASE SetNetmask(t)
    BY <1>5, <1>7, <1>14 DEF SetNetmask
  <1> QED
    BY <1>8, <1>9, <1>10, <1>11, <1>12, <1>13, <1>14 DEF net_do_set_default_ip4

\* Setting the host name (config.c:191-207, net.c:27-44).
LEMMA HostnameMoves ==
    ASSUME CallInv, NEW t \in Threads, config_bmc_hostname_set(t)
    PROVE  NetMoved(t) /\ config_data' = config_data
  <1>1. errors \in Nat
    BY DEF CallInv
  <1>2. Busy(t) /\ Cur(t).set = "hostname" /\ Cur(t).set \in NetSets
    BY DEF config_bmc_hostname_set, SetHostname, AskDhcp, restart_dhcp4, At, Busy, NetSets
  <1>3. \A p \in {"dhcp?", "restart", "write"} : Goto(t, p) /\ errors' = errors => NetMoved(t)
    <2> TAKE p \in {"dhcp?", "restart", "write"}
    <2> QED
      BY <1>1, <1>2, NetGoto
  <1>4. Fail /\ Return(t, FALSE) => NetMoved(t)
    <2> SUFFICES ASSUME Fail, Return(t, FALSE) PROVE NetMoved(t)
      OBVIOUS
    <2>1. errors' \in Nat /\ (errors' = 0 => errors = 0)
      BY <1>1 DEF Fail
    <2> QED
      BY <1>2, <2>1, NetReturn
  <1> QED
    BY <1>3, <1>4 DEF config_bmc_hostname_set, SetHostname, AskDhcp, restart_dhcp4

\* What a setter of the interface may do to the configuration.
NetConfig ==
    /\ ConfigInv' /\ config_data'.use_ntp = config_data.use_ntp
    /\ config_data'.ntp_server = config_data.ntp_server

\* Setting the address, the netmask or the gateway (config.c:267-348).
LEMMA DefaultIp4Moves ==
    ASSUME ConfigInv, CallInv, NEW t \in Threads, config_bmc_default_ip4_set(t)
    PROVE  NetMoved(t) /\ NetConfig
  <1>1. errors \in Nat /\ errors' = errors
    BY DEF CallInv, config_bmc_default_ip4_set
  <1>2. /\ Busy(t) /\ Cur(t).set \in {"ip4", "nm", "gw"} /\ Cur(t).set \in NetSets
    BY DEF config_bmc_default_ip4_set, At, Busy, NetSets
  <1>3. CASE Cur(t).val = "invalid"
    <2>1. NetMoved(t)
      BY <1>1, <1>2, <1>3, NetReturn DEF config_bmc_default_ip4_set
    <2> QED
      BY <1>3, <2>1 DEF config_bmc_default_ip4_set, NetConfig, ConfigInv
  <1>4. CASE Cur(t).val # "invalid"
    <2>1. Goto(t, "ip4") /\ config_data' = [config_data EXCEPT ![Cur(t).set] = Cur(t).val]
      BY <1>4 DEF config_bmc_default_ip4_set
    <2>2. NetMoved(t)
      BY <1>1, <1>2, <2>1, NetGoto DEF Ip4Places
    <2>3. /\ Cur(t).set = "ip4" => Cur(t).val \in Addresses
          /\ Cur(t).set = "nm" => Cur(t).val \in Netmasks
          /\ Cur(t).set = "gw" => Cur(t).val \in Gateways
      BY <1>2, <1>4, ItemFacts
    <2>4. NetConfig
      <3>1. CASE Cur(t).set = "ip4"
        <4>1. config_data' = [config_data EXCEPT !.ip4 = Cur(t).val]
          BY <2>1, <3>1
        <4> QED
          BY <4>1, <2>3, <3>1 DEF NetConfig, ConfigInv
      <3>2. CASE Cur(t).set = "nm"
        <4>1. config_data' = [config_data EXCEPT !.nm = Cur(t).val]
          BY <2>1, <3>2
        <4> QED
          BY <4>1, <2>3, <3>2 DEF NetConfig, ConfigInv
      <3>3. CASE Cur(t).set = "gw"
        <4>1. config_data' = [config_data EXCEPT !.gw = Cur(t).val]
          BY <2>1, <3>3
        <4> QED
          BY <4>1, <2>3, <3>3 DEF NetConfig, ConfigInv
      <3> QED
        BY <1>2, <3>1, <3>2, <3>3
    <2> QED
      BY <2>2, <2>4
  <1> QED
    BY <1>3, <1>4

\* Switching DHCP on or off (config.c:428-451).
LEMMA UseDhcpMoves ==
    ASSUME ConfigInv, CallInv, NEW t \in Threads, config_bmc_use_dhcp4_set(t)
    PROVE  NetMoved(t) /\ NetConfig
  <1>1. errors \in Nat /\ errors' = errors
    BY DEF CallInv, config_bmc_use_dhcp4_set, StoreUseDhcp, SwitchDhcp
  <1>2. /\ Busy(t) /\ Cur(t).set = "use_dhcp4" /\ Cur(t).set \in NetSets /\ Cur(t).val \in BOOLEAN
    <2>1. Busy(t) /\ Cur(t).set = "use_dhcp4"
      BY DEF config_bmc_use_dhcp4_set, StoreUseDhcp, SwitchDhcp, At, Busy
    <2> QED
      BY <2>1, ItemFacts DEF NetSets
  <1>3. \A p \in {"switch", "write", "ip4"} : Goto(t, p) => NetMoved(t)
    <2> TAKE p \in {"switch", "write", "ip4"}
    <2> QED
      BY <1>1, <1>2, NetGoto DEF Ip4Places
  <1>4. Return(t, TRUE) => NetMoved(t)
    BY <1>1, <1>2, NetReturn
  <1>5. config_data' = config_data => NetConfig
    BY DEF NetConfig, ConfigInv
  <1>6. CASE StoreUseDhcp(t)
    <2>1. CASE config_data.use_dhcp4 = Cur(t).val
      BY <1>4, <1>5, <1>6, <2>1 DEF StoreUseDhcp
    <2>2. CASE config_data.use_dhcp4 # Cur(t).val
      <3>1. config_data' = [config_data EXCEPT !.use_dhcp4 = Cur(t).val] /\ Goto(t, "switch")
        BY <1>6, <2>2 DEF StoreUseDhcp
      <3>2. NetConfig
        BY <3>1, <1>2 DEF NetConfig, ConfigInv
      <3> QED
        BY <1>3, <3>1, <3>2
    <2> QED
      BY <2>1, <2>2
  <1>7. CASE SwitchDhcp(t)
    BY <1>3, <1>5, <1>7 DEF SwitchDhcp
  <1> QED
    BY <1>6, <1>7 DEF config_bmc_use_dhcp4_set

\* net_init (net.c:142-188).
LEMMA NetInitMoves ==
    ASSUME CallInv, net_init
    PROVE  NetMoved("main") /\ config_data' = config_data
  <1>1. errors \in Nat /\ "main" \in Threads
    BY DEF CallInv, Threads
  <1>2. CASE init_ip
    <2>1. Busy("main") /\ Cur("main").set = "init_ip" /\ Cur("main").set \in NetSets
      BY <1>2 DEF init_ip, At, Busy, NetSets
    <2>2. Return("main", TRUE) \/ Goto("main", "ip4")
      BY <1>2 DEF init_ip
    <2>3. errors' = errors /\ config_data' = config_data
      BY <1>2 DEF init_ip
    <2>4. CASE Return("main", TRUE)
      BY <1>1, <2>1, <2>3, <2>4, NetReturn
    <2>5. CASE Goto("main", "ip4")
      BY <1>1, <2>1, <2>3, <2>5, NetGoto DEF Ip4Places
    <2> QED
      BY <2>2, <2>3, <2>4, <2>5
  <1>3. CASE net_config_init_app \/ StopUnwanted
    <2>1. Busy("main") /\ Cur("main").set = "init_dhcp" /\ Cur("main").set \in NetSets
      BY <1>3 DEF net_config_init_app, StopUnwanted, At, Busy, NetSets
    <2>2. /\ \/ Goto("main", "want") \/ Goto("main", "ip4")
             \/ Return("main", TRUE) \/ Return("main", FALSE)
          /\ errors' \in {errors, errors + 1}
          /\ config_data' = config_data
      BY <1>3 DEF net_config_init_app, StopUnwanted, Fail
    <2>3. errors' \in Nat /\ (errors' = 0 => errors = 0)
      BY <1>1, <2>2
    <2>4. CASE Goto("main", "want")
      BY <1>1, <2>1, <2>2, <2>3, <2>4, NetGoto
    <2>5. CASE Goto("main", "ip4")
      BY <1>1, <2>1, <2>2, <2>3, <2>5, NetGoto DEF Ip4Places
    <2>6. CASE Return("main", TRUE) \/ Return("main", FALSE)
      BY <1>1, <2>1, <2>2, <2>3, <2>6, NetReturn
    <2> QED
      BY <2>2, <2>4, <2>5, <2>6
  <1> QED
    BY <1>2, <1>3 DEF net_init

\* Every step of a network setting.
LEMMA NetStepMoves ==
    ASSUME ConfigInv, CallInv, NEW t \in Threads, NetSteps(t) \/ (t = "main" /\ net_init)
    PROVE  NetMoved(t) /\ NetConfig
  <1>1. config_data' = config_data => NetConfig
    BY DEF NetConfig, ConfigInv
  <1> QED
    BY <1>1, Ip4Moves, HostnameMoves, DefaultIp4Moves, UseDhcpMoves, NetInitMoves DEF NetSteps

TimeSets == {"use_ntp", "ntp_server", "ntp_init", "date_time", "rtc_init"}

\* What a step of a setting of NTP or of the clocks leaves alone.
TimeMoved(t) ==
    /\ Moved(t) /\ CallInv' /\ Cur(t).set \in TimeSets
    /\ errors' \in Nat /\ (errors' = 0 => errors = 0)
    /\ NetReady' <=> NetReady

\* A setting of NTP or of the clocks goes on.
LEMMA TimeGoto ==
    ASSUME CallInv, NEW t \in Threads, NEW p, Busy(t), Goto(t, p), Cur(t).set \in TimeSets,
           errors' = errors,
           \/ Cur(t).set = "use_ntp" /\ p \in StartPlaces \cup StopPlaces \cup {"write"}
           \/ Cur(t).set = "ntp_server"
                /\ p \in StartPlaces \cup StopPlaces \cup {"copied", "write", "restart"}
           \/ Cur(t).set = "ntp_init" /\ p \in StartPlaces
           \/ Cur(t).set = "date_time" /\ p \in {"nsec", "rtc", "clock"}
    PROVE  TimeMoved(t)
  <1>1. /\ Others(t) /\ pc'[t] = p /\ Busy(t)' /\ Cur(t)' = Cur(t)
        /\ boot_finished' = boot_finished /\ overlapped' = overlapped
        /\ Placed(t)' /\ errors' \in Nat => CallInv'
    BY GotoMoves
  <1>2. errors' \in Nat /\ (errors' = 0 => errors = 0)
    BY DEF CallInv
  <1>3. Placed(t)'
    BY <1>1 DEF Placed
  <1>4. NetReady' <=> NetReady
    BY <1>1 DEF NetReady, Others, Threads
  <1> QED
    BY <1>1, <1>2, <1>3, <1>4 DEF TimeMoved, Moved

\* A setting of NTP or of the clocks returns; ntp_init does not fail.
LEMMA TimeReturn ==
    ASSUME CallInv, NEW t \in Threads, NEW ok \in BOOLEAN, Busy(t), Return(t, ok),
           Cur(t).set \in TimeSets, errors' \in Nat, errors' = 0 => errors = 0,
           Cur(t).set = "ntp_init" => ok
    PROVE  TimeMoved(t)
  <1>1. /\ Others(t) /\ pc'[t] = "begin" /\ CallInv'
        /\ overlapped' = overlapped
        /\ ~(t = "main" /\ ok /\ Cur(t).set = "ntp_init") => boot_finished' = boot_finished
        /\ t = "main" => MainMoves(ok)
    BY ReturnMoves
  <1>2. NetReady' <=> NetReady
    <2>1. CASE t # "main"
      BY <1>1, <2>1 DEF NetReady, Others, Threads
    <2>2. CASE t = "main"
      <3>1. Cur("main").set \in {"rtc_init", "ntp_init"}
        BY <2>2, ItemFacts DEF TimeSets
      <3>2. CASE Cur("main").set = "ntp_init"
        BY <1>1, <2>2, <3>2 DEF NetReady, MainMoves
      <3>3. CASE Cur("main").set = "rtc_init"
        BY <1>1, <2>2, <3>3 DEF NetReady, MainMoves
      <3> QED
        BY <3>1, <3>2, <3>3
    <2> QED
      BY <2>1, <2>2
  <1> QED
    BY <1>1, <1>2 DEF TimeMoved, Moved

\* What a setter of NTP or of the clocks may do to the configuration.
TimeConfig ==
    /\ ConfigInv' /\ config_data'.use_dhcp4 = config_data.use_dhcp4
    /\ config_data'.ip4 = config_data.ip4 /\ config_data'.nm = config_data.nm
    /\ config_data'.gw = config_data.gw

\* start_ntp and stop_ntp (ntp.c:152-180).
LEMMA StartStopMoves ==
    ASSUME CallInv, NEW t \in Threads, start_ntp(t) \/ stop_ntp(t)
    PROVE  TimeMoved(t) /\ config_data' = config_data /\ errors' = errors
  <1>1. errors \in Nat /\ errors' = errors /\ config_data' = config_data
    BY DEF CallInv, start_ntp, stop_ntp, StartCheck, StartWork, StartEnd, StopCheck, Cancel,
           Cancelled, StopEnd
  <1>2. CASE start_ntp(t)
    <2>1. Busy(t) /\ pc[t] \in StartPlaces
      BY <1>2 DEF start_ntp, StartCheck, StartWork, StartEnd, StartPlaces
    <2>2. Cur(t).set \in {"use_ntp", "ntp_server", "ntp_init"}
      BY <2>1, ItemFacts DEF Placed, Ip4Places, StartPlaces, StopPlaces
    <2>3. \/ Goto(t, "init") \/ Goto(t, "started") \/ Return(t, TRUE)
          \/ Cur(t).set = "use_ntp" /\ Goto(t, "write")
      BY <1>2 DEF start_ntp, StartCheck, StartWork, StartEnd, AfterStart
    <2>4. CASE Goto(t, "init")
      BY <1>1, <2>1, <2>2, <2>4, TimeGoto DEF TimeSets, StartPlaces
    <2>5. CASE Goto(t, "started")
      BY <1>1, <2>1, <2>2, <2>5, TimeGoto DEF TimeSets, StartPlaces
    <2>6. CASE Return(t, TRUE)
      BY <1>1, <2>1, <2>2, <2>6, TimeReturn DEF TimeSets
    <2>7. CASE Cur(t).set = "use_ntp" /\ Goto(t, "write")
      BY <1>1, <2>1, <2>7, TimeGoto DEF TimeSets
    <2> QED
      BY <2>3, <2>4, <2>5, <2>6, <2>7
  <1>3. CASE stop_ntp(t)
    <2>1. Busy(t) /\ pc[t] \in StopPlaces
      BY <1>3 DEF stop_ntp, StopCheck, Cancel, Cancelled, StopEnd, StopPlaces
    <2>2. Cur(t).set \in {"use_ntp", "ntp_server"}
      BY <2>1, ItemFacts DEF Placed, Ip4Places, StartPlaces, StopPlaces
    <2>3. PICK p \in {"cancel", "wait", "stopped", "write", "start"} :
               Goto(t, p) /\ (p = "write" => Cur(t).set = "use_ntp")
      BY <1>3 DEF stop_ntp, StopCheck, Cancel, Cancelled, StopEnd, AfterStop
    <2> QED
      BY <1>1, <2>1, <2>2, <2>3, TimeGoto DEF TimeSets, StartPlaces, StopPlaces
  <1> QED
    BY <1>2, <1>3

\* The setters of NTP (config.c:480-503, 532-555).
LEMMA NtpSetMoves ==
    ASSUME ConfigInv, CallInv, NEW t \in Threads,
           config_bmc_use_ntp_set(t) \/ config_bmc_ntp_server_set(t)
    PROVE  TimeMoved(t) /\ TimeConfig /\ errors' = errors
  <1>1. errors \in Nat /\ errors' = errors
    BY DEF CallInv, config_bmc_use_ntp_set, config_bmc_ntp_server_set, CopyServer,
           CopyServerEnd, RestartNtp
  <1>2. config_data' = config_data => TimeConfig
    BY DEF TimeConfig, ConfigInv
  <1>3. CASE config_bmc_use_ntp_set(t)
    <2>1. Busy(t) /\ Cur(t).set = "use_ntp" /\ Cur(t).set \in TimeSets
      BY <1>3 DEF config_bmc_use_ntp_set, At, Busy, TimeSets
    <2>2. Cur(t).val \in BOOLEAN
      BY <2>1, ItemFacts
    <2>3. CASE config_data.use_ntp = Cur(t).val
      BY <1>1, <1>2, <1>3, <2>1, <2>3, TimeReturn DEF config_bmc_use_ntp_set
    <2>4. CASE config_data.use_ntp # Cur(t).val
      <3>1. /\ config_data' = [config_data EXCEPT !.use_ntp = Cur(t).val]
            /\ Goto(t, "start") \/ Goto(t, "stop")
        BY <1>3, <2>4 DEF config_bmc_use_ntp_set
      <3>2. TimeConfig
        BY <2>2, <3>1 DEF TimeConfig, ConfigInv
      <3>3. TimeMoved(t)
        BY <1>1, <2>1, <3>1, TimeGoto DEF StartPlaces, StopPlaces
      <3> QED
        BY <1>1, <3>2, <3>3
    <2> QED
      BY <2>3, <2>4
  <1>4. CASE config_bmc_ntp_server_set(t)
    <2>1. Busy(t) /\ Cur(t).set = "ntp_server" /\ Cur(t).set \in TimeSets
      BY <1>4 DEF config_bmc_ntp_server_set, CopyServer, CopyServerEnd, RestartNtp, At, Busy,
                  TimeSets
    <2>2. TimeMoved(t)
      <3>1. Goto(t, "copied") \/ Goto(t, "write") \/ Goto(t, "stop") \/ Return(t, TRUE)
        BY <1>4 DEF config_bmc_ntp_server_set, CopyServer, CopyServerEnd, RestartNtp
      <3>2. CASE Return(t, TRUE)
        BY <1>1, <2>1, <3>2, TimeReturn
      <3>3. CASE Goto(t, "copied") \/ Goto(t, "write") \/ Goto(t, "stop")
        BY <1>1, <2>1, <3>3, TimeGoto DEF StopPlaces
      <3> QED
        BY <3>1, <3>2, <3>3
    <2>3. TimeConfig
      <3>1. \/ config_data' = config_data
            \/ config_data' = [config_data EXCEPT !.ntp_server = "mixture"]
            \/ config_data' = [config_data EXCEPT !.ntp_server = Cur(t).val]
        BY <1>4 DEF config_bmc_ntp_server_set, CopyServer, CopyServerEnd, RestartNtp
      <3>2. \A x : config_data' = [config_data EXCEPT !.ntp_server = x] => TimeConfig
        BY DEF TimeConfig, ConfigInv
      <3> QED
        BY <1>2, <3>1, <3>2
    <2> QED
      BY <1>1, <2>2, <2>3
  <1> QED
    BY <1>3, <1>4

\* Setting the date and time (rtc.c:107-131).
LEMMA DateTimeMoves ==
    ASSUME CallInv, NEW t \in Threads, time_set_from_iso_str(t)
    PROVE  TimeMoved(t) /\ config_data' = config_data
  <1>1. errors \in Nat
    BY DEF CallInv
  <1>2. Busy(t) /\ Cur(t).set = "date_time" /\ Cur(t).set \in TimeSets
    BY DEF time_set_from_iso_str, RefuseDateTime, FillTm, FillNsec, rtc_set_time,
           sys_clock_settime, At, Busy, TimeSets
  <1>3. /\ config_data' = config_data /\ errors' \in {errors, errors + 1}
        /\ \/ errors' = errors /\ (\E p \in {"nsec", "rtc", "clock"} : Goto(t, p))
           \/ Return(t, TRUE) \/ Return(t, FALSE)
    BY DEF time_set_from_iso_str, RefuseDateTime, FillTm, FillNsec, rtc_set_time,
           sys_clock_settime, Fail
  <1>4. errors' \in Nat /\ (errors' = 0 => errors = 0)
    BY <1>1, <1>3
  <1>5. CASE errors' = errors /\ \E p \in {"nsec", "rtc", "clock"} : Goto(t, p)
    BY <1>1, <1>2, <1>3, <1>5, TimeGoto
  <1>6. CASE Return(t, TRUE) \/ Return(t, FALSE)
    BY <1>2, <1>3, <1>4, <1>6, TimeReturn
  <1> QED
    BY <1>3, <1>5, <1>6

\* rtc_init and ntp_init (rtc.c:133-181, ntp.c:182-188).
LEMMA TimeInitMoves ==
    ASSUME CallInv, rtc_init \/ ntp_init
    PROVE  TimeMoved("main") /\ config_data' = config_data
  <1>1. errors \in Nat /\ "main" \in Threads
    BY DEF CallInv, Threads
  <1>2. CASE rtc_init
    <2>1. Busy("main") /\ Cur("main").set = "rtc_init" /\ Cur("main").set \in TimeSets
      BY <1>2 DEF rtc_init, At, Busy, TimeSets
    <2>2. /\ config_data' = config_data /\ errors' \in {errors, errors + 1}
          /\ Return("main", TRUE) \/ Return("main", FALSE)
      BY <1>2 DEF rtc_init, Fail
    <2>3. errors' \in Nat /\ (errors' = 0 => errors = 0)
      BY <1>1, <2>2
    <2> QED
      BY <1>1, <2>1, <2>2, <2>3, TimeReturn
  <1>3. CASE ntp_init
    <2>1. Busy("main") /\ Cur("main").set = "ntp_init" /\ Cur("main").set \in TimeSets
      BY <1>3 DEF ntp_init, At, Busy, TimeSets
    <2>2. /\ config_data' = config_data /\ errors' = errors
          /\ Return("main", TRUE) \/ Goto("main", "start")
      BY <1>3 DEF ntp_init
    <2>3. CASE Return("main", TRUE)
      BY <1>1, <2>1, <2>2, <2>3, TimeReturn
    <2>4. CASE Goto("main", "start")
      BY <1>1, <2>1, <2>2, <2>4, TimeGoto DEF StartPlaces
    <2> QED
      BY <2>2, <2>3, <2>4
  <1> QED
    BY <1>2, <1>3

\* Every step of a setting of NTP or of the clocks.
LEMMA TimeStepMoves ==
    ASSUME ConfigInv, CallInv, NEW t \in Threads,
           TimeSteps(t) \/ (t = "main" /\ (rtc_init \/ ntp_init))
    PROVE  TimeMoved(t) /\ TimeConfig
  <1>1. config_data' = config_data => TimeConfig
    BY DEF TimeConfig, ConfigInv
  <1> QED
    BY <1>1, StartStopMoves, NtpSetMoves, DateTimeMoves, TimeInitMoves DEF TimeSteps

\* config_write (config.c:99-128).
LEMMA WriteMoves ==
    ASSUME CallInv, NEW t \in Threads, Write(t)
    PROVE  /\ Moved(t) /\ CallInv' /\ boot_finished' = boot_finished /\ t # "main"
           /\ pc[t] = "write" /\ errors' \in Nat /\ (errors' = 0 => errors = 0)
           /\ \/ pc'[t] = "begin" /\ (Cur(t).set = "ntp_server" => errors' # 0)
              \/ pc'[t] = "restart" /\ Cur(t).set = "ntp_server"
  <1>1. errors \in Nat /\ Busy(t) /\ pc[t] = "write"
    BY DEF CallInv, Write
  <1>2. Cur(t).set \in {"ip4", "nm", "gw", "use_dhcp4", "hostname", "use_ntp", "ntp_server"}
    BY <1>1, ItemFacts DEF Placed, Ip4Places, StartPlaces, StopPlaces
  <1>3. t # "main"
    BY <1>1, <1>2, ItemFacts
  <1>4. CASE Goto(t, "restart") /\ Cur(t).set = "ntp_server" /\ errors' = errors
    <2>1. Cur(t).set \in TimeSets
      BY <1>4 DEF TimeSets
    <2>2. TimeMoved(t)
      BY <1>1, <1>4, <2>1, TimeGoto
    <2>3. pc'[t] = "restart" /\ boot_finished' = boot_finished
      BY <1>1, <1>4, GotoMoves
    <2> QED
      BY <1>1, <1>3, <1>4, <2>2, <2>3 DEF TimeMoved
  <1>5. CASE \/ Return(t, TRUE) /\ Cur(t).set # "ntp_server" /\ errors' = errors
             \/ Return(t, FALSE) /\ Fail
    <2>1. errors' \in Nat /\ (errors' = 0 => errors = 0)
          /\ (Cur(t).set = "ntp_server" => errors' # 0)
      <3>1. \/ errors' = errors /\ Cur(t).set # "ntp_server"
            \/ errors' = errors + 1
        BY <1>5 DEF Fail
      <3> QED
        BY <1>1, <3>1
    <2>2. /\ Others(t) /\ pc'[t] = "begin" /\ CallInv' /\ overlapped' = overlapped
          /\ boot_finished' = boot_finished
      BY <1>1, <1>3, <1>5, <2>1, ReturnMoves
    <2> QED
      BY <1>1, <1>3, <2>1, <2>2 DEF Moved
  <1> QED
    BY <1>4, <1>5 DEF Write

-----------------------------------------------------------------------------
(* NTP follows the setting.                                                *)

\* Thread t is at work on NTP.
InNtp(t) == Starting(t) \/ Stopping(t) \/ Renaming(t)

\* A step of another service or setting leaves NTP alone.
LEMMA NtpFrame ==
    ASSUME NtpInv, NEW t \in Threads, Others(t), ~InNtp(t), ~InNtp(t)',
           overlapped => overlapped', boot_finished' = boot_finished,
           UNCHANGED <<ntpVars, sync>>, errors' = 0 => errors = 0,
           config_data'.use_ntp = config_data.use_ntp,
           config_data'.ntp_server = config_data.ntp_server
    PROVE  NtpInv'
  <1>1. \A u \in Threads : /\ Starting(u)' <=> Starting(u)
                           /\ Stopping(u)' <=> Stopping(u)
                           /\ Renaming(u)' <=> Renaming(u)
                           /\ Stopping(u) => Cur(u)' = Cur(u)
                           /\ Starting(u) \/ Stopping(u) => pc'[u] = pc[u]
    <2> TAKE u \in Threads
    <2>1. CASE u = t
      BY <2>1 DEF InNtp
    <2>2. CASE u # t
      BY <2>2 DEF Others, Starting, Stopping, Renaming
    <2> QED
      BY <2>1, <2>2
  <1>2. CASE overlapped'
    BY <1>2 DEF NtpInv, ntpVars
  <1>3. CASE ~overlapped'
    <2> USE DEF NtpInv
    <2>1. UNCHANGED <<ntp_started, ntp_interval_sec, work, asked, corrupt, sync>>
      BY DEF ntpVars
    <2>2. /\ work' \in {"idle", "scheduled", "running"} /\ ntp_started' \in BOOLEAN
          /\ ~corrupt' /\ (sync' # "none" => work' = "running")
      BY <1>3, <2>1
    <2>3. ASSUME NEW u \in Threads
          PROVE  /\ Starting(u)' => ~ntp_started' /\ config_data'.use_ntp
                 /\ Stopping(u)' =>
                      ntp_started' /\ config_data'.use_ntp = (Cur(u)'.set = "ntp_server")
                 /\ Stopping(u)' /\ pc'[u] = "wait" => work' # "scheduled"
                 /\ Stopping(u)' /\ pc'[u] = "stopped" => work' = "idle"
      BY <1>1, <1>3, <2>1
    <2>4. (\A u \in Threads : ~Starting(u)' /\ ~Stopping(u)') =>
             ntp_started' = (config_data'.use_ntp /\ boot_finished')
      BY <1>1, <1>3, <2>1
    <2>5. ~ntp_started' /\ (\A u \in Threads : ~(Starting(u)' /\ pc'[u] = "started")) =>
             work' = "idle" /\ ntp_interval_sec' \in {1, 20}
      BY <1>1, <1>3, <2>1
    <2>6. errors' = 0 /\ work' = "running" /\ (\A u \in Threads : ~Renaming(u)') =>
             asked' = config_data'.ntp_server
      BY <1>1, <1>3, <2>1
    <2> QED
      BY <2>2, <2>3, <2>4, <2>5, <2>6
  <1> QED
    BY <1>2, <1>3

\* Without an overlap the thread that takes a step is the only one in a call.
LEMMA OnlyOne ==
    ASSUME CallInv, NEW t \in Threads, Busy(t), Others(t), ~overlapped
    PROVE  \A u \in Threads : u # t => ~Busy(u) /\ ~Busy(u)'
  BY DEF CallInv, Others

\* What NTP is if thread t is the only one in a call.
LEMMA NtpOnly ==
    ASSUME NEW t \in Threads, \A u \in Threads : u # t => ~Busy(u)
    PROVE  /\ \A u \in Threads : u # t => ~Starting(u) /\ ~Stopping(u) /\ ~Renaming(u)
           /\ Canceling <=> Busy(t) /\ pc[t] = "wait"
  BY DEF Starting, Stopping, Renaming, Canceling

\* start_ntp (ntp.c:152-164).
LEMMA NtpStart ==
    ASSUME CallInv, NtpInv, NEW t \in Threads, start_ntp(t), ~overlapped, ConfigInv
    PROVE  NtpInv'
  <1>1. TimeMoved(t) /\ config_data' = config_data /\ errors' = errors
    BY StartStopMoves
  <1>2. /\ Busy(t) /\ Others(t) /\ overlapped' = overlapped /\ sync' = sync
        /\ pc[t] \in StartPlaces
    BY <1>1 DEF TimeMoved, Moved, start_ntp, StartCheck, StartWork, StartEnd, clockVars,
                StartPlaces
  <1>3. \A u \in Threads : u # t => ~Busy(u) /\ ~Busy(u)'
    BY <1>2, OnlyOne
  <1>4. /\ \A u \in Threads : u # t => ~Starting(u) /\ ~Stopping(u) /\ ~Renaming(u)
        /\ ~Canceling
    BY <1>2, <1>3, NtpOnly DEF StartPlaces
  <1>5. \A u \in Threads : u # t => ~Starting(u)' /\ ~Stopping(u)' /\ ~Renaming(u)'
    BY <1>3 DEF Starting, Stopping, Renaming
  <1>6. Starting(t) /\ ~Stopping(t) /\ ~Renaming(t)
    BY <1>2 DEF Starting, Stopping, Renaming, StartPlaces, StopPlaces
  <1>7. /\ ~ntp_started /\ config_data.use_ntp /\ ~corrupt
        /\ pc[t] # "started" => work = "idle" /\ ntp_interval_sec \in {1, 20}
        /\ sync # "none" => work = "running"
        /\ errors = 0 /\ work = "running" => asked = config_data.ntp_server
    BY <1>4, <1>6 DEF NtpInv
  <1>8. CASE StartCheck(t)
    <2>1. Goto(t, "init") /\ UNCHANGED ntpVars
      BY <1>7, <1>8 DEF StartCheck
    <2>2. pc'[t] = "init" /\ Busy(t)' /\ boot_finished' = boot_finished
      BY <1>2, <2>1, GotoMoves
    <2>3. Starting(t)' /\ ~Stopping(t)' /\ ~Renaming(t)'
      BY <2>2 DEF Starting, Stopping, Renaming, StartPlaces, StopPlaces
    <2>4. pc[t] # "started"
      BY <1>8 DEF StartCheck
    <2> QED
      BY <1>1, <1>2, <1>5, <1>7, <2>1, <2>2, <2>3, <2>4 DEF NtpInv, ntpVars
  <1>9. CASE StartWork(t)
    <2>1. /\ Goto(t, "started") /\ pc[t] = "init" /\ work' = "scheduled" /\ ~corrupt'
          /\ UNCHANGED <<ntp_started, ntp_interval_sec, asked>>
      BY <1>4, <1>7, <1>9 DEF StartWork, k_work_schedule
    <2>2. pc'[t] = "started" /\ Busy(t)' /\ boot_finished' = boot_finished
      BY <1>2, <2>1, GotoMoves
    <2>3. Starting(t)' /\ ~Stopping(t)' /\ ~Renaming(t)'
      BY <2>2 DEF Starting, Stopping, Renaming, StartPlaces, StopPlaces
    <2> QED
      BY <1>1, <1>2, <1>5, <1>7, <2>1, <2>2, <2>3 DEF NtpInv
  <1>10. CASE StartEnd(t)
    <2>1. /\ ntp_started' = TRUE /\ AfterStart(t)
          /\ UNCHANGED <<ntp_interval_sec, work, asked, corrupt>>
      BY <1>10 DEF StartEnd
    <2>2. /\ ~Starting(t)' /\ ~Stopping(t)' /\ (Renaming(t)' => FALSE)
          /\ boot_finished'
      <3>1. CASE Cur(t).set = "use_ntp"
        <4>1. Goto(t, "write")
          BY <2>1, <3>1 DEF AfterStart
        <4>2. pc'[t] = "write" /\ Cur(t)' = Cur(t) /\ boot_finished' = boot_finished
          BY <1>2, <4>1, GotoMoves
        <4>3. t # "main"
          BY <1>2, <3>1, ItemFacts
        <4>4. boot_finished
          BY <1>2, <4>3 DEF CallInv, Threads
        <4> QED
          BY <3>1, <4>2, <4>4 DEF Starting, Stopping, Renaming, StartPlaces, StopPlaces
      <3>2. CASE Cur(t).set # "use_ntp"
        <4>1. Return(t, TRUE)
          BY <2>1, <3>2 DEF AfterStart
        <4>2. /\ pc'[t] = "begin" /\ (t = "main" => MainMoves(TRUE))
              /\ ~(t = "main" /\ Cur(t).set = "ntp_init") => boot_finished' = boot_finished
          BY <1>1, <1>2, <4>1, ReturnMoves DEF CallInv
        <4>3. t = "main" => Cur(t).set = "ntp_init"
          BY <1>2, ItemFacts DEF Placed, Ip4Places, StartPlaces, StopPlaces
        <4>4. t # "main" => boot_finished
          BY <1>2 DEF CallInv, Threads
        <4>5. boot_finished'
          BY <4>2, <4>3, <4>4 DEF MainMoves
        <4> QED
          BY <4>2, <4>5 DEF Starting, Stopping, Renaming, StartPlaces, StopPlaces
      <3> QED
        BY <3>1, <3>2
    <2> QED
      BY <1>1, <1>2, <1>5, <1>7, <2>1, <2>2 DEF NtpInv
  <1> QED
    BY <1>8, <1>9, <1>10 DEF start_ntp

\* stop_ntp: the handler has ended, for good, before NTP counts as stopped
\* (ntp.c:166-180).
LEMMA NtpStop ==
    ASSUME CallInv, NtpInv, NEW t \in Threads, stop_ntp(t), ~overlapped, ConfigInv
    PROVE  NtpInv'
  <1>1. TimeMoved(t) /\ config_data' = config_data /\ errors' = errors
    BY StartStopMoves
  <1>2. /\ Busy(t) /\ Others(t) /\ overlapped' = overlapped /\ sync' = sync
        /\ pc[t] \in StopPlaces
    BY <1>1 DEF TimeMoved, Moved, stop_ntp, StopCheck, Cancel, Cancelled, StopEnd, clockVars,
                StopPlaces
  <1>3. \A u \in Threads : u # t => ~Busy(u) /\ ~Busy(u)'
    BY <1>2, OnlyOne
  <1>4. \A u \in Threads : u # t => ~Starting(u) /\ ~Stopping(u) /\ ~Renaming(u)
    BY <1>3 DEF Starting, Stopping, Renaming
  <1>5. \A u \in Threads : u # t => ~Starting(u)' /\ ~Stopping(u)' /\ ~Renaming(u)'
    BY <1>3 DEF Starting, Stopping, Renaming
  <1>6. ~Starting(t) /\ Stopping(t)
    BY <1>2 DEF Starting, Stopping, StartPlaces, StopPlaces
  <1>7. /\ ntp_started /\ config_data.use_ntp = (Cur(t).set = "ntp_server") /\ ~corrupt
        /\ pc[t] = "wait" => work # "scheduled"
        /\ pc[t] = "stopped" => work = "idle"
        /\ sync # "none" => work = "running"
        /\ errors = 0 /\ work = "running" /\ ~Renaming(t) => asked = config_data.ntp_server
        /\ work \in {"idle", "scheduled", "running"}
    BY <1>2, <1>4, <1>6 DEF NtpInv
  <1>8. Cur(t).set \in {"use_ntp", "ntp_server"} /\ boot_finished
    <2>1. Cur(t).set \in {"use_ntp", "ntp_server"}
      BY <1>2, ItemFacts DEF Placed, Ip4Places, StartPlaces, StopPlaces
    <2>2. t # "main"
      BY <1>2, <2>1, ItemFacts
    <2> QED
      BY <1>2, <2>1, <2>2 DEF CallInv, Threads
  <1>9. ASSUME NEW p \in {"cancel", "wait", "stopped"}, Goto(t, p), ntp_started' = ntp_started,
               asked' = asked, corrupt' = corrupt,
               work' \in {"idle", "scheduled", "running"},
               sync # "none" => work' = "running",
               p = "wait" => work' # "scheduled", p = "stopped" => work' = "idle",
               work' = "running" => work = "running", p = "stopped" \/ pc[t] # "stopped"
        PROVE  NtpInv'
    <2>1. pc'[t] = p /\ Busy(t)' /\ Cur(t)' = Cur(t) /\ boot_finished' = boot_finished
      BY <1>2, <1>9, GotoMoves
    <2>2. ~Starting(t)' /\ Stopping(t)'
      BY <2>1, <1>9 DEF Starting, Stopping, StartPlaces, StopPlaces
    <2>3. work' = "running" /\ ~Renaming(t)' => ~Renaming(t)
      BY <1>9, <2>1 DEF Renaming
    <2> QED
      BY <1>1, <1>2, <1>5, <1>7, <1>9, <2>1, <2>2, <2>3 DEF NtpInv
  <1>10. CASE StopCheck(t)
    <2>1. Goto(t, "cancel") /\ UNCHANGED ntpVars /\ pc[t] = "stop"
      BY <1>7, <1>10 DEF StopCheck
    <2> QED
      BY <1>7, <1>9, <2>1 DEF ntpVars
  <1>11. CASE Cancel(t)
    <2>1. /\ Goto(t, "wait") /\ pc[t] = "cancel"
          /\ work' = IF work = "scheduled" THEN "idle" ELSE work
          /\ UNCHANGED <<ntp_started, asked, corrupt>>
      BY <1>11 DEF Cancel
    <2> QED
      BY <1>7, <1>9, <2>1
  <1>12. CASE Cancelled(t)
    <2>1. /\ Goto(t, "stopped") /\ pc[t] = "wait" /\ work # "running"
          /\ UNCHANGED ntpVars
      BY <1>12 DEF Cancelled
    <2> QED
      BY <1>7, <1>9, <2>1 DEF ntpVars
  <1>13. CASE StopEnd(t)
    <2>1. /\ AfterStop(t) /\ pc[t] = "stopped" /\ ntp_interval_sec' = 1 /\ ntp_started' = FALSE
          /\ UNCHANGED <<work, asked, corrupt>>
      BY <1>13 DEF StopEnd
    <2>2. work' = "idle" /\ sync' = "none" /\ ~corrupt'
      BY <1>2, <1>7, <2>1
    <2>3. CASE Cur(t).set = "use_ntp"
      <3>1. Goto(t, "write")
        BY <2>1, <2>3 DEF AfterStop
      <3>2. pc'[t] = "write" /\ Busy(t)' /\ Cur(t)' = Cur(t) /\ boot_finished' = boot_finished
        BY <1>2, <3>1, GotoMoves
      <3>3. ~Starting(t)' /\ ~Stopping(t)'
        BY <3>2 DEF Starting, Stopping, StartPlaces, StopPlaces
      <3>4. ~config_data.use_ntp
        BY <1>7, <2>3
      <3> QED
        BY <1>1, <1>2, <1>5, <2>1, <2>2, <3>2, <3>3, <3>4 DEF NtpInv
    <2>4. CASE Cur(t).set = "ntp_server"
      <3>1. Goto(t, "start")
        BY <2>1, <2>4 DEF AfterStop
      <3>2. pc'[t] = "start" /\ Busy(t)' /\ Cur(t)' = Cur(t) /\ boot_finished' = boot_finished
        BY <1>2, <3>1, GotoMoves
      <3>3. Starting(t)' /\ ~Stopping(t)'
        BY <3>2 DEF Starting, Stopping, StartPlaces, StopPlaces
      <3>4. config_data.use_ntp
        BY <1>7, <2>4
      <3> QED
        BY <1>1, <1>2, <1>5, <2>1, <2>2, <3>2, <3>3, <3>4 DEF NtpInv
    <2> QED
      BY <1>8, <2>3, <2>4
  <1> QED
    BY <1>10, <1>11, <1>12, <1>13 DEF stop_ntp

\* Switching NTP on or off (config.c:480-503).
LEMMA NtpUse ==
    ASSUME ConfigInv, CallInv, NtpInv, NEW t \in Threads, config_bmc_use_ntp_set(t), ~overlapped
    PROVE  NtpInv'
  <1>1. TimeMoved(t) /\ errors' = errors
    BY NtpSetMoves
  <1>2. /\ Busy(t) /\ Others(t) /\ overlapped' = overlapped /\ sync' = sync /\ UNCHANGED ntpVars
        /\ Cur(t).set = "use_ntp" /\ pc[t] = "begin"
    BY <1>1 DEF TimeMoved, Moved, config_bmc_use_ntp_set, clockVars, At
  <1>3. \A u \in Threads : u # t => ~Busy(u) /\ ~Busy(u)'
    BY <1>2, OnlyOne
  <1>4. \A u \in Threads : ~Starting(u) /\ ~Stopping(u) /\ ~Renaming(u)
    BY <1>2, <1>3 DEF Starting, Stopping, Renaming, StartPlaces, StopPlaces
  <1>5. \A u \in Threads : u # t => ~Starting(u)' /\ ~Stopping(u)' /\ ~Renaming(u)'
    BY <1>3 DEF Starting, Stopping, Renaming
  <1>6. boot_finished /\ Cur(t).val \in BOOLEAN
    <2>1. t # "main" /\ Cur(t).val \in BOOLEAN
      BY <1>2, ItemFacts
    <2> QED
      BY <1>2, <2>1 DEF CallInv, Threads
  <1>7. /\ ntp_started = config_data.use_ntp /\ ~corrupt /\ config_data.use_ntp \in BOOLEAN
        /\ ~ntp_started => work = "idle" /\ ntp_interval_sec \in {1, 20}
        /\ sync # "none" => work = "running"
        /\ errors = 0 /\ work = "running" => asked = config_data.ntp_server
        /\ work \in {"idle", "scheduled", "running"}
    BY <1>4, <1>6 DEF NtpInv, ConfigInv
  <1>8. CASE config_data.use_ntp = Cur(t).val
    <2>1. Return(t, TRUE) /\ config_data' = config_data
      BY <1>8 DEF config_bmc_use_ntp_set
    <2>2. pc'[t] = "begin" /\ boot_finished' = boot_finished
      BY <1>1, <1>2, <2>1, ReturnMoves DEF CallInv
    <2>3. ~InNtp(t) /\ ~InNtp(t)'
      BY <1>4, <2>2 DEF InNtp, Starting, Stopping, Renaming, StartPlaces, StopPlaces
    <2> QED
      BY <1>1, <1>2, <2>1, <2>2, <2>3, NtpFrame
  <1>9. CASE Cur(t).val = TRUE /\ config_data.use_ntp = FALSE
    <2>1. Goto(t, "start") /\ config_data' = [config_data EXCEPT !.use_ntp = TRUE]
      BY <1>9 DEF config_bmc_use_ntp_set
    <2>2. pc'[t] = "start" /\ Busy(t)' /\ Cur(t)' = Cur(t) /\ boot_finished' = boot_finished
      BY <1>2, <2>1, GotoMoves
    <2>3. Starting(t)' /\ ~Stopping(t)'
      BY <2>2 DEF Starting, Stopping, StartPlaces, StopPlaces
    <2>4. config_data'.use_ntp = TRUE
      BY <2>1 DEF ConfigInv
    <2>5. ntp_started = FALSE /\ work = "idle" /\ ntp_interval_sec \in {1, 20}
      BY <1>7, <1>9
    <2> QED
      BY <1>1, <1>2, <1>5, <1>7, <2>2, <2>3, <2>4, <2>5 DEF NtpInv, ntpVars
  <1>10. CASE Cur(t).val = FALSE /\ config_data.use_ntp = TRUE
    <2>1. Goto(t, "stop") /\ config_data' = [config_data EXCEPT !.use_ntp = FALSE]
      BY <1>10 DEF config_bmc_use_ntp_set
    <2>2. pc'[t] = "stop" /\ Busy(t)' /\ Cur(t)' = Cur(t) /\ boot_finished' = boot_finished
      BY <1>2, <2>1, GotoMoves
    <2>3. ~Starting(t)' /\ Stopping(t)'
      BY <2>2 DEF Starting, Stopping, StartPlaces, StopPlaces
    <2>4. config_data'.use_ntp = FALSE /\ config_data'.ntp_server = config_data.ntp_server
      BY <2>1 DEF ConfigInv
    <2>5. ntp_started = TRUE
      BY <1>7, <1>10
    <2> QED
      BY <1>1, <1>2, <1>5, <1>7, <2>2, <2>3, <2>4, <2>5 DEF NtpInv, ntpVars
  <1> QED
    BY <1>6, <1>7, <1>8, <1>9, <1>10

\* Setting the server, up to its restart (config.c:532-555).
LEMMA NtpServer ==
    ASSUME ConfigInv, CallInv, NtpInv, NEW t \in Threads, config_bmc_ntp_server_set(t), ~overlapped
    PROVE  NtpInv'
  <1>1. TimeMoved(t) /\ errors' = errors
    BY NtpSetMoves
  <1>2. /\ Busy(t) /\ Others(t) /\ overlapped' = overlapped /\ sync' = sync /\ UNCHANGED ntpVars
        /\ Cur(t).set = "ntp_server" /\ pc[t] \in {"begin", "copied", "restart"}
    BY <1>1 DEF TimeMoved, Moved, config_bmc_ntp_server_set, CopyServer, CopyServerEnd,
                RestartNtp, clockVars, At
  <1>3. \A u \in Threads : u # t => ~Busy(u) /\ ~Busy(u)'
    BY <1>2, OnlyOne
  <1>4. \A u \in Threads : ~Starting(u) /\ ~Stopping(u)
    BY <1>2, <1>3 DEF Starting, Stopping, StartPlaces, StopPlaces
  <1>5. \A u \in Threads : u # t => ~Starting(u)' /\ ~Stopping(u)' /\ ~Renaming(u)'
    BY <1>3 DEF Starting, Stopping, Renaming
  <1>6. boot_finished
    <2>1. t # "main"
      BY <1>2, ItemFacts
    <2> QED
      BY <1>2, <2>1 DEF CallInv, Threads
  <1>7. /\ ntp_started = config_data.use_ntp /\ ~corrupt /\ config_data.use_ntp \in BOOLEAN
        /\ ~ntp_started => work = "idle" /\ ntp_interval_sec \in {1, 20}
        /\ sync # "none" => work = "running"
        /\ work \in {"idle", "scheduled", "running"}
    BY <1>4, <1>6 DEF NtpInv, ConfigInv
  <1>8. ASSUME NEW p \in {"copied", "write"}, NEW name, Goto(t, p),
               config_data' = [config_data EXCEPT !.ntp_server = name]
        PROVE  NtpInv'
    <2>1. pc'[t] = p /\ Busy(t)' /\ Cur(t)' = Cur(t) /\ boot_finished' = boot_finished
      BY <1>2, <1>8, GotoMoves
    <2>2. ~Starting(t)' /\ ~Stopping(t)' /\ Renaming(t)'
      BY <1>2, <1>8, <2>1 DEF Starting, Stopping, Renaming, StartPlaces, StopPlaces
    <2>3. config_data'.use_ntp = config_data.use_ntp
      BY <1>8 DEF ConfigInv
    <2> QED
      BY <1>1, <1>2, <1>5, <1>6, <1>7, <2>1, <2>2, <2>3 DEF NtpInv, ntpVars
  <1>9. CASE CopyServer(t) \/ CopyServerEnd(t)
    BY <1>8, <1>9 DEF CopyServer, CopyServerEnd
  <1>10. CASE RestartNtp(t) /\ config_data.use_ntp
    <2>1. Goto(t, "stop") /\ config_data' = config_data
      BY <1>10 DEF RestartNtp
    <2>2. pc'[t] = "stop" /\ Busy(t)' /\ Cur(t)' = Cur(t) /\ boot_finished' = boot_finished
      BY <1>2, <2>1, GotoMoves
    <2>3. ~Starting(t)' /\ Stopping(t)' /\ Renaming(t)'
      BY <1>2, <2>2 DEF Starting, Stopping, Renaming, StartPlaces, StopPlaces
    <2>4. ntp_started = TRUE /\ config_data.use_ntp = TRUE
      BY <1>7, <1>10
    <2> QED
      BY <1>1, <1>2, <1>5, <1>7, <2>1, <2>2, <2>3, <2>4 DEF NtpInv, ntpVars
  <1>11. CASE RestartNtp(t) /\ ~config_data.use_ntp
    <2>1. Return(t, TRUE) /\ config_data' = config_data
      BY <1>11 DEF RestartNtp
    <2>2. pc'[t] = "begin" /\ boot_finished' = boot_finished
      BY <1>1, <1>2, <2>1, ReturnMoves DEF CallInv
    <2>3. ~Starting(t)' /\ ~Stopping(t)' /\ ~Renaming(t)'
      BY <2>2 DEF Starting, Stopping, Renaming, StartPlaces, StopPlaces
    <2>4. ntp_started = FALSE /\ work = "idle" /\ ntp_interval_sec \in {1, 20}
      BY <1>7, <1>11
    <2> QED
      BY <1>1, <1>2, <1>5, <1>6, <1>7, <1>11, <2>1, <2>2, <2>3, <2>4 DEF NtpInv, ntpVars
  <1> QED
    BY <1>9, <1>10, <1>11 DEF config_bmc_ntp_server_set, RestartNtp

\* ntp_init (ntp.c:182-188).
LEMMA NtpBoot ==
    ASSUME ConfigInv, CallInv, NtpInv, ntp_init
    PROVE  NtpInv'
  <1>1. TimeMoved("main") /\ config_data' = config_data /\ errors' = errors /\ "main" \in Threads
    BY TimeInitMoves DEF Threads, ntp_init
  <1>2. /\ Busy("main") /\ Others("main") /\ overlapped' = overlapped /\ sync' = sync
        /\ UNCHANGED ntpVars /\ Cur("main").set = "ntp_init" /\ pc["main"] = "begin"
    BY <1>1 DEF TimeMoved, Moved, ntp_init, clockVars, At
  <1>3. ~boot_finished /\ ~overlapped
    BY <1>2 DEF CallInv, Busy
  <1>4. \A u \in Threads : u # "main" => ~Busy(u) /\ ~Busy(u)'
    BY <1>1, <1>2, <1>3, OnlyOne
  <1>5. \A u \in Threads : ~Starting(u) /\ ~Stopping(u) /\ ~Renaming(u)
    BY <1>2, <1>4 DEF Starting, Stopping, Renaming, StartPlaces, StopPlaces
  <1>6. \A u \in Threads : u # "main" => ~Starting(u)' /\ ~Stopping(u)' /\ ~Renaming(u)'
    BY <1>4 DEF Starting, Stopping, Renaming
  <1>7. /\ ntp_started = FALSE /\ ~corrupt /\ work = "idle" /\ ntp_interval_sec \in {1, 20}
        /\ sync = "none" /\ config_data.use_ntp \in BOOLEAN
    BY <1>3, <1>5 DEF NtpInv, ConfigInv
  <1>8. CASE config_data.use_ntp
    <2>1. Goto("main", "start")
      BY <1>8 DEF ntp_init
    <2>2. pc'["main"] = "start" /\ Busy("main")' /\ boot_finished' = boot_finished
      BY <1>1, <1>2, <2>1, GotoMoves
    <2>3. Starting("main")' /\ ~Stopping("main")'
      BY <2>2 DEF Starting, Stopping, StartPlaces, StopPlaces
    <2> QED
      BY <1>1, <1>2, <1>6, <1>7, <1>8, <2>2, <2>3 DEF NtpInv, ntpVars
  <1>9. CASE ~config_data.use_ntp
    <2>1. Return("main", TRUE)
      BY <1>9 DEF ntp_init
    <2>2. pc'["main"] = "begin"
      BY <1>1, <1>2, <2>1, ReturnMoves DEF CallInv
    <2>3. ~Starting("main")' /\ ~Stopping("main")' /\ ~Renaming("main")'
      BY <2>2 DEF Starting, Stopping, Renaming, StartPlaces, StopPlaces
    <2> QED
      BY <1>1, <1>2, <1>6, <1>7, <1>9, <2>3 DEF NtpInv, ntpVars
  <1> QED
    BY <1>7, <1>8, <1>9

\* The handler, in the middle of which NTP may be stopped (ntp.c:127-145).
LEMMA NtpHandler ==
    ASSUME CallInv, NtpInv, ntp_sync_work_handler
    PROVE  NtpInv'
  <1>1. UNCHANGED callVars /\ config_data' = config_data /\ errors' \in {errors, errors + 1}
    BY DEF ntp_sync_work_handler, SyncBegin, SyncAnswered, SyncFailed, SyncEnd,
           rtc_set_from_clock, settingVars, Fail
  <1>2. \A u \in Threads : /\ Starting(u)' <=> Starting(u)
                           /\ Stopping(u)' <=> Stopping(u)
                           /\ Renaming(u)' <=> Renaming(u)
                           /\ Cur(u)' = Cur(u) /\ pc'[u] = pc[u]
    BY <1>1 DEF callVars, Starting, Stopping, Renaming, Busy, Cur
  <1>3. /\ UNCHANGED <<overlapped, boot_finished>> /\ (errors' = 0 => errors = 0)
        /\ errors \in Nat
    BY <1>1 DEF callVars, CallInv
  <1>4. \A u \in Threads : Starting(u) => pc[u] # "wait" /\ pc[u] # "stopped"
    BY DEF Starting, StartPlaces
  <1>5. Canceling <=> \E u \in Threads : Stopping(u) /\ pc[u] = "wait"
    BY DEF Canceling, Stopping, StopPlaces
  <1>6. ASSUME UNCHANGED <<ntp_started, corrupt>>, work' \in {"idle", "scheduled", "running"},
               ~overlapped => work # "idle",
               ~overlapped => (sync' # "none" => work' = "running"),
               ~overlapped => (work' = "scheduled" => ~Canceling),
               ~overlapped /\ errors' = 0 /\ work' = "running" =>
                   asked' = config_data.ntp_server
                     \/ (asked' = asked /\ work = "running")
        PROVE  NtpInv'
    <2>1. CASE overlapped
      BY <1>3, <1>6, <2>1 DEF NtpInv
    <2>2. CASE ~overlapped
      <3>1. /\ ~(~ntp_started /\ (\A u \in Threads : ~(Starting(u) /\ pc[u] = "started")))
            /\ \A u \in Threads : ~(Stopping(u) /\ pc[u] = "stopped")
        BY <1>6, <2>2 DEF NtpInv
      <3> QED
        BY <1>1, <1>2, <1>3, <1>5, <1>6, <2>2, <3>1 DEF NtpInv
    <2> QED
      BY <2>1, <2>2
  <1>7. ~overlapped /\ sync # "none" => work = "running"
    BY DEF NtpInv
  <1>8. CASE SyncBegin
    <2>1. /\ work = "scheduled" /\ work' = "running" /\ asked' = config_data.ntp_server
          /\ UNCHANGED <<ntp_started, corrupt>>
      BY <1>8 DEF SyncBegin
    <2> QED
      BY <1>6, <2>1
  <1>9. CASE SyncAnswered
    <2>1. work = "running" /\ UNCHANGED ntpVars
      BY <1>9 DEF SyncAnswered
    <2> QED
      BY <1>6, <2>1 DEF ntpVars
  <1>10. CASE SyncFailed
    <2>1. /\ work = "running" /\ sync' = "none" /\ work' = IF Canceling THEN "idle" ELSE "scheduled"
          /\ UNCHANGED <<ntp_started, corrupt>>
      BY <1>10 DEF SyncFailed, k_work_schedule, clockVars
    <2> QED
      BY <1>6, <2>1
  <1>11. CASE SyncEnd
    <2>1. /\ sync # "none" /\ sync' = "none" /\ work' = IF Canceling THEN "idle" ELSE "scheduled"
          /\ UNCHANGED <<ntp_started, corrupt>>
      BY <1>11 DEF SyncEnd, k_work_schedule
    <2> QED
      BY <1>6, <1>7, <2>1
  <1>12. CASE rtc_set_from_clock /\ UNCHANGED ntpVars
    <2>1. sync # "none" /\ UNCHANGED <<ntp_started, corrupt, work, asked>>
      BY <1>12 DEF rtc_set_from_clock, ntpVars
    <2>2. work \in {"idle", "scheduled", "running"}
      BY DEF NtpInv
    <2> QED
      BY <1>6, <1>7, <2>1, <2>2
  <1> QED
    BY <1>8, <1>9, <1>10, <1>11, <1>12 DEF ntp_sync_work_handler

\* A setting is written; that of the server goes on from there (config.c:532-555).
LEMMA NtpWrite ==
    ASSUME CallInv, NtpInv, NEW t \in Threads, Write(t), UNCHANGED <<clockVars, ntpVars>>
    PROVE  NtpInv'
  <1>1. /\ Moved(t) /\ CallInv' /\ boot_finished' = boot_finished
        /\ pc[t] = "write" /\ errors' \in Nat /\ (errors' = 0 => errors = 0)
        /\ \/ pc'[t] = "begin" /\ (Cur(t).set = "ntp_server" => errors' # 0)
           \/ pc'[t] = "restart" /\ Cur(t).set = "ntp_server"
    BY WriteMoves
  <1>2. config_data' = config_data /\ sync' = sync
    BY DEF Write, clockVars
  <1>3. ~Starting(t) /\ ~Stopping(t) /\ ~Starting(t)' /\ ~Stopping(t)'
    BY <1>1 DEF Starting, Stopping, StartPlaces, StopPlaces
  <1>4. CASE Cur(t).set # "ntp_server"
    <2>1. ~InNtp(t) /\ ~InNtp(t)'
      BY <1>1, <1>3, <1>4 DEF InNtp, Renaming
    <2> QED
      BY <1>1, <1>2, <2>1, NtpFrame DEF Moved
  <1>5. CASE Cur(t).set = "ntp_server"
    <2>1. \A u \in Threads \ {t} : /\ Starting(u)' <=> Starting(u)
                                   /\ Stopping(u)' <=> Stopping(u)
                                   /\ Cur(u)' = Cur(u) /\ pc'[u] = pc[u]
      BY <1>1 DEF Moved, Others, Starting, Stopping
    <2>2. \A u \in Threads : /\ Starting(u)' <=> Starting(u)
                             /\ Stopping(u)' <=> Stopping(u)
                             /\ Starting(u) \/ Stopping(u) => Cur(u)' = Cur(u) /\ pc'[u] = pc[u]
      BY <1>3, <2>1
    <2>3. errors' # 0 \/ Renaming(t)'
      <3>1. CASE pc'[t] = "restart"
        BY <1>1, <1>5, <3>1 DEF Moved, Renaming
      <3> QED
        BY <1>1, <1>5, <3>1
    <2>4. overlapped' = overlapped
      BY <1>1 DEF Moved
    <2>5. UNCHANGED <<ntp_started, ntp_interval_sec, work, asked, corrupt>>
      BY DEF ntpVars
    <2>6. (\A u \in Threads : ~(Starting(u)' /\ pc'[u] = "started")) <=>
             (\A u \in Threads : ~(Starting(u) /\ pc[u] = "started"))
      BY <2>2
    <2> QED
      BY <1>1, <1>2, <2>2, <2>3, <2>4, <2>5, <2>6 DEF NtpInv
  <1> QED
    BY <1>4, <1>5

\* The steps of the threads that set NTP or the clocks.
TimeThread(t) ==
    \/ TimeSteps(t)
    \/ t = "main" /\ rtc_init /\ UNCHANGED ntpVars
    \/ t = "main" /\ ntp_init

\* A thread in a setting of NTP or of the clocks keeps NTP's invariant.
LEMMA NtpThread ==
    ASSUME ConfigInv, CallInv, NtpInv, NEW t \in Threads, TimeThread(t)
    PROVE  NtpInv'
  <1>1. TimeMoved(t) /\ TimeConfig
    BY TimeStepMoves DEF TimeThread
  <1>2. overlapped' = overlapped /\ Busy(t)
    BY <1>1 DEF TimeMoved, Moved
  <1>3. CASE \/ time_set_from_iso_str(t) /\ UNCHANGED ntpVars
             \/ t = "main" /\ rtc_init /\ UNCHANGED ntpVars
    <2>1. config_data' = config_data /\ sync' = sync
      BY <1>3 DEF time_set_from_iso_str, RefuseDateTime, FillTm, FillNsec, rtc_set_time,
                  sys_clock_settime, rtc_init, clockVars
    <2>2. Cur(t).set \in {"date_time", "rtc_init"} /\ pc[t] \notin StartPlaces \cup StopPlaces
      BY <1>3 DEF time_set_from_iso_str, RefuseDateTime, FillTm, FillNsec, rtc_set_time,
                  sys_clock_settime, rtc_init, At, StartPlaces, StopPlaces
    <2>3. pc'[t] = "begin" \/ (Cur(t)' = Cur(t) /\ Placed(t)')
      BY <1>1, ItemFacts DEF TimeMoved, Moved, CallInv
    <2>4. ~InNtp(t)
      BY <2>2 DEF InNtp, Starting, Stopping, Renaming
    <2>5. ~InNtp(t)'
      BY <2>2, <2>3 DEF InNtp, Starting, Stopping, Renaming, Placed, StartPlaces, StopPlaces,
                        Ip4Places
    <2>6. boot_finished' = boot_finished
      <3>1. \/ \E p : Goto(t, p)
            \/ Return(t, TRUE) \/ Return(t, FALSE)
        BY <1>3 DEF time_set_from_iso_str, RefuseDateTime, FillTm, FillNsec, rtc_set_time,
                    sys_clock_settime, rtc_init
      <3>2. Cur(t).set # "ntp_init" /\ errors' \in Nat
        BY <1>1, <2>2 DEF TimeMoved
      <3> QED
        BY <1>2, <3>1, <3>2, GotoMoves, ReturnMoves
    <2> QED
      BY <1>1, <1>2, <1>3, <2>1, <2>4, <2>5, <2>6, NtpFrame DEF TimeMoved, Moved
  <1>4. CASE \/ start_ntp(t) \/ stop_ntp(t)
             \/ config_bmc_use_ntp_set(t) \/ config_bmc_ntp_server_set(t)
    <2>1. CASE ~overlapped
      BY <1>4, <2>1, NtpStart, NtpStop, NtpUse, NtpServer
    <2>2. CASE overlapped
      <3>1. /\ work' \in {work, "idle", "scheduled"}
            /\ ntp_started' \in {ntp_started, TRUE, FALSE}
        BY <1>4 DEF start_ntp, stop_ntp, StartCheck, StartWork, StartEnd, StopCheck, Cancel,
                    Cancelled, StopEnd, config_bmc_use_ntp_set, config_bmc_ntp_server_set,
                    CopyServer, CopyServerEnd, RestartNtp, k_work_schedule, ntpVars
      <3> QED
        BY <1>2, <2>2, <3>1 DEF NtpInv
    <2> QED
      BY <2>1, <2>2
  <1>5. CASE t = "main" /\ ntp_init
    BY <1>5, NtpBoot
  <1> QED
    BY <1>3, <1>4, <1>5 DEF TimeThread, TimeSteps

\* A thread in a network setting leaves NTP alone.
LEMMA NtpNet ==
    ASSUME ConfigInv, CallInv, NtpInv, NEW t \in Threads,
           NetSteps(t) \/ (t = "main" /\ net_init), UNCHANGED <<clockVars, ntpVars>>
    PROVE  NtpInv'
  <1>1. NetMoved(t) /\ NetConfig
    BY NetStepMoves
  <1>2. /\ Busy(t) /\ Others(t) /\ overlapped' = overlapped /\ boot_finished' = boot_finished
        /\ Cur(t).set \in NetSets /\ (errors' = 0 => errors = 0)
        /\ pc'[t] = "begin" \/ (Cur(t)' = Cur(t) /\ Placed(t)')
    BY <1>1 DEF NetMoved, Moved, CallInv
  <1>3. Placed(t)
    BY <1>2, ItemFacts
  <1>4. ~InNtp(t) /\ ~InNtp(t)'
    BY <1>2, <1>3 DEF InNtp, Starting, Stopping, Renaming, Placed, StartPlaces, StopPlaces,
                      Ip4Places, NetSets
  <1>5. sync' = sync
    BY DEF clockVars
  <1> QED
    BY <1>1, <1>2, <1>4, <1>5, NtpFrame DEF NetConfig

\* A call that begins has done nothing to NTP yet.
LEMMA NtpCall ==
    ASSUME CallInv, NtpInv, NEW t \in Callers, NEW c \in Seq(CallItem), Call(t, c),
           UNCHANGED <<clockVars, ntpVars>>
    PROVE  NtpInv'
  <1>1. /\ Others(t) /\ pc' = pc /\ pc[t] = "begin" /\ boot_finished' = boot_finished
        /\ overlapped => overlapped'
    BY CallMoves
  <1>2. /\ t \in Threads /\ config_data' = config_data /\ errors' = errors /\ sync' = sync
    BY DEF Call, Threads, clockVars
  <1>3. ~InNtp(t) /\ ~InNtp(t)'
    BY <1>1 DEF InNtp, Starting, Stopping, Renaming, StartPlaces, StopPlaces
  <1> QED
    BY <1>1, <1>2, <1>3, NtpFrame

-----------------------------------------------------------------------------
(* The RTC has the time of the system clock.                               *)

\* Nothing sets a clock before rtc_init (main.c).
LEMMA ClockUntouched ==
    ASSUME CallInv, NtpInv, Busy("main"), Cur("main").set = "rtc_init"
    PROVE  sync = "none" /\ ~boot_finished /\ \A t \in Callers : ~Setting(t)
  <1>1. ~boot_finished /\ ~overlapped /\ \A t \in Callers : ~Busy(t)
    BY DEF CallInv, Busy
  <1>2. "main" \in Threads /\ \A t \in Threads : t # "main" => t \in Callers
    BY DEF Threads
  <1>3. pc["main"] = "begin"
    BY <1>2, ItemFacts DEF Placed
  <1>4. \A t \in Threads : ~Starting(t) /\ ~Stopping(t)
    BY <1>1, <1>2, <1>3 DEF Starting, Stopping, StartPlaces, StopPlaces
  <1>5. ~ntp_started
    BY <1>1, <1>4 DEF NtpInv
  <1>6. sync = "none"
    BY <1>1, <1>4, <1>5 DEF NtpInv
  <1>7. \A t \in Callers : ~Setting(t)
    BY <1>1 DEF Setting, At, Busy
  <1> QED
    BY <1>1, <1>6, <1>7

\* Where the other threads are in setting the clocks does not change.
LEMMA OthersSet ==
    ASSUME NEW t \in Threads, Others(t)
    PROVE  \A u \in Callers : u # t =>
              /\ \A p : At(u, {"date_time"}, p)' <=> At(u, {"date_time"}, p)
              /\ Setting(u)' <=> Setting(u)
              /\ Asked(u)' = Asked(u)
  <1> TAKE u \in Callers
  <1> HAVE u # t
  <1>1. (Busy(u)' <=> Busy(u)) /\ Cur(u)' = Cur(u) /\ pc'[u] = pc[u]
    BY DEF Others, Threads
  <1>2. \A p : At(u, {"date_time"}, p)' <=> At(u, {"date_time"}, p)
    BY <1>1 DEF At, Busy
  <1>3. Asked(u)' = Asked(u)
    BY <1>1 DEF Asked, time_iso_to_ts, Frac
  <1>4. Setting(u)' <=> Setting(u)
    BY <1>2 DEF Setting
  <1> QED
    BY <1>2, <1>3, <1>4

\* A step of another service or setting leaves the clocks alone.
LEMMA RtcFrame ==
    ASSUME RtcInv, NEW t \in Threads, Others(t), ~Setting(t), ~Setting(t)', UNCHANGED clockVars,
           ClockReady' => ClockReady,
           Busy("main")' /\ Cur("main")'.set = "rtc_init" =>
               Busy("main") /\ Cur("main").set = "rtc_init"
    PROVE  RtcInv'
  <1>1. UNCHANGED <<has_rtc, sys_clock, rtc, tm, sync, apart>>
    BY DEF clockVars
  <1>2. ~At(t, {"date_time"}, "nsec")' /\ ~At(t, {"date_time"}, "rtc")'
        /\ ~At(t, {"date_time"}, "clock")'
    BY DEF Setting
  <1>3. \A u \in Callers : u # t =>
              /\ \A p : At(u, {"date_time"}, p)' <=> At(u, {"date_time"}, p)
              /\ Setting(u)' <=> Setting(u)
              /\ Asked(u)' = Asked(u)
    BY OthersSet
  <1>4. Disturbed' <=> Disturbed
    BY <1>1, <1>3 DEF Disturbed
  <1>5. CASE apart
    BY <1>1, <1>5 DEF RtcInv
  <1>6. CASE ~apart
    <2> USE DEF RtcInv
    <2>1. /\ sync' # "none" => \A u \in Callers : ~Setting(u)'
          /\ \A u, v \in Callers : Setting(u)' /\ Setting(v)' => u = v
      BY <1>1, <1>3, <1>6
    <2>2. ASSUME NEW u \in Callers
          PROVE  /\ At(u, {"date_time"}, "nsec")' => tm'[1] = Asked(u)'
                 /\ At(u, {"date_time"}, "rtc")' => tm' = <<Asked(u)', Asked(u)'>>
                 /\ At(u, {"date_time"}, "clock")' => rtc' = <<Asked(u)', Asked(u)'>>
      BY <1>1, <1>2, <1>3, <1>6
    <2>3. /\ sync' = "rtc" => tm' = <<NtpTime, NtpTime>> /\ sys_clock' = NtpTime
          /\ has_rtc' /\ ClockReady' /\ (sync' = "done" \/ ~Disturbed') =>
                rtc' = <<sys_clock', sys_clock'>>
      BY <1>1, <1>4, <1>6
    <2> QED
      BY <1>1, <2>1, <2>2, <2>3
  <1> QED
    BY <1>5, <1>6

\* A PATCH of the date and time: the static tm, the RTC, then the system clock
\* (rtc.c:16-43, 107-131).
LEMMA RtcDateTime ==
    ASSUME CallInv, NtpInv, RtcInv, NEW t \in Threads, time_set_from_iso_str(t)
    PROVE  RtcInv'
  <1>1. TimeMoved(t)
    BY DateTimeMoves
  <1>2. /\ Busy(t) /\ Others(t) /\ Cur(t).set = "date_time"
        /\ pc'[t] = "begin" \/ (Busy(t)' /\ Cur(t)' = Cur(t))
    BY <1>1 DEF TimeMoved, Moved, time_set_from_iso_str, RefuseDateTime, FillTm, FillNsec,
                rtc_set_time, sys_clock_settime, At
  <1>3. t \in Callers /\ boot_finished /\ ~Busy("main") /\ ~Busy("main")'
    <2>1. t \in Callers /\ t # "main"
      BY <1>2, ItemFacts DEF Threads
    <2>2. boot_finished /\ ~Busy("main")
      BY <1>2, <2>1 DEF CallInv, Busy
    <2> QED
      BY <1>2, <2>1, <2>2 DEF Others, Threads
  <1>4. ClockReady
    BY <1>3 DEF ClockReady
  <1>5. \A u \in Callers : u # t =>
              /\ \A p : At(u, {"date_time"}, p)' <=> At(u, {"date_time"}, p)
              /\ Setting(u)' <=> Setting(u)
              /\ Asked(u)' = Asked(u)
    BY <1>2, OthersSet
  <1>6. \A p : Goto(t, p) => /\ Asked(t)' = Asked(t)
                            /\ \A q : At(t, {"date_time"}, q)' <=> q = p
    <2> SUFFICES ASSUME NEW p, Goto(t, p)
                 PROVE  Asked(t)' = Asked(t) /\ \A q : At(t, {"date_time"}, q)' <=> q = p
      OBVIOUS
    <2>1. pc'[t] = p /\ Busy(t)' /\ Cur(t)' = Cur(t)
      BY <1>2, GotoMoves
    <2>2. Asked(t)' = Asked(t)
      BY <2>1 DEF Asked, time_iso_to_ts, Frac
    <2> QED
      BY <1>2, <2>1, <2>2 DEF At, Busy
  <1>7. Return(t, TRUE) \/ Return(t, FALSE) =>
            ~Setting(t)' /\ \A q \in {"nsec", "rtc", "clock"} : ~At(t, {"date_time"}, q)'
    <2> SUFFICES ASSUME Return(t, TRUE) \/ Return(t, FALSE)
                 PROVE  ~Setting(t)' /\ \A q \in {"nsec", "rtc", "clock"} : ~At(t, {"date_time"}, q)'
      OBVIOUS
    <2>1. errors' \in Nat
      BY <1>1 DEF TimeMoved
    <2>2. pc'[t] = "begin"
      BY <1>2, <2>1, ReturnMoves
    <2> QED
      BY <2>2 DEF Setting, At
  <1>8. sync' = sync /\ has_rtc' = has_rtc
    BY DEF time_set_from_iso_str, RefuseDateTime, FillTm, FillNsec, rtc_set_time,
           sys_clock_settime, clockVars
  <1>9. CASE RefuseDateTime(t)
    <2>1. Return(t, FALSE) /\ UNCHANGED clockVars /\ pc[t] = "begin"
      BY <1>9 DEF RefuseDateTime, At
    <2>2. ~Setting(t) /\ ~Setting(t)'
      BY <1>7, <2>1 DEF Setting, At
    <2> QED
      BY <1>2, <1>3, <1>4, <2>1, <2>2, RtcFrame
  <1>10. CASE FillTm(t)
    <2>1. /\ Goto(t, "nsec") /\ tm' = <<Asked(t), tm[2]>> /\ apart' = Disturbed
          /\ UNCHANGED <<sys_clock, rtc>>
      BY <1>10 DEF FillTm
    <2>2. /\ At(t, {"date_time"}, "nsec")' /\ ~At(t, {"date_time"}, "rtc")'
          /\ ~At(t, {"date_time"}, "clock")' /\ Asked(t)' = Asked(t)
      BY <1>6, <2>1
    <2>3. apart' \in BOOLEAN
      BY <2>1 DEF Disturbed
    <2>4. Disturbed'
      BY <1>3, <2>2 DEF Disturbed, Setting
    <2>5. CASE apart'
      BY <1>3, <1>8, <2>3, <2>5 DEF RtcInv
    <2>6. CASE ~apart'
      <3>1. sync = "none" /\ \A u \in Callers : ~Setting(u)
        BY <2>1, <2>6 DEF Disturbed
      <3>2. \A u \in Callers : u # t => ~Setting(u)' /\ ~At(u, {"date_time"}, "nsec")'
                /\ ~At(u, {"date_time"}, "rtc")' /\ ~At(u, {"date_time"}, "clock")'
        BY <1>5, <3>1 DEF Setting
      <3>3. tm'[1] = Asked(t)'
        BY <2>1, <2>2
      <3> QED
        BY <1>3, <1>8, <2>2, <2>3, <2>4, <3>1, <3>2, <3>3 DEF RtcInv
    <2> QED
      BY <2>5, <2>6
  <1>11. ASSUME Setting(t), apart' = apart, Setting(t)',
                ~apart => /\ At(t, {"date_time"}, "nsec")' => tm'[1] = Asked(t)'
                          /\ At(t, {"date_time"}, "rtc")' => tm' = <<Asked(t)', Asked(t)'>>
                          /\ At(t, {"date_time"}, "clock")' => rtc' = <<Asked(t)', Asked(t)'>>
         PROVE  RtcInv'
    <2>1. Disturbed'
      BY <1>3, <1>11 DEF Disturbed
    <2>2. CASE apart'
      BY <1>3, <1>8, <1>11, <2>2 DEF RtcInv
    <2>3. CASE ~apart'
      <3>1. sync = "none" /\ \A u \in Callers : u # t => ~Setting(u)
        BY <1>3, <1>11, <2>3 DEF RtcInv
      <3>2. \A u \in Callers : u # t => ~Setting(u)' /\ ~At(u, {"date_time"}, "nsec")'
                /\ ~At(u, {"date_time"}, "rtc")' /\ ~At(u, {"date_time"}, "clock")'
        BY <1>5, <3>1 DEF Setting
      <3> QED
        BY <1>3, <1>8, <1>11, <2>1, <2>3, <3>1, <3>2 DEF RtcInv
    <2> QED
      BY <2>2, <2>3
  <1>12. CASE FillNsec(t)
    <2>1. /\ Goto(t, "rtc") /\ tm' = <<tm[1], Asked(t)>> /\ UNCHANGED <<sys_clock, rtc, apart>>
          /\ At(t, {"date_time"}, "nsec")
      BY <1>12 DEF FillNsec
    <2>2. /\ ~At(t, {"date_time"}, "nsec")' /\ At(t, {"date_time"}, "rtc")'
          /\ ~At(t, {"date_time"}, "clock")' /\ Asked(t)' = Asked(t)
      BY <1>6, <2>1
    <2>3. ~apart => tm[1] = Asked(t)
      BY <1>3, <2>1 DEF RtcInv
    <2> QED
      BY <1>11, <2>1, <2>2, <2>3 DEF Setting
  <1>13. CASE rtc_set_time(t)
    <2>1. CASE rtc' = tm /\ Goto(t, "clock") /\ UNCHANGED <<apart, errors>>
      <3>1. /\ ~At(t, {"date_time"}, "nsec")' /\ ~At(t, {"date_time"}, "rtc")'
            /\ At(t, {"date_time"}, "clock")' /\ Asked(t)' = Asked(t)
        BY <1>6, <2>1
      <3>2. At(t, {"date_time"}, "rtc")
        BY <1>13 DEF rtc_set_time
      <3>3. ~apart => tm = <<Asked(t), Asked(t)>>
        BY <1>3, <3>2 DEF RtcInv
      <3> QED
        BY <1>11, <2>1, <3>1, <3>2, <3>3 DEF Setting
    <2>2. CASE apart' = TRUE
      BY <1>3, <1>8, <2>2 DEF RtcInv
    <2> QED
      BY <1>13, <2>1, <2>2 DEF rtc_set_time
  <1>14. CASE sys_clock_settime(t)
    <2>1. CASE sys_clock' = Asked(t) /\ Return(t, TRUE) /\ UNCHANGED apart
      <3>1. ~Setting(t)' /\ \A q \in {"nsec", "rtc", "clock"} : ~At(t, {"date_time"}, q)'
        BY <1>7, <2>1
      <3>2. At(t, {"date_time"}, "clock") /\ UNCHANGED <<rtc, tm>>
        BY <1>14 DEF sys_clock_settime
      <3>3. CASE apart
        BY <1>3, <1>8, <2>1, <3>3 DEF RtcInv
      <3>4. CASE ~apart
        <4>1. Setting(t) /\ rtc = <<Asked(t), Asked(t)>>
          BY <1>3, <3>2, <3>4 DEF RtcInv, Setting
        <4>2. sync = "none" /\ \A u \in Callers : u # t => ~Setting(u)
          BY <1>3, <3>4, <4>1 DEF RtcInv
        <4>3. \A u \in Callers : ~Setting(u)' /\ ~At(u, {"date_time"}, "nsec")'
                  /\ ~At(u, {"date_time"}, "rtc")' /\ ~At(u, {"date_time"}, "clock")'
          BY <1>5, <3>1, <4>2 DEF Setting
        <4>4. rtc' = <<sys_clock', sys_clock'>>
          BY <2>1, <3>2, <4>1
        <4> QED
          BY <1>3, <1>8, <2>1, <3>4, <4>2, <4>3, <4>4 DEF RtcInv
      <3> QED
        BY <3>3, <3>4 DEF RtcInv
    <2>2. CASE apart' = TRUE
      BY <1>3, <1>8, <2>2 DEF RtcInv
    <2> QED
      BY <1>14, <2>1, <2>2 DEF sys_clock_settime
  <1> QED
    BY <1>9, <1>10, <1>12, <1>13, <1>14 DEF time_set_from_iso_str

\* rtc_init sets the system clock from the RTC (rtc.c:133-181).
LEMMA RtcBoot ==
    ASSUME CallInv, NtpInv, RtcInv, rtc_init
    PROVE  RtcInv'
  <1>1. TimeMoved("main") /\ "main" \in Threads
    BY TimeInitMoves DEF Threads
  <1>2. /\ Busy("main") /\ Others("main") /\ Cur("main").set = "rtc_init"
        /\ UNCHANGED <<has_rtc, tm, sync, apart>>
    BY <1>1 DEF TimeMoved, Moved, rtc_init, At
  <1>3. sync = "none" /\ ~boot_finished /\ \A t \in Callers : ~Setting(t)
    BY <1>2, ClockUntouched
  <1>4. \A u \in Callers : ~Setting(u)' /\ ~At(u, {"date_time"}, "nsec")'
            /\ ~At(u, {"date_time"}, "rtc")' /\ ~At(u, {"date_time"}, "clock")'
    <2>1. \A u \in Callers : u # "main"
      BY DEF Callers
    <2> QED
      BY <1>1, <1>2, <1>3, <2>1, OthersSet DEF Setting
  <1>5. rtc \in {<<Unset, Unset>>, <<BootTime, BootTime>>}
    BY <1>2 DEF RtcInv
  <1>6. ~(Busy("main")' /\ Cur("main")'.set = "rtc_init")
    <2>1. PICK ok \in BOOLEAN : Return("main", ok)
      BY DEF rtc_init
    <2>2. MainMoves(ok)
      BY <1>1, <1>2, <2>1, ReturnMoves DEF TimeMoved
    <2> QED
      BY <1>2, <2>2 DEF MainMoves
  <1>7. has_rtc' /\ ClockReady' => rtc' = <<sys_clock', sys_clock'>>
    <2>1. CASE ~has_rtc
      BY <1>2, <2>1
    <2>2. CASE has_rtc /\ Return("main", FALSE)
      <3>1. MainMoves(FALSE) /\ boot_finished' = boot_finished
        BY <1>1, <1>2, <2>2, ReturnMoves DEF TimeMoved
      <3> QED
        BY <1>3, <3>1 DEF MainMoves, ClockReady
    <2>3. CASE /\ rtc' = IF rtc[1] = Unset THEN <<BootTime, BootTime>> ELSE rtc
               /\ sys_clock' = rtc'[1]
      BY <1>5, <2>3 DEF Unset, BootTime
    <2> QED
      BY <2>1, <2>2, <2>3 DEF rtc_init
  <1> QED
    BY <1>2, <1>3, <1>4, <1>6, <1>7 DEF RtcInv

\* NTP sets the system clock and then the RTC (ntp.c:23-45, rtc.c:16-63).
LEMMA RtcHandler ==
    ASSUME CallInv, NtpInv, RtcInv, ntp_sync_work_handler
    PROVE  RtcInv'
  <1>1. UNCHANGED callVars /\ has_rtc' = has_rtc
    BY DEF ntp_sync_work_handler, SyncBegin, SyncAnswered, SyncFailed, SyncEnd, SntpSetClock,
           rtc_set_from_clock, settingVars, clockVars
  <1>2. \A u \in Callers : /\ \A p : At(u, {"date_time"}, p)' <=> At(u, {"date_time"}, p)
                           /\ Setting(u)' <=> Setting(u)
                           /\ Asked(u)' = Asked(u)
    BY <1>1 DEF callVars, At, Setting, Asked, time_iso_to_ts, Frac, Cur
  <1>3. /\ ClockReady' <=> ClockReady
        /\ Busy("main")' <=> Busy("main")
        /\ Cur("main")' = Cur("main")
    BY <1>1 DEF callVars, ClockReady, Busy, Cur
  <1>4. CASE SyncBegin \/ SyncFailed
    <2>1. UNCHANGED <<has_rtc, sys_clock, rtc, tm, sync, apart>>
      BY <1>4 DEF SyncBegin, SyncFailed, clockVars
    <2>2. Disturbed' <=> Disturbed
      BY <1>2, <2>1 DEF Disturbed
    <2>3. CASE apart
      BY <1>3, <2>1, <2>3 DEF RtcInv
    <2>4. CASE ~apart
      BY <1>2, <1>3, <2>1, <2>2, <2>4 DEF RtcInv
    <2> QED
      BY <2>3, <2>4
  <1>5. CASE SyncAnswered
    <2>1. /\ sync = "none" /\ sys_clock' = NtpTime /\ apart' = Disturbed /\ rtc' = rtc
          /\ has_rtc => sync' = "rtc" /\ tm' = <<NtpTime, NtpTime>>
          /\ ~has_rtc => sync' = "done"
      BY <1>5 DEF SyncAnswered, SntpSetClock
    <2>2. apart' \in BOOLEAN /\ (~apart' => \A u \in Callers : ~Setting(u))
      BY <2>1 DEF Disturbed
    <2>3. ~apart' => \A u \in Callers : ~Setting(u)' /\ ~At(u, {"date_time"}, "nsec")'
            /\ ~At(u, {"date_time"}, "rtc")' /\ ~At(u, {"date_time"}, "clock")'
      BY <1>2, <2>2 DEF Setting
    <2>4. Disturbed'
      BY <2>1 DEF Disturbed
    <2>5. sync' \in {"none", "rtc", "done"} /\ (sync' = "rtc" => has_rtc) /\
          (sync' = "done" => ~has_rtc)
      BY <2>1
    <2>6. ~apart' /\ sync' = "rtc" => tm' = <<NtpTime, NtpTime>> /\ sys_clock' = NtpTime
      BY <2>1, <2>5
    <2> QED
      BY <1>1, <1>3, <2>1, <2>2, <2>3, <2>4, <2>5, <2>6 DEF RtcInv
  <1>6. CASE SyncEnd
    <2>1. sync = "done" /\ sync' = "none" /\ UNCHANGED <<has_rtc, sys_clock, rtc, tm, apart>>
      BY <1>6 DEF SyncEnd
    <2>2. CASE apart
      BY <1>3, <2>1, <2>2 DEF RtcInv
    <2>3. CASE ~apart
      BY <1>2, <1>3, <2>1, <2>3 DEF RtcInv
    <2> QED
      BY <2>2, <2>3
  <1>7. CASE rtc_set_from_clock
    <2>1. ~(Busy("main")' /\ Cur("main")'.set = "rtc_init")
      BY <1>3, <1>7, ClockUntouched DEF rtc_set_from_clock
    <2>2. sync = "rtc" /\ sync' = "done" /\ UNCHANGED <<has_rtc, sys_clock, tm>>
      BY <1>7 DEF rtc_set_from_clock
    <2>3. CASE rtc' = tm /\ UNCHANGED <<apart, errors>>
      <3>1. CASE apart
        BY <2>1, <2>2, <2>3, <3>1 DEF RtcInv
      <3>2. CASE ~apart
        <4>1. tm = <<NtpTime, NtpTime>> /\ sys_clock = NtpTime /\ \A u \in Callers : ~Setting(u)
          BY <2>2, <3>2 DEF RtcInv
        <4>2. \A u \in Callers : ~Setting(u)' /\ ~At(u, {"date_time"}, "nsec")'
                /\ ~At(u, {"date_time"}, "rtc")' /\ ~At(u, {"date_time"}, "clock")'
          BY <1>2, <4>1 DEF Setting
        <4>3. rtc' = <<sys_clock', sys_clock'>>
          BY <2>2, <2>3, <4>1
        <4> QED
          BY <2>1, <2>2, <2>3, <3>2, <4>2, <4>3 DEF RtcInv
      <3> QED
        BY <3>1, <3>2 DEF RtcInv
    <2>4. CASE apart' = TRUE
      BY <2>1, <2>2, <2>4 DEF RtcInv
    <2> QED
      BY <1>7, <2>3, <2>4 DEF rtc_set_from_clock
  <1> QED
    BY <1>4, <1>5, <1>6, <1>7 DEF ntp_sync_work_handler

\* A thread in a setting of NTP or of the clocks keeps the clocks' invariant.
LEMMA RtcThread ==
    ASSUME ConfigInv, CallInv, NtpInv, RtcInv, NEW t \in Threads, TimeThread(t)
    PROVE  RtcInv'
  <1>1. TimeMoved(t)
    BY TimeStepMoves DEF TimeThread
  <1>2. CASE \/ start_ntp(t) \/ stop_ntp(t)
             \/ config_bmc_use_ntp_set(t) \/ config_bmc_ntp_server_set(t)
             \/ t = "main" /\ ntp_init
    <2>1. UNCHANGED clockVars
      BY <1>2 DEF start_ntp, stop_ntp, StartCheck, StartWork, StartEnd, StopCheck, Cancel,
                  Cancelled, StopEnd, config_bmc_use_ntp_set, config_bmc_ntp_server_set,
                  CopyServer, CopyServerEnd, RestartNtp, ntp_init
    <2>2. /\ Busy(t) /\ Others(t)
          /\ pc'[t] = "begin" \/ (Busy(t)' /\ Cur(t)' = Cur(t))
          /\ CallInv' /\ (NetReady' <=> NetReady)
      BY <1>1 DEF TimeMoved, Moved
    <2>3. pc'[t] = "begin" \/ (Cur(t)' = Cur(t) /\ Placed(t)')
      BY <2>2 DEF CallInv
    <2>4. Cur(t).set \in {"use_ntp", "ntp_server", "ntp_init"}
      <3>1. CASE start_ntp(t) \/ stop_ntp(t)
        <4>1. pc[t] \in StartPlaces \cup StopPlaces
          BY <3>1 DEF start_ntp, stop_ntp, StartCheck, StartWork, StartEnd, StopCheck, Cancel,
                      Cancelled, StopEnd, StartPlaces, StopPlaces
        <4> QED
          BY <2>2, <4>1, ItemFacts DEF Placed, Ip4Places, StartPlaces, StopPlaces
      <3>2. CASE config_bmc_use_ntp_set(t) \/ config_bmc_ntp_server_set(t)
                 \/ (t = "main" /\ ntp_init)
        BY <3>2 DEF config_bmc_use_ntp_set, config_bmc_ntp_server_set, CopyServer,
                    CopyServerEnd, RestartNtp, ntp_init, At
      <3> QED
        BY <1>2, <3>1, <3>2
    <2>5. ~Setting(t) /\ ~Setting(t)'
      BY <2>3, <2>4 DEF Setting, At
    <2>6. ClockReady /\ ~(Busy("main")' /\ Cur("main")'.set = "rtc_init")
      <3>1. CASE t = "main"
        <4>1. Cur("main").set = "ntp_init"
          BY <2>2, <2>4, <3>1, ItemFacts
        <4>2. NetReady /\ ClockReady
          BY <2>2, <3>1, <4>1 DEF NetReady, ClockReady
        <4>3. boot_finished' => ~Busy("main")'
          BY <2>2 DEF CallInv, Busy
        <4> QED
          BY <2>2, <4>2, <4>3 DEF NetReady
      <3>2. CASE t # "main"
        <4>1. boot_finished /\ ~Busy("main")
          BY <2>2, <3>2 DEF CallInv, Threads, Busy
        <4> QED
          BY <2>2, <3>2, <4>1 DEF ClockReady, Others, Threads
      <3> QED
        BY <3>1, <3>2
    <2> QED
      BY <2>1, <2>2, <2>5, <2>6, RtcFrame
  <1> QED
    BY <1>2, RtcDateTime, RtcBoot DEF TimeThread, TimeSteps

\* A thread in a network setting leaves the clocks alone.
LEMMA RtcNet ==
    ASSUME ConfigInv, CallInv, RtcInv, NEW t \in Threads,
           NetSteps(t) \/ (t = "main" /\ net_init), UNCHANGED clockVars
    PROVE  RtcInv'
  <1>1. /\ Busy(t) /\ Others(t) /\ boot_finished' = boot_finished /\ Cur(t).set \in NetSets
        /\ pc'[t] = "begin" \/ (Busy(t)' /\ Cur(t)' = Cur(t))
        /\ t = "main" /\ Busy("main")' =>
              Cur("main")'.set \in {"init_ip", "init_dhcp", "ntp_init"}
    BY NetStepMoves DEF NetMoved, Moved
  <1>2. ~Setting(t) /\ ~Setting(t)'
    BY <1>1 DEF Setting, At, NetSets
  <1>3. /\ ClockReady' => ClockReady
        /\ Busy("main")' /\ Cur("main")'.set = "rtc_init" =>
              Busy("main") /\ Cur("main").set = "rtc_init"
    <2>1. CASE t = "main"
      BY <1>1, <2>1 DEF ClockReady, NetSets
    <2>2. CASE t # "main"
      BY <1>1, <2>2 DEF ClockReady, Others, Threads
    <2> QED
      BY <2>1, <2>2
  <1> QED
    BY <1>1, <1>2, <1>3, RtcFrame

\* So does a write, and a call that begins.
LEMMA RtcOther ==
    ASSUME CallInv, RtcInv, UNCHANGED clockVars,
           \/ \E t \in Threads : Write(t)
           \/ \E t \in Callers, c \in Seq(CallItem) : Call(t, c)
    PROVE  RtcInv'
  <1>1. PICK t \in Threads : /\ Others(t) /\ t # "main" /\ boot_finished' = boot_finished
                            /\ pc[t] \in {"begin", "write"} /\ pc'[t] \in {"begin", "restart"}
    <2>1. CASE \E t \in Threads : Write(t)
      BY <2>1, WriteMoves DEF Moved
    <2>2. CASE \E t \in Callers, c \in Seq(CallItem) : Call(t, c)
      BY <2>2, CallMoves DEF Callers, Threads
    <2> QED
      BY <2>1, <2>2
  <1>2. ~Setting(t) /\ ~Setting(t)'
    BY <1>1 DEF Setting, At
  <1>3. /\ ClockReady' <=> ClockReady
        /\ Busy("main")' <=> Busy("main")
        /\ Cur("main")' = Cur("main")
    BY <1>1 DEF ClockReady, Others, Threads
  <1> QED
    BY <1>1, <1>2, <1>3, RtcFrame

-----------------------------------------------------------------------------
(* DHCP runs if it is wanted.                                              *)

\* Without an overlap a caller in a call is alone, and main has ended.
LEMMA CallerAlone ==
    ASSUME CallInv, NEW t \in Threads, t # "main", Busy(t), Others(t), ~overlapped
    PROVE  /\ \A u \in Threads : u # t => ~Busy(u) /\ ~Busy(u)'
           /\ boot_finished /\ ~Busy("main") /\ ~Busy("main")'
  <1>1. \A u \in Threads : u # t => ~Busy(u) /\ ~Busy(u)'
    BY OnlyOne
  <1>2. boot_finished
    BY DEF CallInv, Threads
  <1> QED
    BY <1>1, <1>2 DEF Threads

\* A caller's step in a network setting (config.c:191-451, net.c:27-140).
LEMMA DhcpCaller ==
    ASSUME ConfigInv, CallInv, DhcpInv, NEW t \in Threads, t # "main", NetSteps(t)
    PROVE  DhcpInv'
  <1>1. /\ Busy(t) /\ Others(t) /\ overlapped' = overlapped /\ boot_finished' = boot_finished
        /\ pc'[t] = "begin" \/ (Busy(t)' /\ Cur(t)' = Cur(t))
    BY NetStepMoves DEF NetMoved, Moved
  <1> SUFFICES ASSUME ~overlapped PROVE DhcpInv'
    BY <1>1 DEF DhcpInv
  <1>2. /\ \A u \in Threads : u # t => ~Busy(u) /\ ~Busy(u)'
        /\ boot_finished /\ ~Busy("main") /\ ~Busy("main")'
    BY <1>1, CallerAlone
  <1> DEFINE AtRestart == Busy(t) /\ Cur(t).set = "hostname" /\ pc[t] = "restart"
  <1>3. /\ Switching(t) => /\ config_data.use_dhcp4 = Cur(t).val
                            /\ (dhcp # "off") = ~config_data.use_dhcp4
        /\ ~Switching(t) => (dhcp # "off") = config_data.use_dhcp4
        /\ AtRestart => config_data.use_dhcp4
    BY <1>2 DEF DhcpInv, NetReady, Switching
  <1>4. SUFFICES
          /\ Switching(t)' => /\ config_data'.use_dhcp4 = Cur(t)'.val
                              /\ (dhcp' # "off") = ~config_data'.use_dhcp4
          /\ ~Switching(t)' => (dhcp' # "off") = config_data'.use_dhcp4
          /\ AtRestart' => config_data'.use_dhcp4
    BY <1>1, <1>2, <1>4 DEF DhcpInv, Switching, MainAt
  <1>5. config_data.use_dhcp4 \in BOOLEAN
    BY DEF ConfigInv
  <1>6. \A p \in {"begin", "ip4", "gw", "rm", "add", "nm", "write", "dhcp?"} : pc'[t] = p =>
            ~Switching(t)' /\ ~AtRestart'
    BY DEF Switching
  <1>7. pc'[t] = "begin" => ~Switching(t)' /\ ~AtRestart'
    BY <1>6
  <1>8. ASSUME dhcp' = dhcp, config_data'.use_dhcp4 = config_data.use_dhcp4,
               ~Switching(t), ~Switching(t)', ~AtRestart'
        PROVE  /\ Switching(t)' => /\ config_data'.use_dhcp4 = Cur(t)'.val
                                   /\ (dhcp' # "off") = ~config_data'.use_dhcp4
               /\ ~Switching(t)' => (dhcp' # "off") = config_data'.use_dhcp4
               /\ AtRestart' => config_data'.use_dhcp4
    BY <1>3, <1>8
  <1> HIDE DEF AtRestart
  <1>9. CASE net_do_set_default_ip4(t)
    <2>1. dhcp' = dhcp /\ config_data' = config_data /\ pc[t] \in Ip4Places
      BY <1>9 DEF net_do_set_default_ip4, ReadIp4, SetGateway, RemoveStatic, AddNothing,
                  AddStatic, AddStaticError, SetNetmask, Ip4Places
    <2>2. pc'[t] \in {"begin", "gw", "rm", "add", "nm", "write"}
      <3>1. \/ \E p \in {"gw", "rm", "add", "nm", "write"} : Goto(t, p)
            \/ Return(t, TRUE) \/ Return(t, FALSE)
        BY <1>9 DEF net_do_set_default_ip4, ReadIp4, SetGateway, RemoveStatic, AddNothing,
                    AddStatic, AddStaticError, SetNetmask, Applied
      <3>2. errors' \in Nat
        BY NetStepMoves DEF NetMoved
      <3> QED
        BY <1>1, <3>1, <3>2, GotoMoves, ReturnMoves
    <2>3. ~Switching(t)
      BY <2>1 DEF Switching, Ip4Places
    <2> QED
      BY <1>6, <1>8, <2>1, <2>2, <2>3
  <1>10. CASE config_bmc_hostname_set(t)
    <2>1. ~Switching(t) /\ Cur(t).set = "hostname" /\ config_data' = config_data
      BY <1>10 DEF config_bmc_hostname_set, SetHostname, AskDhcp, restart_dhcp4, At, Switching
    <2>2. ~Switching(t)'
      BY <1>1, <2>1 DEF Switching
    <2>3. CASE SetHostname(t)
      <3>1. pc'[t] \in {"begin", "dhcp?"}
        <4>1. Goto(t, "dhcp?") \/ Return(t, FALSE)
          BY <2>3 DEF SetHostname
        <4>2. errors' \in Nat
          BY NetStepMoves DEF NetMoved
        <4> QED
          BY <1>1, <4>1, <4>2, GotoMoves, ReturnMoves
      <3>2. dhcp' = dhcp
        BY <2>3 DEF SetHostname, netVars
      <3> QED
        BY <1>6, <1>8, <2>1, <3>1, <3>2
    <2>4. CASE AskDhcp(t)
      <3>1. dhcp' = dhcp /\ Goto(t, IF config_data.use_dhcp4 THEN "restart" ELSE "write")
        BY <2>4 DEF AskDhcp, netVars
      <3>2. pc'[t] = IF config_data.use_dhcp4 THEN "restart" ELSE "write"
        BY <1>1, <3>1, GotoMoves
      <3>3. AtRestart' => config_data.use_dhcp4
        BY <3>2 DEF AtRestart
      <3> QED
        BY <1>3, <2>1, <2>2, <3>1, <3>3
    <2>5. CASE restart_dhcp4(t)
      <3>1. dhcp' = "selecting" /\ Goto(t, "write") /\ AtRestart
        BY <1>1, <2>5 DEF restart_dhcp4, net_dhcpv4_restart, AtRestart, At
      <3>2. pc'[t] = "write"
        BY <1>1, <3>1, GotoMoves
      <3>3. config_data.use_dhcp4 /\ ~AtRestart'
        BY <1>3, <1>6, <3>1, <3>2
      <3> QED
        BY <1>5, <2>1, <2>2, <3>1, <3>3
    <2> QED
      BY <1>10, <2>3, <2>4, <2>5 DEF config_bmc_hostname_set
  <1>11. CASE config_bmc_default_ip4_set(t)
    <2>1. dhcp' = dhcp /\ Cur(t).set \in {"ip4", "nm", "gw"} /\ pc[t] = "begin"
      BY <1>11 DEF config_bmc_default_ip4_set, netVars, At
    <2>2. ~Switching(t) /\ ~Switching(t)' /\ ~AtRestart'
      BY <1>1, <2>1 DEF Switching, AtRestart
    <2>3. config_data'.use_dhcp4 = config_data.use_dhcp4
      BY <1>11, <2>1 DEF config_bmc_default_ip4_set, ConfigInv
    <2> QED
      BY <1>8, <2>1, <2>2, <2>3
  <1>12. CASE StoreUseDhcp(t)
    <2>1. dhcp' = dhcp /\ Cur(t).set = "use_dhcp4" /\ ~Switching(t)
      BY <1>12 DEF StoreUseDhcp, netVars, At, Switching
    <2>2. Cur(t).val \in BOOLEAN
      BY <1>1, <2>1, ItemFacts
    <2>3. CASE config_data.use_dhcp4 = Cur(t).val
      <3>1. Return(t, TRUE) /\ config_data' = config_data
        BY <1>12, <2>3 DEF StoreUseDhcp
      <3>2. errors' \in Nat
        BY NetStepMoves DEF NetMoved
      <3>3. pc'[t] = "begin"
        BY <1>1, <3>1, <3>2, ReturnMoves
      <3> QED
        BY <1>7, <1>8, <2>1, <3>1, <3>3
    <2>4. CASE config_data.use_dhcp4 # Cur(t).val
      <3>1. Goto(t, "switch") /\ config_data' = [config_data EXCEPT !.use_dhcp4 = Cur(t).val]
        BY <1>12, <2>4 DEF StoreUseDhcp
      <3>2. pc'[t] = "switch" /\ Busy(t)' /\ Cur(t)' = Cur(t)
        BY <1>1, <3>1, GotoMoves
      <3>3. Switching(t)' /\ ~AtRestart'
        BY <2>1, <3>2 DEF Switching, AtRestart
      <3>4. config_data'.use_dhcp4 = Cur(t).val
        BY <3>1 DEF ConfigInv
      <3>5. (dhcp # "off") = config_data.use_dhcp4
        BY <1>3, <2>1
      <3>6. (dhcp # "off") = ~Cur(t).val
        BY <1>5, <2>2, <2>4, <3>5
      <3> QED
        BY <2>1, <3>2, <3>3, <3>4, <3>6
    <2> QED
      BY <2>3, <2>4
  <1>13. CASE SwitchDhcp(t)
    <2>1. Switching(t) /\ config_data' = config_data
      BY <1>1, <1>13 DEF SwitchDhcp, At, Switching
    <2>2. config_data.use_dhcp4 = Cur(t).val /\ (dhcp # "off") = ~config_data.use_dhcp4
      BY <1>3, <2>1
    <2>3. CASE Cur(t).val
      <3>1. net_dhcpv4_start /\ Goto(t, "write")
        BY <1>13, <2>3 DEF SwitchDhcp
      <3>2. dhcp = "off"
        BY <1>5, <2>2, <2>3
      <3>3. dhcp' # "off" /\ pc'[t] = "write"
        BY <1>1, <3>1, <3>2, GotoMoves DEF net_dhcpv4_start
      <3> QED
        BY <1>5, <1>6, <2>1, <2>2, <2>3, <3>3
    <2>4. CASE ~Cur(t).val
      <3>1. net_dhcpv4_stop /\ Goto(t, "ip4")
        BY <1>13, <2>4 DEF SwitchDhcp
      <3>2. dhcp' = "off" /\ pc'[t] = "ip4"
        BY <1>1, <3>1, GotoMoves DEF net_dhcpv4_stop
      <3> QED
        BY <1>5, <1>6, <2>1, <2>2, <2>4, <3>2
    <2> QED
      BY <2>3, <2>4
  <1> QED
    BY <1>9, <1>10, <1>11, <1>12, <1>13 DEF NetSteps, config_bmc_use_dhcp4_set

\* Main's steps in net_init: DHCP is started, and stopped again if it is not
\* wanted (net.c:142-188).
LEMMA DhcpMain ==
    ASSUME ConfigInv, CallInv, DhcpInv, NetSteps("main") \/ net_init
    PROVE  DhcpInv'
  <1>0. "main" \in Threads
    BY DEF Threads
  <1>1. /\ Busy("main") /\ Others("main") /\ overlapped' = overlapped
        /\ boot_finished' = boot_finished /\ errors' \in Nat
        /\ pc'["main"] = "begin" \/ (Busy("main")' /\ Cur("main")' = Cur("main"))
        /\ Cur("main").set \in NetSets
        /\ Busy("main")' => Cur("main")'.set \in {"init_ip", "init_dhcp", "ntp_init"}
    BY <1>0, NetStepMoves DEF NetMoved, Moved
  <1>2. Cur("main").set \in {"init_ip", "init_dhcp"} /\ Placed("main")
    BY <1>0, <1>1, ItemFacts DEF NetSets
  <1>3. ~boot_finished /\ ~overlapped
    BY <1>1 DEF CallInv, Busy
  <1>4. \A u \in Threads : u # "main" => ~Busy(u) /\ ~Busy(u)'
    BY <1>0, <1>1, <1>3, OnlyOne
  <1>5. \A u \in Threads : ~Switching(u)' /\ ~(Busy(u)' /\ Cur(u)'.set = "hostname" /\ pc'[u] = "restart")
    BY <1>1, <1>4 DEF Switching
  <1>6. /\ ~(Cur("main").set = "init_dhcp" /\ pc["main"] = "want") => dhcp = "off"
        /\ Cur("main").set = "init_dhcp" /\ pc["main"] = "want" => dhcp # "off"
        /\ Cur("main").set = "init_dhcp" /\ pc["main"] \in Ip4Places => ~config_data.use_dhcp4
    BY <1>1, <1>2, <1>3 DEF DhcpInv, NetReady, MainAt
  <1>7. config_data.use_dhcp4 \in BOOLEAN /\ config_data' = config_data
    <2>1. config_data' = config_data
      <3>1. NetSteps("main") => net_do_set_default_ip4("main")
        BY <1>2 DEF NetSteps, config_bmc_hostname_set, SetHostname, AskDhcp, restart_dhcp4,
                    config_bmc_default_ip4_set, config_bmc_use_dhcp4_set, StoreUseDhcp,
                    SwitchDhcp, At
      <3> QED
        BY <1>0, <3>1, Ip4Moves, NetInitMoves
    <2> QED
      BY <2>1 DEF ConfigInv
  <1>8. SUFFICES
          /\ NetReady' => (dhcp' # "off") = config_data.use_dhcp4
          /\ ~NetReady' /\ Busy("main")' /\ ~MainAt("init_dhcp", "want")' => dhcp' = "off"
          /\ MainAt("init_dhcp", "want")' => dhcp' # "off"
          /\ Busy("main")' /\ Cur("main")'.set = "init_dhcp" /\ pc'["main"] \in Ip4Places =>
                ~config_data.use_dhcp4
    BY <1>5, <1>7, <1>8 DEF DhcpInv
  <1>9. CASE net_do_set_default_ip4("main")
    <2>1. dhcp' = dhcp /\ pc["main"] \in Ip4Places
      BY <1>9 DEF net_do_set_default_ip4, ReadIp4, SetGateway, RemoveStatic, AddNothing,
                  AddStatic, AddStaticError, SetNetmask, Ip4Places
    <2>2. dhcp = "off"
      BY <1>6, <2>1 DEF Ip4Places
    <2>3. \/ \E p \in {"gw", "rm", "add", "nm"} : Goto("main", p)
          \/ Return("main", TRUE)
      BY <1>2, <1>9 DEF net_do_set_default_ip4, ReadIp4, SetGateway, RemoveStatic, AddNothing,
                        AddStatic, AddStaticError, SetNetmask, Applied
    <2>4. CASE \E p \in {"gw", "rm", "add", "nm"} : Goto("main", p)
      <3>1. PICK p \in {"gw", "rm", "add", "nm"} : Goto("main", p)
        BY <2>4
      <3>2. pc'["main"] = p /\ Cur("main")' = Cur("main")
        BY <1>0, <1>1, <3>1, GotoMoves
      <3> QED
        BY <1>1, <1>2, <1>3, <1>6, <2>1, <2>2, <3>2 DEF NetReady, MainAt
    <2>5. CASE Return("main", TRUE)
      <3>1. pc'["main"] = "begin" /\ MainMoves(TRUE)
        BY <1>0, <1>1, <2>5, ReturnMoves
      <3>2. CASE Cur("main").set = "init_ip"
        BY <1>1, <1>3, <2>1, <2>2, <3>1, <3>2 DEF NetReady, MainAt, MainMoves, Ip4Places
      <3>3. CASE Cur("main").set = "init_dhcp"
        <4>1. ~config_data.use_dhcp4
          BY <1>6, <2>1, <3>3
        <4> QED
          BY <1>1, <1>3, <1>7, <2>1, <2>2, <3>1, <3>3, <4>1
             DEF NetReady, MainAt, MainMoves, Ip4Places
      <3> QED
        BY <1>2, <3>2, <3>3
    <2> QED
      BY <2>3, <2>4, <2>5
  <1>10. CASE init_ip
    <2>1. dhcp' = dhcp /\ Cur("main").set = "init_ip"
      BY <1>10 DEF init_ip, netVars, At
    <2>2. dhcp = "off"
      BY <1>6, <2>1
    <2>3. Goto("main", "ip4") \/ Return("main", TRUE)
      BY <1>10 DEF init_ip
    <2>4. CASE Goto("main", "ip4")
      <3>1. pc'["main"] = "ip4" /\ Cur("main")' = Cur("main")
        BY <1>0, <1>1, <2>4, GotoMoves
      <3> QED
        BY <1>1, <1>3, <2>1, <2>2, <3>1 DEF NetReady, MainAt
    <2>5. CASE Return("main", TRUE)
      <3>1. pc'["main"] = "begin" /\ MainMoves(TRUE)
        BY <1>0, <1>1, <2>5, ReturnMoves
      <3> QED
        BY <1>1, <1>3, <2>1, <2>2, <3>1 DEF NetReady, MainAt, MainMoves, Ip4Places
    <2> QED
      BY <2>3, <2>4, <2>5
  <1>11. CASE net_config_init_app
    <2>1. Cur("main").set = "init_dhcp" /\ pc["main"] = "begin"
      BY <1>11 DEF net_config_init_app, At
    <2>2. dhcp = "off"
      BY <1>6, <2>1
    <2>3. CASE net_dhcpv4_start /\ Goto("main", "want")
      <3>1. pc'["main"] = "want" /\ Cur("main")' = Cur("main") /\ Busy("main")'
        BY <1>0, <1>1, <2>3, GotoMoves
      <3>2. dhcp' # "off"
        BY <2>2, <2>3 DEF net_dhcpv4_start
      <3> QED
        BY <1>1, <1>3, <2>1, <3>1, <3>2 DEF NetReady, MainAt, Ip4Places
    <2>4. CASE Return("main", FALSE)
      <3>1. MainMoves(FALSE)
        BY <1>0, <1>1, <2>4, ReturnMoves
      <3> QED
        BY <1>1, <1>3, <3>1 DEF NetReady, MainAt, MainMoves
    <2> QED
      BY <1>11, <2>3, <2>4 DEF net_config_init_app
  <1>12. CASE StopUnwanted
    <2>1. Cur("main").set = "init_dhcp" /\ pc["main"] = "want"
      BY <1>12 DEF StopUnwanted, At
    <2>2. CASE config_data.use_dhcp4
      <3>1. Return("main", TRUE) /\ dhcp' = dhcp
        BY <1>12, <2>2 DEF StopUnwanted
      <3>2. pc'["main"] = "begin" /\ MainMoves(TRUE)
        BY <1>0, <1>1, <3>1, ReturnMoves
      <3>3. dhcp' # "off"
        BY <1>6, <2>1, <3>1
      <3> QED
        BY <1>1, <1>7, <2>1, <2>2, <3>2, <3>3 DEF NetReady, MainAt, MainMoves, Ip4Places
    <2>3. CASE ~config_data.use_dhcp4
      <3>1. Goto("main", "ip4") /\ dhcp' = "off"
        BY <1>12, <2>3 DEF StopUnwanted, net_dhcpv4_stop
      <3>2. pc'["main"] = "ip4" /\ Cur("main")' = Cur("main")
        BY <1>0, <1>1, <3>1, GotoMoves
      <3> QED
        BY <1>1, <1>3, <2>1, <2>3, <3>1, <3>2 DEF NetReady, MainAt
    <2> QED
      BY <1>7, <2>2, <2>3
  <1>13. NetSteps("main") => net_do_set_default_ip4("main")
    BY <1>2 DEF NetSteps, config_bmc_hostname_set, SetHostname, AskDhcp, restart_dhcp4,
                config_bmc_default_ip4_set, config_bmc_use_dhcp4_set, StoreUseDhcp,
                SwitchDhcp, At
  <1> QED
    BY <1>9, <1>10, <1>11, <1>12, <1>13 DEF net_init

\* Thread t is at work on the interface.
InNet(t) ==
    Busy(t) /\ (pc[t] \in Ip4Places \cup {"switch", "want"}
                  \/ (Cur(t).set = "hostname" /\ pc[t] = "restart"))

\* A step of another service or setting leaves DHCP alone, and so do the leases.
LEMMA DhcpFrame ==
    ASSUME DhcpInv, NEW t \in Threads, Others(t), ~InNet(t), ~InNet(t)',
           overlapped => overlapped', NetReady' <=> NetReady, Busy("main")' => Busy("main"),
           dhcp' # "off" <=> dhcp # "off", config_data'.use_dhcp4 = config_data.use_dhcp4
    PROVE  DhcpInv'
  <1> SUFFICES ASSUME ~overlapped PROVE DhcpInv'
    BY DEF DhcpInv
  <1>1. \A u \in Threads : u # t => (Busy(u)' <=> Busy(u)) /\ Cur(u)' = Cur(u) /\ pc'[u] = pc[u]
    BY DEF Others
  <1>2. \A u \in Threads : /\ Switching(u)' <=> Switching(u)
                           /\ Switching(u) => Cur(u)' = Cur(u)
    BY <1>1 DEF InNet, Switching
  <1>3. \A u \in Threads : Busy(u)' /\ Cur(u)'.set = "hostname" /\ pc'[u] = "restart" =>
            Busy(u) /\ Cur(u).set = "hostname" /\ pc[u] = "restart"
    BY <1>1 DEF InNet
  <1>4. /\ MainAt("init_dhcp", "want")' <=> MainAt("init_dhcp", "want")
        /\ Busy("main")' /\ Cur("main")'.set = "init_dhcp" /\ pc'["main"] \in Ip4Places =>
              Busy("main") /\ Cur("main").set = "init_dhcp" /\ pc["main"] \in Ip4Places
    <2>1. CASE t = "main"
      BY <2>1 DEF InNet, MainAt
    <2>2. CASE t # "main"
      BY <1>1, <2>2 DEF MainAt, Threads
    <2> QED
      BY <2>1, <2>2
  <1> HIDE DEF Switching, MainAt
  <1>5. \A u \in Threads : Switching(u)' =>
           /\ config_data'.use_dhcp4 = Cur(u)'.val /\ (dhcp' # "off") = ~config_data'.use_dhcp4
    BY <1>2 DEF DhcpInv
  <1>6. NetReady' /\ (\A u \in Threads : ~Switching(u)') => (dhcp' # "off") = config_data'.use_dhcp4
    BY <1>2 DEF DhcpInv
  <1> QED
    BY <1>3, <1>4, <1>5, <1>6 DEF DhcpInv

-----------------------------------------------------------------------------
(* The interface has the configured address.                               *)

\* The slots that may be used, if there is one, contain the one that is.
LEMMA MinSlot ==
    ASSUME NEW S \in SUBSET Slots, S # {}
    PROVE  Min(S) \in S
  <1>1. \A y \in S : y = 1 \/ y = 2
    BY DEF Slots, NET_IF_MAX_IPV4_ADDR
  <1>2. CASE 1 \in S
    BY <1>1, <1>2 DEF Min
  <1>3. CASE 1 \notin S
    BY <1>1, <1>3 DEF Min
  <1> QED
    BY <1>2, <1>3

\* What the slots of the interface may hold.
SlotOk(x) ==
    \/ x \in {Unused, Lease}
    \/ \E a \in Addresses \ {"none"}, n \in Netmasks :
          x = [type |-> "OVERRIDABLE", addr |-> a, nm |-> n]

\* The three kinds of slots are told apart by their type and their address.
LEMMA SlotKinds ==
    ASSUME NEW x, SlotOk(x)
    PROVE  /\ x.type \in {"unused", "DHCP", "OVERRIDABLE"}
           /\ x.type = "unused" <=> x = Unused
           /\ x.type = "DHCP" <=> x = Lease
           /\ x.type = "OVERRIDABLE" =>
                 /\ x.addr \in Addresses \ {"none"} /\ x.nm \in Netmasks
                 /\ x = [type |-> "OVERRIDABLE", addr |-> x.addr, nm |-> x.nm]
           /\ x.type # "OVERRIDABLE" => x.addr \in {"none", "lease"}
  <1>1. /\ Unused.type = "unused" /\ Lease.type = "DHCP"
        /\ Unused.addr = "none" /\ Lease.addr = "lease"
    BY DEF Unused, Lease
  <1>2. CASE x \in {Unused, Lease}
    BY <1>1, <1>2
  <1>3. CASE \E a \in Addresses \ {"none"}, n \in Netmasks :
               x = [type |-> "OVERRIDABLE", addr |-> a, nm |-> n]
    <2>1. PICK a \in Addresses \ {"none"}, n \in Netmasks :
               x = [type |-> "OVERRIDABLE", addr |-> a, nm |-> n]
      BY <1>3
    <2>2. x.type = "OVERRIDABLE" /\ x.addr = a /\ x.nm = n
      BY <2>1
    <2> QED
      BY <1>1, <2>1, <2>2
  <1> QED
    BY <1>2, <1>3 DEF SlotOk

\* A step that does not touch the interface, nor any thread at work on it.
LEMMA AddrFrame ==
    ASSUME AddrInv, SlotInv, NEW t \in Threads, Others(t), ~Applying(t), ~Applying(t)',
           overlapped => overlapped', errors' = 0 => errors = 0, NetReady' <=> NetReady,
           UNCHANGED netVars, config_data'.ip4 = config_data.ip4,
           config_data'.nm = config_data.nm, config_data'.gw = config_data.gw
    PROVE  SlotInv' /\ AddrInv'
  <1> SUFFICES ASSUME ~overlapped, errors = 0 PROVE SlotInv' /\ AddrInv'
    BY DEF SlotInv, AddrInv
  <1>1. dhcp' = dhcp /\ unicast' = unicast /\ gateway' = gateway /\ ip4' = ip4
    BY DEF netVars
  <1>2. SlotInv'
    BY <1>1 DEF SlotInv
  <1>3. \A u \in Threads : (Applying(u)' <=> Applying(u)) /\ (Applying(u) => pc'[u] = pc[u])
    BY DEF Others, Applying
  <1>4. Configured' = Configured /\ \A i \in Slots : IsStatic(i)' <=> IsStatic(i)
    BY <1>1 DEF Configured, IsStatic
  <1> HIDE DEF Applying, IsStatic, Configured
  <1>5. AddrInv'
    BY <1>1, <1>3, <1>4 DEF AddrInv
  <1> QED
    BY <1>2, <1>5

\* The leases: a lease may override the static address, and the interface has
\* what is left of it.
LEMMA AddrLease ==
    ASSUME AddrInv, SlotInv, CallInv, LeaseGranted \/ LeaseLost
    PROVE  SlotInv' /\ AddrInv' /\ dhcp # "off" /\ dhcp' # "off"
  <1>1. /\ UNCHANGED <<config_data, todo, pc, boot_finished, overlapped, errors, ip4>>
        /\ dhcp # "off" /\ dhcp' \in {"selecting", "bound"}
    BY DEF LeaseGranted, LeaseLost, net_dhcpv4_restart, settingVars, callVars
  <1> SUFFICES ASSUME ~overlapped, errors = 0 PROVE SlotInv' /\ AddrInv'
    BY <1>1 DEF SlotInv, AddrInv
  <1>2. /\ \A i \in Slots : SlotOk(unicast[i])
        /\ \E i \in Slots : unicast[i] # Lease
        /\ dhcp = "bound" <=> \E i \in Slots : unicast[i] = Lease
        /\ DOMAIN unicast = Slots /\ DOMAIN ip4 = Threads
        /\ dhcp \in {"off", "selecting", "bound"}
    BY DEF SlotInv, SlotOk
  <1>3. \A i \in Slots : (unicast[i].type = "DHCP" <=> unicast[i] = Lease)
            /\ unicast[i].type \in {"unused", "DHCP", "OVERRIDABLE"}
    BY <1>2, SlotKinds
  <1>4. Lease # Unused /\ Lease.type # "OVERRIDABLE" /\ Unused.type # "OVERRIDABLE"
    BY DEF Lease, Unused
  <1>5. /\ DOMAIN unicast' = Slots
        /\ \A i \in Slots : unicast'[i] \in {unicast[i], Unused, Lease}
        /\ \E i \in Slots : unicast'[i] # Lease
        /\ dhcp' = "bound" <=> \E i \in Slots : unicast'[i] = Lease
    <2>1. CASE LeaseGranted /\ dhcp = "bound"
      BY <1>2, <2>1 DEF LeaseGranted
    <2>2. CASE LeaseGranted /\ dhcp = "selecting"
      <3>1. \A i \in Slots : unicast[i].type \in {"unused", "OVERRIDABLE"} /\ unicast[i] # Lease
        BY <1>2, <1>3, <2>2
      <3>2. Candidates("DHCP") = Slots
        BY <3>1 DEF Candidates
      <3>3. PICK k \in Slots : k = Min(Candidates("DHCP"))
        <4>1. 1 \in Slots
          BY DEF Slots, NET_IF_MAX_IPV4_ADDR
        <4> QED
          BY <3>2, <4>1, MinSlot
      <3>4. unicast' = [unicast EXCEPT ![k] = Lease] /\ dhcp' = "bound"
        BY <2>2, <3>3 DEF LeaseGranted
      <3>5. PICK j \in Slots : j # k
        BY DEF Slots, NET_IF_MAX_IPV4_ADDR
      <3> QED
        BY <1>2, <3>1, <3>4, <3>5
    <2>3. CASE LeaseLost
      <3>1. dhcp' = "selecting" /\ unicast' = Remove({"DHCP"})
        BY <2>3 DEF LeaseLost, net_dhcpv4_restart
      <3>2. \A i \in Slots : unicast'[i] = IF unicast[i].type \in {"DHCP"} THEN Unused ELSE unicast[i]
        BY <3>1 DEF Remove
      <3>3. DOMAIN unicast' = Slots
        BY <3>1 DEF Remove
      <3>4. \A i \in Slots : unicast'[i] # Lease
        BY <1>3, <1>4, <3>2
      <3>5. 1 \in Slots
        BY DEF Slots, NET_IF_MAX_IPV4_ADDR
      <3> QED
        BY <3>1, <3>2, <3>3, <3>4, <3>5
    <2> QED
      BY <2>1, <2>2, <2>3 DEF LeaseGranted
  <1>6. SlotInv'
    <2>1. \A i \in Slots : SlotOk(unicast'[i])
      BY <1>2, <1>5 DEF SlotOk
    <2> QED
      BY <1>1, <1>2, <1>5, <2>1 DEF SlotInv, SlotOk
  <1>7. \A i \in Slots : IsStatic(i)' => IsStatic(i) /\ unicast'[i] = unicast[i]
    BY <1>4, <1>5 DEF IsStatic
  <1>8. \A u \in Threads : (Applying(u)' <=> Applying(u)) /\ pc'[u] = pc[u]
    BY <1>1 DEF Applying, Busy
  <1>9. Configured' = Configured
    BY <1>1 DEF Configured
  <1>10. AddrInv'
    BY <1>1, <1>7, <1>8, <1>9 DEF AddrInv
  <1> QED
    BY <1>1, <1>6, <1>10

\* What AddrInv says if thread t is the only one in a call.
AddrOf(t) ==
    /\ \E i \in Slots : ~IsStatic(i)
    /\ Applying(t) /\ pc[t] # "ip4" =>
          ip4[t] = [addr |-> config_data.ip4, nm |-> config_data.nm, gw |-> config_data.gw]
    /\ Applying(t) /\ pc[t] \in {"rm", "add", "nm"} /\ dhcp = "off" => gateway = config_data.gw
    /\ Applying(t) /\ pc[t] = "add" => \A i \in Slots : ~IsStatic(i)
    /\ Applying(t) /\ pc[t] = "nm" =>
          /\ config_data.ip4 # "none"
          /\ \A i \in Slots : IsStatic(i) => unicast[i].addr = config_data.ip4
          /\ dhcp = "off" => \E i \in Slots : IsStatic(i)
    /\ ~Applying(t) => \A i \in Slots : IsStatic(i) => unicast[i] \in Configured
    /\ ~Applying(t) /\ NetReady /\ dhcp = "off" =>
          /\ gateway = config_data.gw
          /\ config_data.ip4 # "none" => \E i \in Slots : IsStatic(i)

\* With no other thread in a call AddrInv is about t alone.
LEMMA AddrOnly ==
    ASSUME NEW t \in Threads, \A u \in Threads : u # t => ~Busy(u), ~overlapped, errors = 0
    PROVE  AddrInv <=> AddrOf(t)
  <1>1. \A u \in Threads : u # t => ~Applying(u)
    BY DEF Applying
  <1> QED
    BY <1>1 DEF AddrInv, AddrOf

\* The same of the next state.
LEMMA AddrOnlyNext ==
    ASSUME NEW t \in Threads, \A u \in Threads : u # t => ~Busy(u)', AddrOf(t)'
    PROVE  AddrInv'
  <1>1. \A u \in Threads : u # t => ~Applying(u)'
    BY DEF Applying
  <1> QED
    BY <1>1 DEF AddrInv, AddrOf

\* The static address is applied: the gateway, then the old address is removed,
\* the new one added and its netmask set (net.c:46-97).
LEMMA AddrIp4 ==
    ASSUME ConfigInv, CallInv, SlotInv, AddrInv, NEW t \in Threads, net_do_set_default_ip4(t)
    PROVE  SlotInv' /\ AddrInv'
  <1>1. /\ Busy(t) /\ Others(t) /\ overlapped' = overlapped /\ errors' \in Nat
        /\ errors' = 0 => errors = 0
        /\ config_data' = config_data
    BY Ip4Moves DEF NetMoved, Moved
  <1> SUFFICES ASSUME ~overlapped, errors' = 0, errors = 0 PROVE SlotInv' /\ AddrInv'
    BY <1>1 DEF SlotInv, AddrInv
  <1>2. \A u \in Threads : u # t => ~Busy(u) /\ ~Busy(u)'
    BY <1>1, OnlyOne
  <1>3. AddrOf(t)
    BY <1>2, AddrOnly
  <1>4. SUFFICES SlotInv' /\ AddrOf(t)'
    BY <1>2, AddrOnlyNext
  <1>5. /\ \A i \in Slots : SlotOk(unicast[i])
        /\ \E i \in Slots : unicast[i] # Lease
        /\ dhcp = "bound" <=> \E i \in Slots : unicast[i] = Lease
        /\ DOMAIN unicast = Slots /\ DOMAIN ip4 = Threads
        /\ dhcp \in {"off", "selecting", "bound"}
    BY DEF SlotInv, SlotOk
  <1>6. pc[t] \in Ip4Places /\ Applying(t) /\ dhcp' = dhcp
    BY DEF net_do_set_default_ip4, ReadIp4, SetGateway, RemoveStatic, AddNothing, AddStatic,
           AddStaticError, SetNetmask, Ip4Places, Applying
  <1>7. \A p \in Ip4Places : Goto(t, p) => Applying(t)' /\ pc'[t] = p
    <2> SUFFICES ASSUME NEW p \in Ip4Places, Goto(t, p) PROVE Applying(t)' /\ pc'[t] = p
      OBVIOUS
    <2> QED
      BY <1>1, GotoMoves DEF Applying
  <1>8. \A ok \in BOOLEAN : Applied(t, ok) => ~Applying(t)'
    <2> SUFFICES ASSUME NEW ok \in BOOLEAN, Applied(t, ok) PROVE ~Applying(t)'
      OBVIOUS
    <2>1. pc'[t] \in {"begin", "write"}
      BY <1>1, <1>6, AppliedMoves
    <2> QED
      BY <2>1 DEF Applying, Ip4Places
  <1>9. {"gw", "rm", "add", "nm"} \subseteq Ip4Places
    BY DEF Ip4Places
  <1>10. unicast' = unicast /\ DOMAIN ip4' = Threads => SlotInv' /\ \A i \in Slots : IsStatic(i)' <=> IsStatic(i)
    BY <1>5, <1>6 DEF SlotInv, SlotOk, IsStatic
  <1>11. Configured' = Configured
    BY <1>1 DEF Configured
  <1>12. \A i \in Slots :
           /\ unicast[i].type = "unused" <=> unicast[i] = Unused
           /\ unicast[i].type = "DHCP" <=> unicast[i] = Lease
           /\ unicast[i].type \in {"unused", "DHCP", "OVERRIDABLE"}
           /\ IsStatic(i) => /\ unicast[i].addr \in Addresses \ {"none"} /\ unicast[i].nm \in Netmasks
                             /\ unicast[i] = [type |-> "OVERRIDABLE", addr |-> unicast[i].addr,
                                              nm |-> unicast[i].nm]
           /\ ~IsStatic(i) => unicast[i].addr \in {"none", "lease"}
    BY <1>5, SlotKinds DEF IsStatic
  <1>13. config_data.ip4 \in Addresses /\ config_data.nm \in Netmasks
    BY DEF ConfigInv
  <1>14. /\ Lease # Unused /\ Lease.type = "DHCP" /\ Unused.type = "unused"
    BY DEF Lease, Unused
  <1> HIDE DEF Applying, IsStatic, Configured, SlotInv
  <1>15. CASE ReadIp4(t)
    <2>1. /\ Goto(t, "gw") /\ UNCHANGED <<unicast, gateway>>
          /\ ip4' = [ip4 EXCEPT ![t] =
                 [addr |-> config_data.ip4, nm |-> config_data.nm, gw |-> config_data.gw]]
      BY <1>15 DEF ReadIp4
    <2>2. Applying(t)' /\ pc'[t] = "gw"
      BY <1>7, <1>9, <2>1
    <2>3. /\ ip4'[t] = [addr |-> config_data.ip4, nm |-> config_data.nm, gw |-> config_data.gw]
          /\ DOMAIN ip4' = Threads
      BY <1>5, <2>1
    <2> QED
      BY <1>1, <1>3, <1>10, <2>1, <2>2, <2>3 DEF AddrOf
  <1>16. CASE SetGateway(t)
    <2>1. /\ Goto(t, "rm") /\ UNCHANGED <<unicast, ip4>> /\ gateway' = ip4[t].gw /\ pc[t] = "gw"
      BY <1>16 DEF SetGateway
    <2>2. Applying(t)' /\ pc'[t] = "rm"
      BY <1>7, <1>9, <2>1
    <2>3. ip4[t] = [addr |-> config_data.ip4, nm |-> config_data.nm, gw |-> config_data.gw]
      BY <1>3, <1>6, <2>1 DEF AddrOf
    <2>4. gateway' = config_data.gw
      BY <2>1, <2>3
    <2> QED
      BY <1>1, <1>3, <1>5, <1>10, <2>1, <2>2, <2>3, <2>4 DEF AddrOf
  <1>17. CASE RemoveStatic(t)
    <2>1. /\ Goto(t, "add") /\ UNCHANGED <<gateway, ip4>> /\ unicast' = Remove({"OVERRIDABLE"})
          /\ pc[t] = "rm"
      BY <1>17 DEF RemoveStatic
    <2>2. Applying(t)' /\ pc'[t] = "add"
      BY <1>7, <1>9, <2>1
    <2>3. \A i \in Slots : unicast'[i] = IF IsStatic(i) THEN Unused ELSE unicast[i]
      BY <2>1 DEF Remove, IsStatic
    <2>4. DOMAIN unicast' = Slots
      BY <2>1 DEF Remove
    <2>5. \A i \in Slots : ~IsStatic(i)'
      BY <1>14, <2>3 DEF IsStatic
    <2>6. \A i \in Slots : SlotOk(unicast'[i]) /\ (unicast'[i] = Lease <=> unicast[i] = Lease)
      BY <1>5, <1>14, <2>3 DEF SlotOk, IsStatic
    <2>7. SlotInv'
      BY <1>5, <1>6, <2>1, <2>4, <2>6 DEF SlotInv, SlotOk
    <2>8. 1 \in Slots
      BY DEF Slots, NET_IF_MAX_IPV4_ADDR
    <2> QED
      BY <1>1, <1>3, <1>6, <2>1, <2>2, <2>5, <2>7, <2>8 DEF AddrOf
  <1>18. CASE AddNothing(t)
    <2>1. /\ ip4[t].addr = "none" /\ Applied(t, TRUE) /\ Forget(t) /\ UNCHANGED <<unicast, gateway>>
          /\ pc[t] = "add"
      BY <1>18 DEF AddNothing
    <2>2. ~Applying(t)'
      BY <1>8, <2>1
    <2>3. ip4[t] = [addr |-> config_data.ip4, nm |-> config_data.nm, gw |-> config_data.gw]
      BY <1>3, <1>6, <2>1 DEF AddrOf
    <2>4. config_data.ip4 = "none"
      BY <2>1, <2>3
    <2>5. DOMAIN ip4' = Threads
      BY <1>5, <2>1 DEF Forget
    <2> QED
      BY <1>1, <1>3, <1>6, <1>10, <2>1, <2>2, <2>4, <2>5 DEF AddrOf
  <1>19. CASE AddStatic(t)
    <2>1. /\ ip4[t].addr # "none" /\ Goto(t, "nm") /\ UNCHANGED <<gateway, ip4>> /\ pc[t] = "add"
      BY <1>19 DEF AddStatic
    <2>2. Applying(t)' /\ pc'[t] = "nm"
      BY <1>7, <1>9, <2>1
    <2>3. ip4[t] = [addr |-> config_data.ip4, nm |-> config_data.nm, gw |-> config_data.gw]
      BY <1>3, <1>6, <2>1 DEF AddrOf
    <2>4. ip4[t].addr = config_data.ip4 /\ config_data.ip4 \in Addresses \ {"none"}
      BY <1>13, <2>1, <2>3
    <2>5. \A i \in Slots : ~IsStatic(i)
      BY <1>3, <1>6, <2>1 DEF AddrOf
    <2>6. ~HasAddr(ip4[t].addr)
      BY <1>12, <2>4, <2>5 DEF HasAddr, Addresses
    <2>7. PICK k \in Slots : /\ k = Min(Candidates("OVERRIDABLE"))
                             /\ k \in Candidates("OVERRIDABLE")
      <3>1. Candidates("OVERRIDABLE") # {}
        BY <1>19, <2>6 DEF AddStatic
      <3>2. Candidates("OVERRIDABLE") \in SUBSET Slots
        BY DEF Candidates
      <3> QED
        BY <3>1, <3>2, MinSlot
    <2>8. unicast' = [unicast EXCEPT ![k] =
                        [type |-> "OVERRIDABLE", addr |-> config_data.ip4, nm |-> "none"]]
      BY <1>19, <2>4, <2>6, <2>7 DEF AddStatic
    <2>9. unicast[k] # Lease
      BY <1>12, <1>14, <2>7 DEF Candidates
    <2>10. /\ unicast'[k] = [type |-> "OVERRIDABLE", addr |-> config_data.ip4, nm |-> "none"]
           /\ \A i \in Slots : i # k => unicast'[i] = unicast[i]
           /\ DOMAIN unicast' = Slots
      BY <1>5, <2>8
    <2>11. SlotOk(unicast'[k]) /\ unicast'[k].type = "OVERRIDABLE" /\ unicast'[k] # Lease
           /\ unicast'[k].addr = config_data.ip4
      BY <1>14, <2>4, <2>10 DEF SlotOk, Netmasks
    <2>12. SlotInv'
      <3>1. \A i \in Slots : SlotOk(unicast'[i]) /\ (unicast'[i] = Lease <=> unicast[i] = Lease)
        BY <1>5, <2>9, <2>10, <2>11
      <3> QED
        BY <1>5, <1>6, <2>1, <2>10, <3>1 DEF SlotInv, SlotOk
    <2>13. IsStatic(k)' /\ \A i \in Slots : i # k => ~IsStatic(i)'
      BY <2>5, <2>10, <2>11 DEF IsStatic
    <2>14. PICK j \in Slots : j # k
      BY DEF Slots, NET_IF_MAX_IPV4_ADDR
    <2> QED
      BY <1>1, <1>3, <1>6, <2>1, <2>2, <2>3, <2>4, <2>11, <2>12, <2>13, <2>14 DEF AddrOf
  <1>20. CASE AddStaticError(t)
    <2>1. /\ ~HasAddr(ip4[t].addr) /\ Candidates("OVERRIDABLE") = {} /\ pc[t] = "add"
      BY <1>20 DEF AddStaticError, Fail
    <2>2. \A i \in Slots : ~IsStatic(i)
      BY <1>3, <1>6, <2>1 DEF AddrOf
    <2>3. PICK k \in Slots : unicast[k] # Lease
      BY <1>5
    <2>4. unicast[k].type = "unused"
      BY <1>12, <2>2, <2>3 DEF IsStatic
    <2> QED
      BY <2>1, <2>4 DEF Candidates
  <1>21. CASE SetNetmask(t)
    <2>1. /\ pc[t] = "nm" /\ Applied(t, HasAddr(ip4[t].addr)) /\ Forget(t) /\ gateway' = gateway
          /\ unicast' = [i \in Slots |-> IF unicast[i].addr = ip4[t].addr
                                         THEN [unicast[i] EXCEPT !.nm = ip4[t].nm] ELSE unicast[i]]
      BY <1>21 DEF SetNetmask
    <2>2. ~Applying(t)'
      <3>1. HasAddr(ip4[t].addr) \in BOOLEAN
        BY DEF HasAddr
      <3> QED
        BY <1>8, <2>1, <3>1
    <2>3. ip4[t] = [addr |-> config_data.ip4, nm |-> config_data.nm, gw |-> config_data.gw]
      BY <1>3, <1>6, <2>1 DEF AddrOf
    <2>4. ip4[t].addr = config_data.ip4 /\ ip4[t].nm = config_data.nm
      BY <2>3
    <2>5. /\ config_data.ip4 # "none"
          /\ \A i \in Slots : IsStatic(i) => unicast[i].addr = config_data.ip4
          /\ dhcp = "off" => \E i \in Slots : IsStatic(i)
      BY <1>3, <1>6, <2>1 DEF AddrOf
    <2>6. config_data.ip4 \in Addresses \ {"none"} /\ config_data.ip4 # "lease"
      BY <1>13, <2>5 DEF Addresses
    <2>7. \A i \in Slots : unicast[i].addr = config_data.ip4 <=> IsStatic(i)
      BY <1>12, <2>5, <2>6
    <2>8. /\ \A i \in Slots : ~IsStatic(i) => unicast'[i] = unicast[i]
          /\ DOMAIN unicast' = Slots
      BY <2>1, <2>4, <2>7
    <2>9. ASSUME NEW i \in Slots, IsStatic(i)
          PROVE  unicast'[i] = [type |-> "OVERRIDABLE", addr |-> config_data.ip4,
                                nm |-> config_data.nm]
      <3>1. unicast'[i] = [unicast[i] EXCEPT !.nm = config_data.nm]
        BY <2>1, <2>4, <2>7, <2>9
      <3>2. unicast[i] = [type |-> "OVERRIDABLE", addr |-> config_data.ip4, nm |-> unicast[i].nm]
        BY <1>12, <2>5, <2>9
      <3> QED
        BY <3>1, <3>2
    <2>10. \A i \in Slots : IsStatic(i)' <=> IsStatic(i)
      BY <2>8, <2>9 DEF IsStatic
    <2>11. SlotInv'
      <3>1. \A i \in Slots : SlotOk(unicast'[i])
        BY <1>5, <1>13, <2>6, <2>8, <2>9 DEF SlotOk
      <3>2. \A i \in Slots : unicast'[i] = Lease <=> unicast[i] = Lease
        BY <1>14, <2>8, <2>9, <1>12 DEF IsStatic
      <3>3. DOMAIN ip4' = Threads
        BY <1>5, <2>1 DEF Forget
      <3> QED
        BY <1>5, <1>6, <2>8, <3>1, <3>2, <3>3 DEF SlotInv, SlotOk
    <2>12. \A i \in Slots : IsStatic(i)' => unicast'[i] \in Configured'
      BY <1>11, <2>5, <2>9, <2>10 DEF Configured
    <2> QED
      BY <1>1, <1>3, <1>6, <2>1, <2>2, <2>5, <2>10, <2>11, <2>12 DEF AddrOf
  <1> QED
    BY <1>15, <1>16, <1>17, <1>18, <1>19, <1>20, <1>21 DEF net_do_set_default_ip4

\* The client gives up its lease, if it has one.
LEMMA DropLease ==
    ASSUME SlotInv, ~overlapped, errors = 0, unicast' = Remove({"DHCP"}),
           dhcp' \in {"off", "selecting"}, ip4' = ip4
    PROVE  SlotInv' /\ \A i \in Slots : /\ IsStatic(i)' <=> IsStatic(i)
                                        /\ IsStatic(i) => unicast'[i] = unicast[i]
  <1>1. /\ \A i \in Slots : SlotOk(unicast[i])
        /\ DOMAIN ip4 = Threads
    BY DEF SlotInv, SlotOk
  <1>2. \A i \in Slots : /\ unicast[i].type \in {"unused", "DHCP", "OVERRIDABLE"}
                         /\ unicast[i].type = "DHCP" <=> unicast[i] = Lease
    BY <1>1, SlotKinds
  <1>3. Lease # Unused /\ Lease.type = "DHCP" /\ Unused.type = "unused"
    BY DEF Lease, Unused
  <1>4. /\ \A i \in Slots : unicast'[i] = IF unicast[i].type \in {"DHCP"} THEN Unused ELSE unicast[i]
        /\ DOMAIN unicast' = Slots
    BY DEF Remove
  <1>5. \A i \in Slots : unicast'[i] # Lease /\ SlotOk(unicast'[i])
    BY <1>1, <1>2, <1>3, <1>4 DEF SlotOk
  <1>6. 1 \in Slots
    BY DEF Slots, NET_IF_MAX_IPV4_ADDR
  <1>7. SlotInv'
    BY <1>1, <1>4, <1>5, <1>6 DEF SlotInv, SlotOk
  <1>8. \A i \in Slots : /\ IsStatic(i)' <=> IsStatic(i)
                         /\ IsStatic(i) => unicast'[i] = unicast[i]
    BY <1>3, <1>4 DEF IsStatic
  <1> QED
    BY <1>7, <1>8

\* The setters and net_init, up to where the static address is applied.
LEMMA AddrSet ==
    ASSUME ConfigInv, CallInv, SlotInv, DhcpInv, AddrInv, NEW t \in Threads,
           NetSteps(t) \/ (t = "main" /\ net_init), ~net_do_set_default_ip4(t)
    PROVE  SlotInv' /\ AddrInv'
  <1>1. /\ Busy(t) /\ Others(t) /\ overlapped' = overlapped /\ errors' \in Nat
        /\ boot_finished' = boot_finished
        /\ errors' = 0 => errors = 0
        /\ pc'[t] = "begin" \/ (Busy(t)' /\ Cur(t)' = Cur(t))
    BY NetStepMoves DEF NetMoved, Moved
  <1> SUFFICES ASSUME ~overlapped, errors' = 0, errors = 0 PROVE SlotInv' /\ AddrInv'
    BY <1>1 DEF SlotInv, AddrInv
  <1>2. \A u \in Threads : u # t => ~Busy(u) /\ ~Busy(u)'
    BY <1>1, OnlyOne
  <1>3. AddrOf(t)
    BY <1>2, AddrOnly
  <1>4. AddrOf(t)' => AddrInv'
    BY <1>2, AddrOnlyNext
  <1>5. ip4' = ip4 /\ gateway' = gateway /\ ~Applying(t)
    BY DEF NetSteps, config_bmc_hostname_set, SetHostname, AskDhcp, restart_dhcp4,
           config_bmc_default_ip4_set, config_bmc_use_dhcp4_set, StoreUseDhcp, SwitchDhcp,
           net_init, init_ip, net_config_init_app, StopUnwanted, netVars, At, Applying,
           Ip4Places
  <1>6. \A p : Goto(t, p) => pc'[t] = p /\ Busy(t)' /\ (Applying(t)' <=> p \in Ip4Places)
    BY <1>1, GotoMoves DEF Applying
  <1>7. Return(t, TRUE) \/ Return(t, FALSE) => ~Applying(t)'
    BY <1>1, ReturnMoves DEF Applying, Ip4Places
  <1>8. t # "main" => (NetReady' <=> NetReady)
    BY <1>1 DEF NetReady, Others, Threads
  <1>9. "ip4" \in Ip4Places /\ \A p \in {"write", "want", "switch", "dhcp?", "restart"} : p \notin Ip4Places
    BY DEF Ip4Places
  \* A setter about to apply the address: nothing else is known then.
  <1>10. ASSUME Goto(t, "ip4"), SlotInv', \A i \in Slots : IsStatic(i)' <=> IsStatic(i)
         PROVE  AddrInv'
    <2>1. Applying(t)' /\ pc'[t] = "ip4"
      BY <1>6, <1>9, <1>10
    <2> QED
      BY <1>3, <1>4, <1>10, <2>1 DEF AddrOf
  \* DHCP is on, and the address is what was left of it.
  <1>11. ASSUME ~Applying(t)', dhcp' # "off" \/ ~NetReady', config_data' = config_data,
                \A i \in Slots : (IsStatic(i)' <=> IsStatic(i))
                   /\ (IsStatic(i) => unicast'[i] = unicast[i])
         PROVE  AddrInv'
    <2>1. Configured' = Configured
      BY <1>11 DEF Configured
    <2> HIDE DEF Configured, IsStatic
    <2> QED
      BY <1>3, <1>4, <1>5, <1>11, <2>1 DEF AddrOf
  \* The interface is left alone.
  <1>12. ASSUME UNCHANGED netVars PROVE SlotInv' /\ \A i \in Slots : IsStatic(i)' <=> IsStatic(i)
    BY <1>12 DEF netVars, SlotInv, IsStatic
  <1>13. ASSUME UNCHANGED netVars, ~Applying(t)', t # "main", config_data'.ip4 = config_data.ip4,
                config_data'.nm = config_data.nm, config_data'.gw = config_data.gw
         PROVE  SlotInv' /\ AddrInv'
    BY <1>1, <1>5, <1>8, <1>13, AddrFrame
  <1>14. ASSUME unicast' = unicast, dhcp = "off", dhcp' = "selecting"
         PROVE  SlotInv' /\ \A i \in Slots : IsStatic(i)' <=> IsStatic(i)
    BY <1>5, <1>14 DEF SlotInv, IsStatic
  <1>15. CASE config_bmc_hostname_set(t)
    <2>1. Cur(t).set = "hostname" /\ config_data' = config_data
      BY <1>15 DEF config_bmc_hostname_set, SetHostname, AskDhcp, restart_dhcp4, At
    <2>2. t # "main"
      BY <1>1, <2>1, ItemFacts
    <2>3. ~Applying(t)'
      <3>1. \/ \E p \in {"dhcp?", "restart", "write"} : Goto(t, p)
            \/ Return(t, FALSE)
        BY <1>15 DEF config_bmc_hostname_set, SetHostname, AskDhcp, restart_dhcp4
      <3> QED
        BY <1>6, <1>7, <1>9, <3>1
    <2>4. CASE SetHostname(t) \/ AskDhcp(t)
      BY <1>13, <2>1, <2>2, <2>3, <2>4 DEF SetHostname, AskDhcp
    <2>5. CASE restart_dhcp4(t)
      <3>1. dhcp' = "selecting" /\ unicast' = Remove({"DHCP"})
        BY <2>5 DEF restart_dhcp4, net_dhcpv4_restart
      <3>2. SlotInv' /\ \A i \in Slots : /\ IsStatic(i)' <=> IsStatic(i)
                                         /\ IsStatic(i) => unicast'[i] = unicast[i]
        BY <1>5, <3>1, DropLease
      <3> QED
        BY <1>11, <2>1, <2>3, <3>1, <3>2
    <2> QED
      BY <1>15, <2>4, <2>5 DEF config_bmc_hostname_set
  <1>16. CASE config_bmc_default_ip4_set(t)
    <2>1. UNCHANGED netVars /\ Cur(t).set \in {"ip4", "nm", "gw"}
      BY <1>16 DEF config_bmc_default_ip4_set, At
    <2>2. t # "main"
      BY <1>1, <2>1, ItemFacts
    <2>3. CASE Cur(t).val = "invalid"
      BY <1>7, <1>13, <1>16, <2>1, <2>2, <2>3 DEF config_bmc_default_ip4_set
    <2>4. CASE Cur(t).val # "invalid"
      BY <1>10, <1>12, <1>16, <2>1, <2>4 DEF config_bmc_default_ip4_set
    <2> QED
      BY <2>3, <2>4
  <1>17. CASE StoreUseDhcp(t)
    <2>1. UNCHANGED netVars /\ Cur(t).set = "use_dhcp4"
      BY <1>17 DEF StoreUseDhcp, At
    <2>2. t # "main"
      BY <1>1, <2>1, ItemFacts
    <2>3. ~Applying(t)'
      BY <1>6, <1>7, <1>9, <1>17 DEF StoreUseDhcp
    <2>4. /\ config_data'.ip4 = config_data.ip4 /\ config_data'.nm = config_data.nm
          /\ config_data'.gw = config_data.gw
      BY <1>17 DEF StoreUseDhcp, ConfigInv
    <2> QED
      BY <1>13, <2>1, <2>2, <2>3, <2>4
  <1>18. CASE SwitchDhcp(t)
    <2>1. Switching(t) /\ config_data' = config_data /\ Cur(t).set = "use_dhcp4"
      BY <1>1, <1>18 DEF SwitchDhcp, At, Switching
    <2>2. config_data.use_dhcp4 = Cur(t).val /\ (dhcp # "off") = ~config_data.use_dhcp4
      BY <2>1 DEF DhcpInv
    <2>3. CASE Cur(t).val
      <3>1. net_dhcpv4_start /\ Goto(t, "write")
        BY <1>18, <2>3 DEF SwitchDhcp
      <3>2. dhcp = "off"
        BY <2>2, <2>3
      <3>3. dhcp' = "selecting" /\ unicast' = unicast
        BY <3>1, <3>2 DEF net_dhcpv4_start
      <3>4. ~Applying(t)'
        BY <1>6, <1>9, <3>1
      <3> QED
        BY <1>11, <1>14, <2>1, <3>2, <3>3, <3>4
    <2>4. CASE ~Cur(t).val
      <3>1. dhcp' = "off" /\ unicast' = Remove({"DHCP"}) /\ Goto(t, "ip4")
        BY <1>18, <2>4 DEF SwitchDhcp, net_dhcpv4_stop
      <3>2. SlotInv' /\ \A i \in Slots : IsStatic(i)' <=> IsStatic(i)
        BY <1>5, <3>1, DropLease
      <3> QED
        BY <1>10, <3>1, <3>2
    <2> QED
      BY <2>3, <2>4
  <1>19. CASE t = "main" /\ init_ip
    <2>1. UNCHANGED netVars /\ config_data' = config_data /\ Cur("main").set = "init_ip"
      BY <1>19 DEF init_ip, At
    <2>2. CASE Goto("main", "ip4")
      BY <1>10, <1>12, <1>19, <2>1, <2>2
    <2>3. CASE Return("main", TRUE)
      <3>1. MainMoves(TRUE) /\ ~Applying(t)'
        BY <1>1, <1>7, <1>19, <2>3, ReturnMoves
      <3>2. ~boot_finished
        BY <1>1, <1>19 DEF CallInv, Busy
      <3>3. ~NetReady'
        BY <1>1, <2>1, <3>1, <3>2 DEF MainMoves, NetReady
      <3>4. unicast' = unicast
        BY <2>1 DEF netVars
      <3> QED
        BY <1>11, <1>12, <2>1, <3>1, <3>3, <3>4
    <2> QED
      BY <1>19, <2>2, <2>3 DEF init_ip
  <1>20. CASE t = "main" /\ net_config_init_app
    <2>1. net_dhcpv4_start /\ Goto("main", "want") /\ config_data' = config_data
      BY <1>20 DEF net_config_init_app, Fail
    <2>2. Cur("main").set = "init_dhcp" /\ pc["main"] = "begin"
      BY <1>20 DEF net_config_init_app, At
    <2>3. ~boot_finished
      BY <1>1, <1>20 DEF CallInv, Busy
    <2>4. dhcp = "off"
      BY <1>1, <1>20, <2>2, <2>3 DEF DhcpInv, NetReady, MainAt
    <2>5. dhcp' = "selecting" /\ unicast' = unicast
      BY <2>1, <2>4 DEF net_dhcpv4_start
    <2>6. ~Applying(t)'
      BY <1>6, <1>9, <1>20, <2>1
    <2> QED
      BY <1>11, <1>14, <2>1, <2>4, <2>5, <2>6
  <1>21. CASE t = "main" /\ StopUnwanted
    <2>1. MainAt("init_dhcp", "want") /\ config_data' = config_data
      BY <1>1, <1>21 DEF StopUnwanted, At, MainAt
    <2>2. dhcp # "off"
      BY <2>1 DEF DhcpInv
    <2>3. CASE config_data.use_dhcp4
      <3>1. Return(t, TRUE) /\ UNCHANGED netVars /\ dhcp' = dhcp /\ unicast' = unicast
        BY <1>21, <2>3 DEF StopUnwanted, netVars
      <3> QED
        BY <1>7, <1>11, <1>12, <2>1, <2>2, <3>1
    <2>4. CASE ~config_data.use_dhcp4
      <3>1. dhcp' = "off" /\ unicast' = Remove({"DHCP"}) /\ Goto(t, "ip4")
        BY <1>21, <2>4 DEF StopUnwanted, net_dhcpv4_stop
      <3>2. SlotInv' /\ \A i \in Slots : IsStatic(i)' <=> IsStatic(i)
        BY <1>5, <3>1, DropLease
      <3> QED
        BY <1>10, <3>1, <3>2
    <2> QED
      BY <2>3, <2>4
  <1> QED
    BY <1>15, <1>16, <1>17, <1>18, <1>19, <1>20, <1>21
       DEF NetSteps, net_init, config_bmc_use_dhcp4_set

\* The steps that move no thread: leases and the NTP handler.
LEMMA NetStill ==
    ASSUME DhcpInv, SlotInv, AddrInv, UNCHANGED <<callVars, config_data>>,
           errors' = 0 => errors = 0
    PROVE  /\ (dhcp' # "off" <=> dhcp # "off") => DhcpInv'
           /\ UNCHANGED netVars => SlotInv' /\ AddrInv'
  <1>1. /\ UNCHANGED <<overlapped, boot_finished, pc>>
        /\ \A u \in Threads : (Busy(u)' <=> Busy(u)) /\ Cur(u)' = Cur(u) /\ pc'[u] = pc[u]
    BY DEF callVars, Busy, Cur
  <1>2. \A u \in Threads : /\ Switching(u)' <=> Switching(u)
                           /\ Applying(u)' <=> Applying(u)
    BY <1>1 DEF Switching, Applying
  <1>3. /\ NetReady' <=> NetReady
        /\ MainAt("init_dhcp", "want")' <=> MainAt("init_dhcp", "want")
        /\ (Busy("main")' <=> Busy("main")) /\ Cur("main")' = Cur("main")
        /\ pc'["main"] = pc["main"]
    BY <1>1 DEF NetReady, MainAt, Threads
  <1>4. Configured' = Configured
    BY DEF Configured
  <1> HIDE DEF Switching, Applying, NetReady, MainAt, Configured
  <1>5. (dhcp' # "off" <=> dhcp # "off") => DhcpInv'
    BY <1>1, <1>2, <1>3 DEF DhcpInv
  <1>6. ASSUME UNCHANGED netVars PROVE SlotInv' /\ AddrInv'
    <2>1. dhcp' = dhcp /\ unicast' = unicast /\ gateway' = gateway /\ ip4' = ip4
      BY <1>6 DEF netVars
    <2>2. \A i \in Slots : IsStatic(i)' <=> IsStatic(i)
      BY <2>1 DEF IsStatic
    <2>3. SlotInv'
      BY <1>1, <2>1 DEF SlotInv
    <2>4. AddrInv'
      BY <1>1, <1>2, <1>3, <1>4, <2>1, <2>2 DEF AddrInv
    <2> QED
      BY <2>3, <2>4
  <1> QED
    BY <1>5, <1>6

\* The steps of threads that are not at work on the interface.
LEMMA NetElsewhere ==
    ASSUME ConfigInv, CallInv, DhcpInv, SlotInv, AddrInv, UNCHANGED netVars,
           \/ \E t \in Threads : Write(t)
           \/ \E t \in Callers, c \in Seq(CallItem) : Call(t, c)
           \/ \E t \in Threads : TimeThread(t)
    PROVE  DhcpInv' /\ SlotInv' /\ AddrInv'
  <1>1. PICK t \in Threads :
            /\ Others(t) /\ ~InNet(t) /\ ~InNet(t)' /\ (overlapped => overlapped')
            /\ errors' = 0 => errors = 0
            /\ NetReady' <=> NetReady
            /\ Busy("main")' => Busy("main")
            /\ config_data'.use_dhcp4 = config_data.use_dhcp4
            /\ config_data'.ip4 = config_data.ip4 /\ config_data'.nm = config_data.nm
            /\ config_data'.gw = config_data.gw
    <2>1. CASE \E t \in Threads : Write(t)
      <3>1. PICK t \in Threads : Write(t)
        BY <2>1
      <3>2. /\ Moved(t) /\ boot_finished' = boot_finished /\ t # "main" /\ pc[t] = "write"
            /\ errors' = 0 => errors = 0
            /\ pc'[t] = "begin" \/ (pc'[t] = "restart" /\ Cur(t).set = "ntp_server")
        BY <3>1, WriteMoves
      <3>3. config_data' = config_data
        BY <3>1 DEF Write
      <3>4. ~InNet(t) /\ ~InNet(t)'
        BY <3>2 DEF InNet, Moved, Ip4Places
      <3>5. (NetReady' <=> NetReady) /\ (Busy("main")' => Busy("main"))
        BY <3>2 DEF NetReady, Moved, Others, Threads
      <3> QED
        BY <3>2, <3>3, <3>4, <3>5 DEF Moved
    <2>2. CASE \E t \in Callers, c \in Seq(CallItem) : Call(t, c)
      <3>1. PICK t \in Callers, c \in Seq(CallItem) : Call(t, c)
        BY <2>2
      <3>2. /\ Others(t) /\ pc' = pc /\ pc[t] = "begin" /\ boot_finished' = boot_finished
            /\ overlapped => overlapped'
        BY <3>1, CallMoves
      <3>3. config_data' = config_data /\ errors' = errors /\ t \in Threads /\ t # "main"
        BY <3>1 DEF Call, Threads, Callers
      <3>4. ~InNet(t) /\ ~InNet(t)'
        BY <3>2 DEF InNet, Ip4Places
      <3>5. (NetReady' <=> NetReady) /\ (Busy("main")' => Busy("main"))
        BY <3>2, <3>3 DEF NetReady, Others, Threads
      <3> QED
        BY <3>2, <3>3, <3>4, <3>5
    <2>3. CASE \E t \in Threads : TimeThread(t)
      <3>1. PICK t \in Threads : TimeThread(t)
        BY <2>3
      <3>2. TimeMoved(t) /\ TimeConfig
        BY <3>1, TimeStepMoves DEF TimeThread
      <3>3. /\ Busy(t) /\ Others(t) /\ overlapped' = overlapped /\ Cur(t).set \in TimeSets
            /\ pc'[t] = "begin" \/ (Cur(t)' = Cur(t) /\ Placed(t)')
            /\ Placed(t)
        BY <3>2, ItemFacts DEF TimeMoved, Moved, CallInv
      <3>4. ~InNet(t)
        BY <3>3 DEF InNet, Placed, Ip4Places, StartPlaces, StopPlaces, TimeSets
      <3>5. ~InNet(t)'
        BY <3>3 DEF InNet, Placed, Ip4Places, StartPlaces, StopPlaces, TimeSets
      <3>6. Busy("main")' => Busy("main")
        BY <3>3 DEF Others, Threads
      <3> QED
        BY <3>2, <3>3, <3>4, <3>5, <3>6 DEF TimeMoved, TimeConfig
    <2> QED
      BY <2>1, <2>2, <2>3
  <1>2. dhcp' = dhcp
    BY DEF netVars
  <1>3. DhcpInv'
    BY <1>1, <1>2, DhcpFrame
  <1>4. ~Applying(t) /\ ~Applying(t)'
    BY <1>1 DEF InNet, Applying
  <1>5. SlotInv' /\ AddrInv'
    BY <1>1, <1>4, AddrFrame
  <1> QED
    BY <1>3, <1>5

-----------------------------------------------------------------------------
(* The inductive invariant.                                                *)

\* Main has everything to initialise, and no service is on.
LEMMA InvInit == Init => IndInv
  <1> SUFFICES ASSUME Init PROVE IndInv
    OBVIOUS
  <1> USE DEF Init, SettingsInit, NetInit, ClockInit, NtpInit
  <1>1. todo["main"] = BootCall /\ \A t \in Callers : todo[t] = <<>>
    BY DEF Threads, Callers
  <1>2. \A t \in Threads : pc[t] = "begin"
    OBVIOUS
  <1>3. BootCall # <<>> /\ Head(BootCall) = [set |-> "rtc_init"]
    BY DEF BootCall
  <1>4. Busy("main") /\ Cur("main").set = "rtc_init" /\ \A t \in Callers : ~Busy(t)
    BY <1>1, <1>3 DEF Busy, Cur
  <1>5. \A t \in Threads : t # "main" => t \in Callers
    BY DEF Threads
  <1>6. ConfigInv
    BY DEF ConfigInv, Addresses, Netmasks, Gateways
  <1>7. CallInv
    <2>1. \A t \in Threads : Placed(t)
      BY <1>2 DEF Placed
    <2>2. BootCall \in MainTodo /\ <<>> \in Seq(CallItem)
      BY DEF MainTodo
    <2> QED
      BY <1>1, <1>2, <1>4, <1>5, <2>1, <2>2 DEF CallInv
  <1>8. NtpInv
    <2>1. \A t \in Threads : ~Starting(t) /\ ~Stopping(t)
      BY <1>2 DEF Starting, Stopping, StartPlaces, StopPlaces
    <2> QED
      BY <2>1, <1>6 DEF NtpInv, ConfigInv
  <1>9. RtcInv
    <2>1. \A t \in Callers : ~Setting(t) /\ \A p : ~At(t, {"date_time"}, p)
      BY <1>4 DEF Setting, At, Busy
    <2>2. ~ClockReady
      BY <1>4 DEF ClockReady
    <2>3. rtc \in {<<Unset, Unset>>, <<BootTime, BootTime>>}
      BY DEF Unset, BootTime
    <2> QED
      BY <2>1, <2>2, <2>3 DEF RtcInv
  <1>10. SlotInv
    <2>1. Unused # Lease /\ 1 \in Slots
      BY DEF Unused, Lease, Slots, NET_IF_MAX_IPV4_ADDR
    <2> QED
      BY <2>1 DEF SlotInv
  <1>11. ~NetReady
    BY <1>4 DEF NetReady
  <1>12. DhcpInv
    BY <1>2, <1>4, <1>11 DEF DhcpInv, Switching, MainAt, Ip4Places
  <1>13. AddrInv
    <2>1. \A t \in Threads : ~Applying(t)
      BY <1>2 DEF Applying, Ip4Places
    <2>2. \A i \in Slots : ~IsStatic(i)
      BY DEF IsStatic, Unused
    <2>3. 1 \in Slots
      BY DEF Slots, NET_IF_MAX_IPV4_ADDR
    <2> QED
      BY <1>11, <2>1, <2>2, <2>3 DEF AddrInv
  <1> QED
    BY <1>6, <1>7, <1>8, <1>9, <1>10, <1>12, <1>13 DEF IndInv

\* A step that moves no thread and leaves the settings alone.
LEMMA CallsStill ==
    ASSUME ConfigInv, CallInv, UNCHANGED <<callVars, config_data>>, errors' \in Nat
    PROVE  ConfigInv' /\ CallInv'
  <1> USE DEF callVars
  <1>1. ConfigInv'
    BY DEF ConfigInv
  <1>2. \A t \in Threads : (Busy(t)' <=> Busy(t)) /\ (Placed(t)' <=> Placed(t))
    BY DEF Busy, Placed, Cur
  <1>3. CallInv'
    BY <1>2 DEF CallInv, Threads
  <1> QED
    BY <1>1, <1>3

\* Such a step that leaves NTP and the clocks alone too.
LEMMA TimeStill ==
    ASSUME NtpInv, RtcInv, UNCHANGED <<callVars, config_data, errors, clockVars, ntpVars>>
    PROVE  NtpInv' /\ RtcInv'
  <1>1. \A t \in Threads : (Busy(t)' <=> Busy(t)) /\ Cur(t)' = Cur(t) /\ pc'[t] = pc[t]
    BY DEF callVars, Busy, Cur
  <1>2. NtpInv'
    <2>1. \A t \in Threads : /\ Starting(t)' <=> Starting(t)
                             /\ Stopping(t)' <=> Stopping(t)
                             /\ Renaming(t)' <=> Renaming(t)
      BY <1>1 DEF Starting, Stopping, Renaming
    <2>2. UNCHANGED <<ntp_started, work, asked, corrupt, ntp_interval_sec, sync, config_data,
                      errors, overlapped, boot_finished>>
      BY DEF ntpVars, clockVars, callVars
    <2> QED
      BY <1>1, <2>1, <2>2 DEF NtpInv
  <1>3. RtcInv'
    <2>1. UNCHANGED <<sync, apart, has_rtc, rtc, tm, sys_clock, todo, pc, boot_finished>>
      BY DEF clockVars, callVars
    <2> QED
      BY <2>1 DEF RtcInv, ClockReady, Disturbed, Setting, At, Asked, Busy, Cur
  <1> QED
    BY <1>2, <1>3

\* A step that changes nothing.
LEMMA InvStill ==
    ASSUME IndInv, UNCHANGED vars
    PROVE  IndInv'
  <1> USE DEF vars, settingVars
  <1>1. ConfigInv' /\ CallInv'
    <2>1. errors' \in Nat
      BY DEF IndInv, CallInv
    <2> QED
      BY <2>1, CallsStill DEF IndInv
  <1>2. DhcpInv' /\ SlotInv' /\ AddrInv'
    <2>1. dhcp' = dhcp
      BY DEF netVars
    <2> QED
      BY <2>1, NetStill DEF IndInv
  <1>3. NtpInv' /\ RtcInv'
    BY TimeStill DEF IndInv
  <1> QED
    BY <1>1, <1>2, <1>3 DEF IndInv

\* A call begins (the commands of config.c, the PATCH handlers of redfish.c).
LEMMA InvCall ==
    ASSUME IndInv, cmd_config \/ redfish_patch, UNCHANGED <<netVars, clockVars, ntpVars>>
    PROVE  IndInv'
  <1>1. PICK t \in Callers, c \in Seq(CallItem) : Call(t, c)
    BY CallsAreItems DEF cmd_config, redfish_patch, Callers
  <1>2. ConfigInv'
    BY <1>1 DEF IndInv, ConfigInv, Call
  <1>3. CallInv'
    BY <1>1, CallMoves DEF IndInv
  <1>4. NtpInv'
    BY <1>1, NtpCall DEF IndInv
  <1>5. RtcInv'
    BY <1>1, RtcOther DEF IndInv
  <1>6. DhcpInv' /\ SlotInv' /\ AddrInv'
    BY <1>1, NetElsewhere DEF IndInv
  <1> QED
    BY <1>2, <1>3, <1>4, <1>5, <1>6 DEF IndInv

\* A setting is written (config.c:99-128).
LEMMA InvWrite ==
    ASSUME IndInv, NEW t \in Threads, Write(t), UNCHANGED <<netVars, clockVars, ntpVars>>
    PROVE  IndInv'
  <1>1. ConfigInv'
    BY DEF IndInv, ConfigInv, Write
  <1>2. CallInv'
    BY WriteMoves DEF IndInv
  <1>3. NtpInv'
    BY NtpWrite DEF IndInv
  <1>4. RtcInv'
    BY RtcOther DEF IndInv
  <1>5. DhcpInv' /\ SlotInv' /\ AddrInv'
    BY NetElsewhere DEF IndInv
  <1> QED
    BY <1>1, <1>2, <1>3, <1>4, <1>5 DEF IndInv

\* A step of a network setting, of net_init or of the DHCP client (net.c).
LEMMA InvNet ==
    ASSUME IndInv, NetNext, UNCHANGED <<clockVars, ntpVars>>
    PROVE  IndInv'
  <1>1. ASSUME NEW t \in Threads, NetSteps(t) \/ (t = "main" /\ net_init)
        PROVE  IndInv'
    <2>1. ConfigInv' /\ CallInv'
      BY <1>1, NetStepMoves DEF IndInv, NetMoved, NetConfig
    <2>2. NtpInv'
      BY <1>1, NtpNet DEF IndInv
    <2>3. RtcInv'
      BY <1>1, RtcNet DEF IndInv
    <2>4. DhcpInv'
      <3>1. CASE t = "main"
        BY <1>1, <3>1, DhcpMain DEF IndInv
      <3>2. CASE t # "main"
        BY <1>1, <3>2, DhcpCaller DEF IndInv
      <3> QED
        BY <3>1, <3>2
    <2>5. SlotInv' /\ AddrInv'
      <3>1. CASE net_do_set_default_ip4(t)
        BY <1>1, <3>1, AddrIp4 DEF IndInv
      <3>2. CASE ~net_do_set_default_ip4(t)
        BY <1>1, <3>2, AddrSet DEF IndInv
      <3> QED
        BY <3>1, <3>2
    <2> QED
      BY <2>1, <2>2, <2>3, <2>4, <2>5 DEF IndInv
  <1>2. ASSUME LeaseGranted \/ LeaseLost
        PROVE  IndInv'
    <2>1. UNCHANGED settingVars
      BY <1>2 DEF LeaseGranted, LeaseLost
    <2>2. UNCHANGED <<callVars, config_data, errors>>
      BY <2>1 DEF settingVars
    <2>3. ConfigInv' /\ CallInv'
      <3>1. errors' \in Nat
        BY <2>2 DEF IndInv, CallInv
      <3> QED
        BY <2>2, <3>1, CallsStill DEF IndInv
    <2>4. SlotInv' /\ AddrInv' /\ dhcp # "off" /\ dhcp' # "off"
      BY <1>2, AddrLease DEF IndInv
    <2>5. DhcpInv'
      BY <2>2, <2>4, NetStill DEF IndInv
    <2>6. NtpInv' /\ RtcInv'
      BY <2>2, TimeStill DEF IndInv
    <2> QED
      BY <2>3, <2>4, <2>5, <2>6 DEF IndInv
  <1>3. "main" \in Threads
    BY DEF Threads
  <1> QED
    BY <1>1, <1>2, <1>3 DEF NetNext

\* A step of a setting of NTP or of the clocks, of rtc_init and ntp_init, or of the
\* synchronisation (ntp.c, rtc.c).
LEMMA InvTime ==
    ASSUME IndInv, TimeNext, UNCHANGED netVars
    PROVE  IndInv'
  <1>1. ASSUME NEW t \in Threads, TimeThread(t)
        PROVE  IndInv'
    <2>1. ConfigInv' /\ CallInv'
      BY <1>1, TimeStepMoves DEF IndInv, TimeThread, TimeMoved, TimeConfig
    <2>2. NtpInv'
      BY <1>1, NtpThread DEF IndInv
    <2>3. RtcInv'
      BY <1>1, RtcThread DEF IndInv
    <2>4. DhcpInv' /\ SlotInv' /\ AddrInv'
      BY <1>1, NetElsewhere DEF IndInv
    <2> QED
      BY <2>1, <2>2, <2>3, <2>4 DEF IndInv
  <1>2. ASSUME ntp_sync_work_handler
        PROVE  IndInv'
    <2>1. UNCHANGED <<callVars, config_data>> /\ (errors' = errors \/ errors' = errors + 1)
      BY <1>2 DEF ntp_sync_work_handler, SyncBegin, SyncAnswered, SyncFailed, SyncEnd,
                  rtc_set_from_clock, Fail, settingVars
    <2>2. errors' \in Nat /\ (errors' = 0 => errors = 0)
      BY <2>1 DEF IndInv, CallInv
    <2>3. ConfigInv' /\ CallInv'
      BY <2>1, <2>2, CallsStill DEF IndInv
    <2>4. NtpInv'
      BY <1>2, NtpHandler DEF IndInv
    <2>5. RtcInv'
      BY <1>2, RtcHandler DEF IndInv
    <2>6. DhcpInv' /\ SlotInv' /\ AddrInv'
      <3>1. dhcp' = dhcp
        BY DEF netVars
      <3> QED
        BY <2>1, <2>2, <3>1, NetStill DEF IndInv
    <2> QED
      BY <2>3, <2>4, <2>5, <2>6 DEF IndInv
  <1>3. "main" \in Threads
    BY DEF Threads
  <1> QED
    BY <1>1, <1>2, <1>3 DEF TimeNext, TimeThread

\* Every step keeps the invariant.
LEMMA InvNext == IndInv /\ [Next]_vars => IndInv'
  <1> SUFFICES ASSUME IndInv, [Next]_vars PROVE IndInv'
    OBVIOUS
  <1>1. CASE UNCHANGED vars
    BY <1>1, InvStill
  <1>2. CASE Next
    BY <1>2, InvCall, InvWrite, InvNet, InvTime DEF Next
  <1> QED
    BY <1>1, <1>2

\* The invariant holds for any number of calls and failures.
LEMMA Invariance == Spec => []IndInv
  BY InvInit, InvNext, PTL DEF Spec

-----------------------------------------------------------------------------
(* The services once no call is running.                                   *)

\* Without overlapping calls NTP is started exactly if the setting says so once
\* no call is running, and if it is not its handler neither runs nor is due, for
\* any number of calls and failures (config.c:480-503, ntp.c:152-180).
THEOREM NtpFollowsSettingHolds == Spec => []NtpFollowsSetting
  <1>1. IndInv => NtpFollowsSetting
    <2> SUFFICES ASSUME NtpInv, ConfigInv, Quiet, ~overlapped
                 PROVE  /\ ntp_started = config_data.use_ntp
                        /\ ~ntp_started => work = "idle" /\ ntp_interval_sec \in {1, 20}
      BY DEF IndInv, NtpFollowsSetting
    <2>1. \A t \in Threads : ~Starting(t) /\ ~Stopping(t)
      BY DEF Quiet, Starting, Stopping
    <2>2. ntp_started = (config_data.use_ntp /\ boot_finished)
      BY <2>1 DEF NtpInv
    <2>3. ~ntp_started => work = "idle" /\ ntp_interval_sec \in {1, 20}
      BY <2>1 DEF NtpInv
    <2>4. boot_finished = TRUE /\ config_data.use_ntp \in BOOLEAN
      BY DEF Quiet, ConfigInv
    <2> QED
      BY <2>2, <2>3, <2>4
  <1> QED
    BY <1>1, Invariance, PTL

\* Without overlapping calls the work item is never initialised while it is
\* scheduled or running (ntp.c:157).
THEOREM InitOnlyIdleHolds == Spec => []InitOnlyIdle
  <1>1. IndInv => InitOnlyIdle
    BY DEF IndInv, NtpInv, InitOnlyIdle
  <1> QED
    BY <1>1, Invariance, PTL

\* Without overlapping calls and failures no handler waits for an answer of a
\* server that is not the configured one once no call is running
\* (config.c:532-555).
THEOREM AsksCurrentServerHolds == Spec => []AsksCurrentServer
  <1>1. IndInv => AsksCurrentServer
    <2> SUFFICES ASSUME NtpInv, Quiet, errors = 0, ~overlapped, work = "running"
                 PROVE  asked = config_data.ntp_server
      BY DEF IndInv, AsksCurrentServer
    <2>1. \A t \in Threads : ~Renaming(t)
      BY DEF Quiet, Renaming
    <2> QED
      BY <2>1 DEF NtpInv
  <1> QED
    BY <1>1, Invariance, PTL

\* Between settings that did not disturb each other the RTC has the time of the
\* system clock, whoever calls when (rtc.c:16-63, 107-131).
THEOREM RtcMatchesClockHolds == Spec => []RtcMatchesClock
  <1>1. IndInv => RtcMatchesClock
    BY DEF IndInv, RtcInv, RtcMatchesClock, ClockReady
  <1> QED
    BY <1>1, Invariance, PTL

\* Without overlapping calls the interface is what the settings say once no call
\* is running: DHCP whatever failed, and the static address and the gateway
\* unless an address could not be added (config.c:428-451, net.c:46-140).
THEOREM InterfaceFollowsSettingsHolds == Spec => []InterfaceFollowsSettings
  <1>1. IndInv => InterfaceFollowsSettings
    <2> SUFFICES ASSUME IndInv, Quiet, ~overlapped
                 PROVE  /\ (dhcp # "off") = config_data.use_dhcp4
                        /\ errors = 0 => Static \subseteq Configured
                        /\ errors = 0 /\ ~config_data.use_dhcp4 =>
                              /\ {unicast[i] : i \in Slots} \ {Unused} = Configured
                              /\ gateway = config_data.gw
      BY DEF InterfaceFollowsSettings
    <2>1. NetReady /\ \A t \in Threads : ~Applying(t) /\ ~Switching(t)
      BY DEF Quiet, NetReady, Applying, Switching
    <2>2. (dhcp # "off") = config_data.use_dhcp4
      BY <2>1 DEF IndInv, DhcpInv
    <2>3. ASSUME errors = 0
          PROVE  \A i \in Slots : /\ unicast[i] \in {Unused, Lease} \/ unicast[i] \in Configured
                                  /\ unicast[i] \in {Unused, Lease} <=> ~IsStatic(i)
      <3>1. \A i \in Slots : SlotOk(unicast[i])
        BY <2>3 DEF IndInv, SlotInv, SlotOk
      <3>2. \A i \in Slots : IsStatic(i) => unicast[i] \in Configured
        BY <2>1, <2>3 DEF IndInv, AddrInv
      <3>3. \A i \in Slots : IsStatic(i) \/ unicast[i] \in {Unused, Lease}
        BY <3>1, SlotKinds DEF IsStatic
      <3>4. \A i \in Slots : unicast[i] \in {Unused, Lease} => ~IsStatic(i)
        BY DEF IsStatic, Unused, Lease
      <3> QED
        BY <3>2, <3>3, <3>4
    <2>4. ASSUME errors = 0
          PROVE  Static \subseteq Configured
      BY <2>3, <2>4 DEF Static
    <2>5. ASSUME errors = 0, ~config_data.use_dhcp4
          PROVE  /\ {unicast[i] : i \in Slots} \ {Unused} = Configured
                 /\ gateway = config_data.gw
      <3>1. dhcp = "off" /\ \A i \in Slots : unicast[i] # Lease
        <4>1. dhcp = "off"
          BY <2>2, <2>5
        <4> QED
          BY <4>1, <2>5 DEF IndInv, SlotInv
      <3>2. gateway = config_data.gw
        BY <2>1, <2>5, <3>1 DEF IndInv, AddrInv
      <3>3. config_data.ip4 # "none" => \E i \in Slots : IsStatic(i)
        BY <2>1, <2>5, <3>1 DEF IndInv, AddrInv
      <3>4. {unicast[i] : i \in Slots} \ {Unused} \subseteq Configured
        BY <2>3, <2>5, <3>1
      <3>5. ASSUME NEW x \in Configured
            PROVE  x \in {unicast[i] : i \in Slots} \ {Unused}
        <4>1. config_data.ip4 # "none"
          BY <3>5 DEF Configured
        <4>2. PICK i \in Slots : IsStatic(i)
          BY <4>1, <3>3
        <4>3. unicast[i] \in Configured /\ unicast[i] # Unused
          BY <4>2, <2>3, <2>5
        <4>4. unicast[i] = x
          BY <4>1, <4>3, <3>5 DEF Configured
        <4> QED
          BY <4>3, <4>4
      <3> QED
        BY <3>2, <3>4, <3>5
    <2> QED
      BY <2>2, <2>4, <2>5
  <1> QED
    BY <1>1, Invariance, PTL

=============================================================================
