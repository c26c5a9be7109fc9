-------------------------------- MODULE Jtag --------------------------------
(***************************************************************************)
(* The JTAG daemon (src/jtag.c): one client at a time drives TCK, TMS and  *)
(* TDI through GPIOs.  A pin is written only if its value differs from the *)
(* cached one, and the three writes of a command are one step for the      *)
(* other threads (irq_lock) but not for the host's TAP, which samples TMS  *)
(* and TDI when TCK rises in between.  Reads of TDO and the commands that  *)
(* are ignored change nothing.                                             *)
(***************************************************************************)
EXTENDS Integers

CONSTANT MaxClients   \* bound: connections

ASSUME JtagAssumption == MaxClients \in Nat

Bits == [tck : {0, 1}, tms : {0, 1}, tdi : {0, 1}]
Unknown == [tck |-> -1, tms |-> -1, tdi |-> -1]

VARIABLES daemon,        \* "off", "init", "halted", "accept" or "client"
          waiting,       \* is a connection in the queue of the listening socket?
          peer,          \* of the one being served: "none", "connected" or "gone"
          output, line,  \* are the pins outputs; their levels, -1 when floating
          prev,          \* tck_prev, tms_prev and tdi_prev
          written,       \* the bits of the client's last write
          sampled,       \* what the TAP saw with the last rising TCK
          clients

pinVars == <<output, line, prev, written, sampled>>
jtagVars == <<daemon, waiting, peer, pinVars, clients>>

JtagInit ==
    /\ daemon = "off" /\ waiting = FALSE /\ peer = "none"
    /\ output = FALSE /\ line = Unknown /\ prev = Unknown /\ written = Unknown
    /\ sampled = <<-1, -1>> /\ clients = 0

\* After a reset of the BMC the pins float, as they do before jtag_init.
JtagReset ==
    /\ daemon' = "off" /\ waiting' = FALSE /\ peer' = "none"
    /\ output' = FALSE /\ line' = Unknown /\ prev' = Unknown /\ written' = Unknown
    /\ UNCHANGED <<sampled, clients>>

-----------------------------------------------------------------------------
\* Mutation of jtag_pins_enable: the cache is left.
EnableKeepsCache ==
    /\ output' = TRUE
    /\ line' = [tck |-> 0, tms |-> 1, tdi |-> 0]
    /\ UNCHANGED <<prev, written, sampled>>

jtag_pins_enable ==
    /\ output' = TRUE
    /\ line' = [tck |-> 0, tms |-> 1, tdi |-> 0]
    /\ prev' = Unknown
    /\ UNCHANGED <<written, sampled>>

jtag_pins_disable ==
    /\ output' = FALSE /\ line' = Unknown /\ written' = Unknown
    /\ UNCHANGED <<prev, sampled>>

\* set_tck, set_tms and set_tdi.
set_pin(pins, p, v) ==
    IF pins.prev[p] = v THEN pins
    ELSE [line |-> [pins.line EXCEPT ![p] = v],
          prev |-> [pins.prev EXCEPT ![p] = v],
          sampled |-> IF p = "tck" /\ v = 1 /\ pins.line.tck = 0
                      THEN <<pins.line.tms, pins.line.tdi>> ELSE pins.sampled]

-----------------------------------------------------------------------------
(* jtag_daemon_thread.  If the pins or the socket cannot be had it returns *)
(* with the pins floating.                                                 *)

jtag_init ==
    /\ daemon' = "init"
    /\ UNCHANGED <<waiting, peer, pinVars, clients>>

DaemonInit ==
    /\ daemon = "init"
    /\ daemon' \in {"accept", "halted"}
    /\ UNCHANGED <<waiting, peer, pinVars, clients>>

\* The client may have left while it waited.
Accept ==
    /\ daemon = "accept" /\ waiting
    /\ daemon' = "client" /\ waiting' = FALSE /\ peer' \in {"connected", "gone"}
    /\ jtag_pins_enable
    /\ UNCHANGED clients

Serving == daemon = "client" /\ peer = "connected"

WriteBits(bits) ==
    LET pins == [line |-> line, prev |-> prev, sampled |-> sampled]
        data == set_pin(set_pin(pins, "tms", bits.tms), "tdi", bits.tdi)
        all == set_pin(data, "tck", bits.tck)
    IN  /\ Serving
        /\ line' = all.line /\ prev' = all.prev /\ sampled' = all.sampled /\ written' = bits
        /\ UNCHANGED <<daemon, waiting, peer, output, clients>>

\* 'Q', or a recv or send that fails because the client is gone.
EndClient ==
    /\ daemon = "client"
    /\ daemon' = "accept" /\ peer' = "none"
    /\ jtag_pins_disable
    /\ UNCHANGED <<waiting, clients>>

ClientGone == peer = "gone" /\ EndClient
Quit == peer = "connected" /\ EndClient

JtagThread == DaemonInit \/ Accept \/ ClientGone

-----------------------------------------------------------------------------
(* The clients.                                                            *)

\* The socket listens with a backlog of one.
Connect ==
    /\ daemon \in {"accept", "client"} /\ ~waiting /\ clients < MaxClients
    /\ waiting' = TRUE /\ clients' = clients + 1
    /\ UNCHANGED <<daemon, peer, pinVars>>

Disconnect ==
    /\ peer = "connected"
    /\ peer' = "gone"
    /\ UNCHANGED <<daemon, waiting, pinVars, clients>>

Client == Connect \/ Disconnect \/ Quit \/ \E bits \in Bits : WriteBits(bits)

JtagNext == JtagThread \/ Client

-----------------------------------------------------------------------------
(* Properties.                                                             *)

\* In spite of the cache every client gets what it writes: no write is dropped
\* because an earlier client left the same value behind, TCK rises once per
\* write that asks for it and with that write's TMS and TDI on the lines, and
\* nothing is driven between clients (jtag.c:39-64, 149-166).
Wire == INSTANCE JtagWire WITH driven <- output
ImplementsJtagWire == Wire!Spec

=============================================================================
