------------------------------ MODULE JtagWire ------------------------------
(***************************************************************************)
(* What the JTAG port promises its client and the host's TAP: while a      *)
(* client is there every write puts its three bits on the lines, and a     *)
(* rising TCK makes the TAP sample the TMS and TDI of that same write;     *)
(* without a client nothing is driven.                                     *)
(***************************************************************************)
EXTENDS Integers

VARIABLES driven,   \* are the pins outputs?
          line,     \* the levels of TCK, TMS and TDI
          written,  \* the bits of the client's last write
          sampled   \* what the TAP saw with the last rising TCK

Bits == [tck : {0, 1}, tms : {0, 1}, tdi : {0, 1}]
Floating == [tck |-> -1, tms |-> -1, tdi |-> -1]
Idle == [tck |-> 0, tms |-> 1, tdi |-> 0]

Init == driven = FALSE /\ line = Floating /\ written = Floating /\ sampled = <<-1, -1>>

Enable ==
    /\ ~driven
    /\ driven' = TRUE /\ line' = Idle
    /\ UNCHANGED <<written, sampled>>

Write(bits) ==
    /\ driven
    /\ line' = bits /\ written' = bits
    /\ sampled' = IF line.tck = 0 /\ bits.tck = 1 THEN <<bits.tms, bits.tdi>> ELSE sampled
    /\ UNCHANGED driven

Release ==
    /\ driven' = FALSE /\ line' = Floating /\ written' = Floating
    /\ UNCHANGED sampled

Next == Enable \/ Release \/ \E bits \in Bits : Write(bits)

Spec == Init /\ [][Next]_<<driven, line, written, sampled>>

=============================================================================
