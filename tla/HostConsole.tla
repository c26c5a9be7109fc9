---------------------------- MODULE HostConsole -----------------------------
(***************************************************************************)
(* The host console as main.c assembles it: the console logger's           *)
(* interrupt, the telnet bridge and the websocket bridge, which meet in    *)
(* the log and in the event object.                                        *)
(***************************************************************************)
EXTENDS ConsoleBridge, ConsoleBridgeWs

vars == <<logVars, eventVars, telnetVars, wsVars>>

Init == SharedInit /\ TelnetInit /\ WsInit

HostOutput == UartCallback /\ UNCHANGED <<telnetVars, wsVars>>

Next ==
    \/ HostOutput
    \/ TelnetNext /\ UNCHANGED wsVars
    \/ WsNext /\ UNCHANGED telnetVars

Spec == Init /\ [][Next]_vars

=============================================================================
