------------------------------- MODULE Events -------------------------------
(***************************************************************************)
(* The kernel event object "events" (src/synch.c) that the interrupt       *)
(* handlers, the console senders and the connection handlers share.        *)
(* k_event_post and k_event_wait_safe belong to the kernel: a bit that no  *)
(* thread waits for stays set; a post wakes every thread waiting for it    *)
(* and then clears what they were woken by; a wait that finds its bit set  *)
(* clears it and does not block.                                           *)
(***************************************************************************)
EXTENDS FiniteSets

VARIABLES events, \* the bits that are set
          waiting \* for each thread, the bits it is blocked on; {} if it runs

EVENT_CONSOLE_LOG_DATA == "log_data"
EVENT_WEBSOCKET_CLIENT == "websocket_client"
EVENT_TELNET_CLIENT    == "telnet_client"

eventVars == <<events, waiting>>
AllEvents == {EVENT_CONSOLE_LOG_DATA, EVENT_WEBSOCKET_CLIENT, EVENT_TELNET_CLIENT}

EventsTypeOK(Threads) ==
    /\ events \subseteq AllEvents
    /\ waiting \in [Threads -> SUBSET AllEvents]

EventsInit(Threads) ==
    /\ events = {}
    /\ waiting = [t \in Threads |-> {}]

Blocked(t) == waiting[t] # {}

k_event_post(e) ==
    LET woken == {t \in DOMAIN waiting : e \in waiting[t]}
    IN  /\ events' = IF woken = {} THEN events \cup {e} ELSE events \ {e}
        /\ waiting' = [t \in DOMAIN waiting |-> IF t \in woken THEN {} ELSE waiting[t]]

k_event_wait_safe(t, bits) ==
    IF events \cap bits # {}
    THEN events' = events \ bits /\ UNCHANGED waiting
    ELSE waiting' = [waiting EXCEPT ![t] = bits] /\ UNCHANGED events

=============================================================================
