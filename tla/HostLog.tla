------------------------------ MODULE HostLog -------------------------------
(***************************************************************************)
(* What the host console log promises its readers (the interface of        *)
(* console_logger.h): a stream of bytes numbered from 0, of which the last *)
(* Keep are always available, read through cursors that only skip what is  *)
(* no longer kept.  ConsoleLog, the ring shared with the DMA, is shown to  *)
(* implement it; the console bridges are modelled on top of it.            *)
(***************************************************************************)
EXTENDS Integers

CONSTANTS Readers, Keep

VARIABLES received, \* bytes reported so far
          oldest,   \* the oldest position a read still returns
          pos       \* the readers' cursors

logvars == <<received, oldest, pos>>

Init ==
    /\ received = 0
    /\ oldest = 0
    /\ pos = [r \in Readers |-> 0]

\* Only positions more than Keep bytes behind the end may be given up.
Kept ==
    /\ oldest' \in Nat /\ oldest' >= oldest
    /\ oldest' > 0 => oldest' <= received' - Keep

\* Bytes arrive; older ones may become unavailable.
Append(n) ==
    /\ n > 0 /\ received' = received + n
    /\ Kept
    /\ UNCHANGED pos

\* Space is set aside for bytes still to come.
Retire ==
    /\ UNCHANGED <<received, pos>>
    /\ oldest' # oldest /\ Kept

\* A read starts at the cursor or, if that is gone, at the oldest byte kept, and
\* returns at least one byte whenever there is one.
From(p) == IF oldest > p THEN oldest ELSE p

ReadTo(r, to) ==
    /\ From(pos[r]) < received => to > From(pos[r])
    /\ pos' = [pos EXCEPT ![r] = to]
    /\ UNCHANGED <<received, oldest>>

Read(r) == \E to \in From(pos[r])..received : ReadTo(r, to)

SeekEnd(r) ==
    /\ pos' = [pos EXCEPT ![r] = received]
    /\ UNCHANGED <<received, oldest>>

Next ==
    \/ Append(received' - received)
    \/ Retire
    \/ \E r \in Readers : Read(r) \/ SeekEnd(r)

Spec == Init /\ [][Next]_logvars

=============================================================================
