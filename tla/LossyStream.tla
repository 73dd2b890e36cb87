------------------------------ MODULE LossyStream ------------------------------
(***************************************************************************)
(* What the event channel promises its clients, whatever threads, requests *)
(* and queue limits are behind it.  Every event is received at most once   *)
(* or lost; an event either goes straight to a reader that waits for one   *)
(* or waits in line.  The line is served in order, and only its oldest     *)
(* event may be given up, except when the driver goes away with all.       *)
(***************************************************************************)
EXTENDS SequencesExt

CONSTANT Events

VARIABLES
    waiting,   \* the line, oldest event first
    received,  \* what the readers got, in the order they got it
    lost       \* events nobody will receive

streamVars == <<waiting, received, lost>>

Fresh(e) == e \notin ToSet(waiting) \cup ToSet(received) \cup lost

StreamInit == waiting = <<>> /\ received = <<>> /\ lost = {}

Wait(e) ==
    /\ Fresh(e)
    /\ waiting' = Append(waiting, e)
    /\ UNCHANGED <<received, lost>>

Pass(e) ==
    /\ Fresh(e)
    /\ received' = Append(received, e)
    /\ UNCHANGED <<waiting, lost>>

Refuse(e) ==
    /\ Fresh(e)
    /\ lost' = lost \cup {e}
    /\ UNCHANGED <<waiting, received>>

Receive ==
    /\ waiting # <<>>
    /\ received' = Append(received, Head(waiting))
    /\ waiting' = Tail(waiting)
    /\ UNCHANGED lost

GiveUpOldest ==
    /\ waiting # <<>>
    /\ lost' = lost \cup {Head(waiting)}
    /\ waiting' = Tail(waiting)
    /\ UNCHANGED received

GiveUpAll ==
    /\ lost' = lost \cup ToSet(waiting)
    /\ waiting' = <<>>
    /\ UNCHANGED received

StreamNext ==
    \/ \E e \in Events : Wait(e) \/ Pass(e) \/ Refuse(e)
    \/ Receive
    \/ GiveUpOldest
    \/ GiveUpAll

StreamSpec == StreamInit /\ [][StreamNext]_streamVars

=============================================================================
