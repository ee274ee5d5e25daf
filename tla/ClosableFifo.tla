---------------------------- MODULE ClosableFifo ----------------------------
(***************************************************************************)
(* What queue.h promises its callers: a first-in first-out channel that     *)
(* holds at most Capacity items and can be closed once and for all.  Each   *)
(* call that completes is one step here; locks, waiting and the ring buffer *)
(* are the business of DSQueue, which is shown to implement this module.    *)
(***************************************************************************)
EXTENDS Naturals, Sequences

CONSTANTS
    Thread,     \* the threads that use the channel
    Item,       \* what they put into it
    NULL,       \* what a get on a closed and empty channel returns
    Capacity    \* how many items fit

VARIABLES
    items,      \* the accepted items, oldest first
    closed,     \* the channel takes no more items
    got,        \* per thread, what its last finished get returned
    aborted     \* an assertion of the channel stopped the process

vars == <<items, closed, got, aborted>>

Init ==
    /\ items = <<>>
    /\ closed = FALSE
    /\ got = [t \in Thread |-> NULL]
    /\ aborted = FALSE

\* A thread asks for something; what it got before is forgotten.
Request(t) ==
    /\ got' = [got EXCEPT ![t] = NULL]
    /\ UNCHANGED <<items, closed, aborted>>

\* A put is accepted only by an open channel with room.
Accept(v) ==
    /\ ~closed
    /\ Len(items) < Capacity
    /\ items' = Append(items, v)
    /\ UNCHANGED <<closed, got, aborted>>

\* A get takes the oldest item, from an open or a closed channel.
Deliver(t) ==
    /\ items # <<>>
    /\ items' = Tail(items)
    /\ got' = [got EXCEPT ![t] = Head(items)]
    /\ UNCHANGED <<closed, aborted>>

\* A get gives up only when nothing is left and nothing can come.
EndOfItems(t) ==
    /\ items = <<>>
    /\ closed
    /\ got' = [got EXCEPT ![t] = NULL]
    /\ UNCHANGED <<items, closed, aborted>>

Close ==
    /\ closed' = TRUE
    /\ UNCHANGED <<items, got, aborted>>

\* The only assertion a caller can run into is that of a put on a closed
\* channel.
PutOnClosed ==
    /\ closed
    /\ aborted' = TRUE
    /\ UNCHANGED <<items, closed, got>>

Next ==
    /\ ~aborted
    /\ \/ \E v \in Item : Accept(v)
       \/ \E t \in Thread : Request(t) \/ Deliver(t) \/ EndOfItems(t)
       \/ Close
       \/ PutOnClosed

Spec == Init /\ [][Next]_vars
=============================================================================
