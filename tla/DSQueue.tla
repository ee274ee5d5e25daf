------------------------------ MODULE DSQueue ------------------------------
(***************************************************************************)
(* The blocking queue of UI/BaseService/Swizzling/queue.c: a ring buffer    *)
(* guarded by one mutex and one condition variable that producers and       *)
(* consumers share.  A thread makes one call at a time; between taking the  *)
(* mutex and giving it up its steps interleave with everybody else's        *)
(* attempts to take it.                                                     *)
(*                                                                         *)
(* Where a thread stands in its call:                                       *)
(*   idle     outside the queue                                             *)
(*   lock     at pthread_mutex_lock                                         *)
(*   enter    holds the mutex, has not looked at the queue yet              *)
(*   loop     holds the mutex, at the test of its while loop                *)
(*   wait     blocked in pthread_cond_wait, the mutex given up              *)
(*   relock   woken, must take the mutex again before cond_wait returns     *)
(***************************************************************************)
EXTENDS Naturals, Sequences, FiniteSets

CONSTANTS
    Thread,     \* the threads that call the queue
    Item,       \* the pointers put into it, none of them NULL
    NULL,       \* the null pointer
    Garbage,    \* what a slot of a fresh malloc'ed buffer holds
    NoThread,   \* the holder of a free mutex
    Capacity,   \* buffer_capacity
    UInt        \* the number of values of a uint32_t

ASSUME CapacityAssumption == Capacity \in Nat \ {0}

\* pos + length is computed in uint32_t and must not wrap before the
\* remainder is taken.  The app's capacity is 1024, 2^32 values fit.
ASSUME UIntAssumption == UInt \in Nat /\ 2 * Capacity <= UInt

ASSUME NullAssumption ==
    NULL \notin Item /\ Garbage \notin Item \cup {NULL} /\ NoThread \notin Thread

VARIABLES
    buf,        \* the slots of the ring
    pos,        \* the slot of the oldest item
    length,     \* how many items the ring holds
    closed,     \* ds_queue_close was called
    mutate,     \* the thread that holds the mutex, or NoThread
    pc,         \* per thread, where it stands in its call
    op,         \* per thread, the function it last called
    arg,        \* per thread, the item of its last put
    got,        \* per thread, what its last ds_queue_get returned
    len,        \* per thread, what its last ds_queue_length returned
    aborted     \* an assert failed and abort() stopped the process

ring == <<buf, pos, length>>
results == <<got, len>>
vars == <<buf, pos, length, closed, mutate, pc, op, arg, got, len, aborted>>

Slot == 0 .. Capacity - 1
Operation == {"put", "get", "close", "length"}

\* ds_queue_create: the buffer comes from malloc and is not cleared.
Init ==
    /\ buf = [s \in Slot |-> Garbage]
    /\ pos = 0
    /\ length = 0
    /\ closed = FALSE
    /\ mutate = NoThread
    /\ pc = [t \in Thread |-> "idle"]
    /\ op = [t \in Thread |-> "length"]
    /\ arg = [t \in Thread |-> NULL]
    /\ got = [t \in Thread |-> NULL]
    /\ len = [t \in Thread |-> 0]
    /\ aborted = FALSE

-----------------------------------------------------------------------------
\* Mutants of SlotOf: one slot too far; the offset of the oldest item forgotten.
SlotOfNext(n) == ((pos + n + 1) % UInt) % Capacity
SlotOfFromZero(n) == (n % UInt) % Capacity

\* The slot of the item that stands n places behind the oldest one.
SlotOf(n) == ((pos + n) % UInt) % Capacity

\* A thread calls one of the functions; it has used its last result by then.
Call(t, o, v) ==
    /\ pc[t] = "idle"
    /\ pc' = [pc EXCEPT ![t] = "lock"]
    /\ op' = [op EXCEPT ![t] = o]
    /\ arg' = [arg EXCEPT ![t] = v]
    /\ got' = [got EXCEPT ![t] = NULL]
    /\ len' = [len EXCEPT ![t] = 0]
    /\ UNCHANGED <<ring, closed, mutate, aborted>>

\* pthread_mutex_lock, first in the function or inside pthread_cond_wait.
Lock(t) ==
    /\ pc[t] \in {"lock", "relock"}
    /\ mutate = NoThread
    /\ mutate' = t
    /\ pc' = [pc EXCEPT ![t] = IF @ = "lock" THEN "enter" ELSE "loop"]
    /\ UNCHANGED <<ring, closed, op, arg, results, aborted>>

\* POSIX lets pthread_cond_wait return although nobody signalled.
SpuriousWakeup(t) ==
    /\ pc[t] = "wait"
    /\ pc' = [pc EXCEPT ![t] = "relock"]
    /\ UNCHANGED <<ring, closed, mutate, op, arg, results, aborted>>

\* Mutant of Broadcast: pthread_cond_signal wakes one waiter.
Signal(p) ==
    IF \E u \in Thread : p[u] = "wait"
    THEN [p EXCEPT ![CHOOSE u \in Thread : p[u] = "wait"] = "relock"]
    ELSE p

\* pthread_cond_broadcast: everybody who waits, for room or for an item,
\* goes back to the mutex.
Broadcast(p) == [u \in Thread |-> IF p[u] = "wait" THEN "relock" ELSE p[u]]

\* The thread gives up the mutex and returns to its caller.
Unlock(t) == mutate' = NoThread
Returned(t) == [pc EXCEPT ![t] = "idle"]

In(t, o, where) == op[t] = o /\ pc[t] \in where /\ mutate = t

-----------------------------------------------------------------------------
(* ds_queue_put *)

\* The first assert, before the loop.
PutChecksOpen(t) ==
    /\ In(t, "put", {"enter"})
    /\ aborted' = closed
    /\ pc' = [pc EXCEPT ![t] = "loop"]
    /\ UNCHANGED <<ring, closed, mutate, op, arg, results>>

PutWaits(t) ==
    /\ In(t, "put", {"loop"})
    /\ length = Capacity
    /\ pc' = [pc EXCEPT ![t] = "wait"]
    /\ Unlock(t)
    /\ UNCHANGED <<ring, closed, op, arg, results, aborted>>

\* The asserts behind the loop.
PutFails(t) ==
    /\ In(t, "put", {"loop"})
    /\ length # Capacity
    /\ closed \/ ~(length < Capacity)
    /\ aborted' = TRUE
    /\ UNCHANGED <<ring, closed, mutate, pc, op, arg, results>>

\* Mutant of PutStores: the assert behind the loop does not look at closed.
PutStoresUnchecked(t) ==
    /\ In(t, "put", {"loop"})
    /\ length < Capacity
    /\ buf' = [buf EXCEPT ![SlotOf(length)] = arg[t]]
    /\ length' = length + 1
    /\ pc' = Broadcast(Returned(t))
    /\ arg' = [arg EXCEPT ![t] = NULL]
    /\ Unlock(t)
    /\ UNCHANGED <<pos, closed, op, results, aborted>>

\* Mutant of PutStores: it does not wait for room.
PutStoresWhenFull(t) ==
    /\ In(t, "put", {"loop"})
    /\ ~closed
    /\ buf' = [buf EXCEPT ![SlotOf(length)] = arg[t]]
    /\ length' = length + 1
    /\ pc' = Broadcast(Returned(t))
    /\ arg' = [arg EXCEPT ![t] = NULL]
    /\ Unlock(t)
    /\ UNCHANGED <<pos, closed, op, results, aborted>>

PutStores(t) ==
    /\ In(t, "put", {"loop"})
    /\ length < Capacity
    /\ ~closed
    /\ buf' = [buf EXCEPT ![SlotOf(length)] = arg[t]]
    /\ length' = length + 1
    /\ pc' = Broadcast(Returned(t))
    /\ arg' = [arg EXCEPT ![t] = NULL]
    /\ Unlock(t)
    /\ UNCHANGED <<pos, closed, op, results, aborted>>

(* ds_queue_get *)

GetWaits(t) ==
    /\ In(t, "get", {"enter", "loop"})
    /\ length = 0
    /\ ~closed
    /\ pc' = [pc EXCEPT ![t] = "wait"]
    /\ Unlock(t)
    /\ UNCHANGED <<ring, closed, op, arg, results, aborted>>

\* Mutant of GetReturnsNull: the early return keeps the mutex.
GetReturnsNullLocked(t) ==
    /\ In(t, "get", {"enter", "loop"})
    /\ length = 0
    /\ closed
    /\ got' = [got EXCEPT ![t] = NULL]
    /\ pc' = Returned(t)
    /\ UNCHANGED <<ring, closed, mutate, op, arg, len, aborted>>

GetReturnsNull(t) ==
    /\ In(t, "get", {"enter", "loop"})
    /\ length = 0
    /\ closed
    /\ got' = [got EXCEPT ![t] = NULL]
    /\ pc' = Returned(t)
    /\ Unlock(t)
    /\ UNCHANGED <<ring, closed, op, arg, len, aborted>>

\* Mutant of GetTakes: an if instead of the while, so that a woken get goes
\* on without looking at length again.
GetTakesAfterIf(t) ==
    /\ In(t, "get", {"enter", "loop"})
    /\ length > 0 \/ pc[t] = "loop"
    /\ aborted' = ~(length \in 1 .. Capacity)
    /\ got' = [got EXCEPT ![t] = buf[pos]]
    /\ buf' = [buf EXCEPT ![pos] = NULL]
    /\ pos' = ((pos + 1) % UInt) % Capacity
    /\ length' = length - 1
    /\ pc' = Broadcast(Returned(t))
    /\ Unlock(t)
    /\ UNCHANGED <<closed, op, arg, len>>

\* With the asserts behind the loop; length is unsigned.
GetTakes(t) ==
    /\ In(t, "get", {"enter", "loop"})
    /\ length > 0
    /\ aborted' = ~(length <= Capacity)
    /\ got' = [got EXCEPT ![t] = buf[pos]]
    /\ buf' = [buf EXCEPT ![pos] = NULL]
    /\ pos' = ((pos + 1) % UInt) % Capacity
    /\ length' = length - 1
    /\ pc' = Broadcast(Returned(t))
    /\ Unlock(t)
    /\ UNCHANGED <<closed, op, arg, len>>

(* ds_queue_close and ds_queue_length *)

\* Mutant of CloseQueue: nobody is woken.
CloseQueueSilently(t) ==
    /\ In(t, "close", {"enter"})
    /\ closed' = TRUE
    /\ pc' = Returned(t)
    /\ Unlock(t)
    /\ UNCHANGED <<ring, op, arg, results, aborted>>

CloseQueue(t) ==
    /\ In(t, "close", {"enter"})
    /\ closed' = TRUE
    /\ pc' = Broadcast(Returned(t))
    /\ Unlock(t)
    /\ UNCHANGED <<ring, op, arg, results, aborted>>

ReadLength(t) ==
    /\ In(t, "length", {"enter"})
    /\ len' = [len EXCEPT ![t] = length]
    /\ pc' = Returned(t)
    /\ Unlock(t)
    /\ UNCHANGED <<ring, closed, op, arg, got, aborted>>

-----------------------------------------------------------------------------
\* The rest of a call once it was made; only a spurious wakeup is not the
\* thread's own doing.
Step(t) ==
    \/ Lock(t)
    \/ PutChecksOpen(t) \/ PutWaits(t) \/ PutFails(t) \/ PutStores(t)
    \/ GetWaits(t) \/ GetReturnsNull(t) \/ GetTakes(t)
    \/ CloseQueue(t) \/ ReadLength(t)

\* Any thread may call anything at any time.
Next ==
    /\ ~aborted
    /\ \E t \in Thread :
        \/ \E v \in Item : Call(t, "put", v)
        \/ \E o \in Operation \ {"put"} : Call(t, o, NULL)
        \/ Step(t)
        \/ SpuriousWakeup(t)

Spec == Init /\ [][Next]_vars

-----------------------------------------------------------------------------
Place == {"idle", "lock", "enter", "loop", "wait", "relock"}

\* Every variable keeps its type; in particular no get ever hands out what
\* malloc left in a slot.
TypeOK ==
    /\ buf \in [Slot -> Item \cup {NULL, Garbage}]
    /\ pos \in Slot
    /\ length \in 0 .. Capacity
    /\ closed \in BOOLEAN
    /\ mutate \in Thread \cup {NoThread}
    /\ pc \in [Thread -> Place]
    /\ op \in [Thread -> Operation]
    /\ arg \in [Thread -> Item \cup {NULL}]
    /\ got \in [Thread -> Item \cup {NULL}]
    /\ len \in [Thread -> 0 .. Capacity]
    /\ aborted \in BOOLEAN

\* The mutex is held exactly by a thread that is inside a critical section:
\* no return path forgets pthread_mutex_unlock and no two threads touch the
\* ring at once.
HolderIsInside ==
    \A t \in Thread : mutate = t <=> pc[t] \in {"enter", "loop"}

\* No lost wakeup: whoever sleeps in pthread_cond_wait still has a reason to.
\* A put sleeps only while the ring is full, a get only while the ring is
\* empty and open; one condition variable serves both, so this needs the
\* broadcast in put, get and close.
NoLostWakeup ==
    \A t \in Thread : pc[t] = "wait" =>
        \/ op[t] = "put" /\ length = Capacity
        \/ op[t] = "get" /\ length = 0 /\ ~closed

\* Nobody is kept out of the queue or asleep in it without a reason: the mutex
\* is held by a thread that will give it back.
NobodyStuck == HolderIsInside /\ NoLostWakeup

\* Of the queue's asserts only those against a put on a closed queue can
\* fail; the ones about length (length < capacity, length <= capacity) hold
\* on every path, also after a spurious wakeup.
AbortsOnlyClosed == aborted => closed

\* queue.h: "If the queue is closed and empty, it will always be empty".
\* A put that slept through the close must not bring an item in behind a get
\* that already returned NULL.
DrainedForever == [][closed /\ length = 0 => closed' /\ length' = 0]_vars

-----------------------------------------------------------------------------
\* The items in the ring, oldest first.
Contents == [i \in 1 .. length |-> buf[(pos + i - 1) % Capacity]]

Fifo == INSTANCE ClosableFifo WITH items <- Contents

\* The locked ring buffer is a closable first-in first-out channel: calls take
\* effect one at a time, items leave in the order they came in, none is lost,
\* duplicated or overwritten when pos wraps around.
RefinesFifo == Fifo!Spec

\* queue.h: "If the queue is full, ds_queue_put will block until it is not
\* full, in which case the value will be added to the queue."  A put that got
\* past its first assert and blocked is never stopped by an assert.
BlockedPutIsAdded ==
    [][\A t \in Thread :
        op[t] = "put" /\ pc[t] = "loop" /\ ~aborted => ~aborted']_vars

=============================================================================
