---------------------------- MODULE DSQueueDrain ----------------------------
(***************************************************************************)
(* The life of a queue as queue.h prescribes it: producers put their items, *)
(* the queue is closed when they are done, every consumer runs              *)
(*     while (NULL != (queue_item = ds_queue_get(queue))) ...               *)
(* and the owner frees the queue in the end.                                *)
(***************************************************************************)
EXTENDS DSQueue

CONSTANTS
    Producer, Consumer,     \* sets of threads
    Owner,                  \* the thread that closes and frees the queue
    Sends                   \* per producer, the items it puts, in order

\* Every thread has one part to play, and what is sent can be told apart: an
\* item is put by one producer, once.
ASSUME ClientAssumption ==
    /\ Thread = Producer \cup Consumer \cup {Owner}
    /\ Producer \cap Consumer = {} /\ Owner \notin Producer \cup Consumer
    /\ Sends \in [Producer -> Seq(Item)]
    /\ \A p, q \in Producer : \A i \in 1 .. Len(Sends[p]), j \in 1 .. Len(Sends[q]) :
            Sends[p][i] = Sends[q][j] => p = q /\ i = j

VARIABLES
    todo,       \* per producer, the items it has not put yet
    asking,     \* the consumers that have an unanswered get
    handled,    \* per consumer, the items it did something with, in order
    finished,   \* the consumers that left their loop
    freed       \* ds_queue_free was called

client == <<todo, asking, handled, finished, freed>>
drainVars == <<vars, client>>

DrainInit ==
    /\ Init
    /\ todo = Sends
    /\ asking = {}
    /\ handled = [c \in Consumer |-> <<>>]
    /\ finished = {}
    /\ freed = FALSE

Produce(p) ==
    /\ todo[p] # <<>>
    /\ Call(p, "put", Head(todo[p]))
    /\ todo' = [todo EXCEPT ![p] = Tail(@)]
    /\ UNCHANGED <<asking, handled, finished, freed>>

Ask(c) ==
    /\ c \notin asking \cup finished
    /\ Call(c, "get", NULL)
    /\ asking' = asking \cup {c}
    /\ UNCHANGED <<todo, handled, finished, freed>>

Handle(c) ==
    /\ c \in asking
    /\ pc[c] = "idle"
    /\ asking' = asking \ {c}
    /\ IF got[c] # NULL
       THEN handled' = [handled EXCEPT ![c] = Append(@, got[c])] /\ UNCHANGED finished
       ELSE finished' = finished \cup {c} /\ UNCHANGED handled
    /\ UNCHANGED <<vars, todo, freed>>

\* Mutant of CloseWhenSent: a put may still be under way.
CloseWhenCalled ==
    /\ ~closed
    /\ \A p \in Producer : todo[p] = <<>>
    /\ Call(Owner, "close", NULL)
    /\ UNCHANGED client

\* "A closed queue cannot add any new values": all puts have returned.
CloseWhenSent ==
    /\ ~closed
    /\ \A p \in Producer : todo[p] = <<>> /\ pc[p] = "idle"
    /\ Call(Owner, "close", NULL)
    /\ UNCHANGED client

\* Mutant of Free: right after ds_queue_close has returned.
FreeUnjoined ==
    /\ closed
    /\ pc[Owner] = "idle"
    /\ freed' = TRUE
    /\ UNCHANGED <<vars, todo, asking, handled, finished>>

\* ds_queue_free, "only after a call to ds_queue_close to make sure all 'gets'
\* are terminated": close only wakes the gets, so the owner joins the
\* consumers before it frees.
Free ==
    /\ closed
    /\ pc[Owner] = "idle"
    /\ finished = Consumer
    /\ freed' = TRUE
    /\ UNCHANGED <<vars, todo, asking, handled, finished>>

OwnSteps(t) ==
    \/ t \in Producer /\ Produce(t)
    \/ t \in Consumer /\ (Ask(t) \/ Handle(t))
    \/ t = Owner /\ (CloseWhenSent \/ Free)

InQueue(t) == Step(t) /\ UNCHANGED client

Running == ~aborted /\ ~freed

DrainNext ==
    /\ Running
    /\ \E t \in Thread :
        \/ OwnSteps(t)
        \/ InQueue(t)
        \/ SpuriousWakeup(t) /\ UNCHANGED client

\* Every thread is scheduled again and again, and a thread that queues for the
\* mutex gets it some time: the mutex has the default policy, and it is held
\* for a few instructions at a time.
DrainFairness ==
    \A t \in Thread :
        /\ WF_drainVars(Running /\ (OwnSteps(t) \/ InQueue(t)))
        /\ SF_drainVars(Running /\ Lock(t) /\ UNCHANGED client)

DrainSpec == DrainInit /\ [][DrainNext]_drainVars /\ DrainFairness

-----------------------------------------------------------------------------
Sent == UNION {{Sends[p][i] : i \in 1 .. Len(Sends[p])} : p \in Producer}

InSeq(s) == {s[i] : i \in 1 .. Len(s)}

Handled == UNION {InSeq(handled[c]) : c \in Consumer}

\* Every item is at exactly one place at any time: still to be put, in the
\* hands of a put, in the ring, in the hands of a get, or handled.
At(s, v) == {i \in 1 .. Len(s) : s[i] = v}

Places(v) ==
    (UNION {{<<"todo", p, i>> : i \in At(todo[p], v)} : p \in Producer})
    \cup (UNION {{<<"handled", c, i>> : i \in At(handled[c], v)} : c \in Consumer})
    \cup {<<"ring", i>> : i \in At(Contents, v)}
    \cup {<<"put", p>> : p \in {q \in Producer : arg[q] = v}}
    \cup {<<"get", c>> : c \in {d \in asking : got[d] = v}}

\* The documented protocol loses no item and delivers none twice (the items
\* sent are distinct).
EveryItemOnce == \A v \in Sent : Cardinality(Places(v)) = 1

\* A consumer sees the items of one producer in the order that producer put
\* them.
ProducerOrderKept ==
    \A c \in Consumer, p \in Producer :
        \A i, j \in 1 .. Len(handled[c]) :
            \A m, n \in 1 .. Len(Sends[p]) :
                i < j /\ handled[c][i] = Sends[p][m] /\ handled[c][j] = Sends[p][n]
                    => m < n

\* A client that closes only when all puts have returned meets no assert.
ProtocolNeverAborts == ~aborted

\* When the mutex and the condition variable are destroyed nobody is inside
\* the queue: a consumer that has seen NULL does not come back, and no put is
\* under way.
FreedWhenEmptyOfThreads ==
    freed => \A t \in Thread : pc[t] = "idle"

\* Together: what was put arrives once and in the order of its producer.
DeliveredInOrder == EveryItemOnce /\ ProducerOrderKept

\* Together: the documented end, close when the puts have returned and free when
\* the consumers have seen NULL, is safe.
ClosesSafely == ProtocolNeverAborts /\ FreedWhenEmptyOfThreads

\* Every run comes to its end: no thread sleeps for ever, all items are
\* handled and the queue is freed.
EverythingDrained == <>(freed /\ Handled = Sent)
=============================================================================
