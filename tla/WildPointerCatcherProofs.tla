---------------------- MODULE WildPointerCatcherProofs ----------------------
(***************************************************************************)
(* The catcher uses the queue only through its functions, so what was       *)
(* proved of the queue holds inside it; and the gap between the limit of    *)
(* myDealloc and the capacity of the queue is enough.                       *)
(***************************************************************************)
EXTENDS WildPointerCatcher, DSQueueProofs, FiniteSetTheorems, WellFoundedInduction

USE CatcherAssumption

\* What the call a thread is in says about the method it is in.
CallFits(t) ==
    /\ at[t] \in {"out", "counting", "putting", "purgeCount", "purging", "purgeGet"}
    /\ pc[t] # "idle" => <<at[t], op[t]>> \in
        {<<"counting", "length">>, <<"putting", "put">>, <<"purgeCount", "length">>, <<"purgeGet", "get">>}
    /\ at[t] \in {"counting", "putting"} => self[t] \in Item
    /\ at[t] \in {"purgeCount", "purging", "purgeGet"} => t \in Purger

CLink ==
    /\ at \in [Thread -> {"out", "counting", "putting", "purgeCount", "purging", "purgeGet"}]
    /\ self \in [Thread -> Item \cup {NULL}]
    /\ left \in [Thread -> Int]
    /\ \A t \in Thread : CallFits(t)
    /\ closed = FALSE
    /\ aborted = FALSE

\* The threads that will put whatever the length becomes: they read a length
\* below the limit, or their put is under way.
Bound(t) ==
    \/ at[t] = "counting" /\ pc[t] = "idle" /\ len[t] < StealLimit
    \/ at[t] = "putting" /\ pc[t] # "idle"

InFlight == {t \in Thread : Bound(t)}

RoomForAll == length + Cardinality(InFlight) <= StealLimit - 1 + Cardinality(Thread)

\* What a lone purge still wants to take is in the queue.
PurgeFinds ==
    (\A s, u \in Purger : s = u) => \A t \in Thread :
        /\ at[t] = "purgeCount" /\ pc[t] = "idle" => len[t] <= length
        /\ at[t] = "purging" => left[t] <= length
        /\ at[t] = "purgeGet" => left[t] >= 1
        /\ at[t] = "purgeGet" /\ pc[t] # "idle" => left[t] <= length
        /\ at[t] = "purgeGet" /\ pc[t] = "idle" => left[t] - 1 <= length

CInv ==
    /\ IInv
    /\ CLink
    /\ RoomForAll
    /\ PurgeFinds
    /\ DeallocNeverSleeps
    /\ PurgeNeverSleeps

LEMMA ThreadsCounted ==
    /\ Cardinality(Thread) \in Nat
    /\ \A S : S \subseteq Thread =>
            IsFiniteSet(S) /\ Cardinality(S) \in Nat /\ Cardinality(S) <= Cardinality(Thread)
BY FS_CardinalityType, FS_Subset

LEMMA CInitInv == CatcherInit => IInv /\ CLink
<1> SUFFICES ASSUME CatcherInit PROVE IInv /\ CLink
  OBVIOUS
<1>1. IInv
  BY InitIInv DEF CatcherInit
<1>2. CLink
  BY DEF CatcherInit, Init, CLink, CallFits
<1> QED  BY <1>1, <1>2

\* The catcher's steps are steps of the queue or leave it alone.
LEMMA CatcherUsesQueue == CLink /\ [CatcherNext]_catcherVars => [Next]_vars
<1> SUFFICES ASSUME CLink, [CatcherNext]_catcherVars PROVE [Next]_vars
  OBVIOUS
<1>1. CASE UNCHANGED catcherVars
  BY <1>1 DEF catcherVars
<1>2. CASE CatcherNext
  <2>0. ~aborted
    BY <1>2 DEF CatcherNext, Running
  <2>1. CASE \E o \in Item : Alloc(o)
    BY <2>1 DEF Alloc
  <2>2. ASSUME NEW t \in Thread, NEW o \in Item,
               DeallocSmall(t, o) \/ DeallocCatch(t, o) \/ MessageCaught(t, o)
        PROVE  [Next]_vars
    BY <2>0, <2>2 DEF DeallocSmall, DeallocCatch, MessageCaught, Next, Operation
  <2>3. ASSUME NEW t \in Thread, PurgeStart(t) \/ PurgeNext(t) PROVE [Next]_vars
    BY <2>0, <2>3 DEF PurgeStart, PurgeNext, Next, Operation
  <2>4. ASSUME NEW t \in Thread, DeallocKeep(t) PROVE [Next]_vars
    <3>1. self[t] \in Item
      BY <2>4 DEF DeallocKeep, Go, CLink, CallFits
    <3> QED  BY <2>0, <2>4, <3>1 DEF DeallocKeep, Next
  <2>5. ASSUME NEW t \in Thread,
               \/ DeallocForget(t) \/ DeallocReturn(t)
               \/ PurgeCount(t) \/ PurgeFree(t) \/ PurgeReturn(t)
        PROVE  [Next]_vars
    BY <2>5 DEF DeallocForget, DeallocReturn, PurgeCount, PurgeFree, PurgeReturn
  <2>6. ASSUME NEW t \in Thread, Step(t) \/ SpuriousWakeup(t) PROVE [Next]_vars
    BY <2>0, <2>6 DEF Next
  <2> QED  BY <1>2, <2>1, <2>2, <2>3, <2>4, <2>5, <2>6 DEF CatcherNext, Work
<1> QED  BY <1>1, <1>2

-----------------------------------------------------------------------------
(* What a step of the queue can be, seen from the catcher. *)

Passes(t) ==
    /\ length' = length /\ len' = len
    /\ \A u \in Thread : /\ pc'[u] = "idle" <=> pc[u] = "idle"
                         /\ pc'[u] = "wait" => pc[u] = "wait"

Sleeps(t) ==
    /\ length' = length /\ len' = len
    /\ (op[t] = "put" /\ length = Capacity) \/ (op[t] = "get" /\ length = 0)
    /\ \A u \in Thread : /\ pc'[u] = "idle" <=> pc[u] = "idle"
                         /\ pc'[u] = "wait" => pc[u] = "wait" \/ u = t

Returns(t) ==
    \A u \in Thread : /\ pc'[u] = "idle" <=> pc[u] = "idle" \/ u = t
                      /\ pc'[u] = "wait" => pc[u] = "wait"

Stored(t) == op[t] = "put" /\ length' = length + 1 /\ len' = len /\ Returns(t)

Took(t) == op[t] = "get" /\ length' = length - 1 /\ len' = len /\ Returns(t)

Measured(t) ==
    op[t] = "length" /\ length' = length /\ len' = [len EXCEPT ![t] = length] /\ Returns(t)

\* Nobody closes the queue of the catcher, and none of its asserts fails.
LEMMA QueueStep ==
    ASSUME IInv, CLink, NEW t \in Thread, Step(t) \/ SpuriousWakeup(t)
    PROVE  /\ op' = op /\ closed' = FALSE /\ aborted' = FALSE
           /\ pc[t] # "idle"
           /\ Passes(t) \/ Sleeps(t) \/ Stored(t) \/ Took(t) \/ Measured(t)
<1> USE DEF IInv
<1>0. /\ pc \in [Thread -> Place] /\ length \in 0 .. Capacity /\ closed = FALSE /\ aborted = FALSE
      /\ len \in [Thread -> 0 .. Capacity]
      /\ pc[t] # "idle" => op[t] \in {"put", "get", "length"}
  BY DEF TypeOK, CLink, CallFits
<1>1. ASSUME Lock(t) \/ PutChecksOpen(t) \/ SpuriousWakeup(t)
      PROVE  op' = op /\ closed' = FALSE /\ aborted' = FALSE /\ pc[t] # "idle" /\ Passes(t)
  <2>1. /\ op' = op /\ closed' = FALSE /\ aborted' = FALSE /\ pc[t] # "idle"
        /\ length' = length /\ len' = len
    BY <1>0, <1>1 DEF Lock, PutChecksOpen, SpuriousWakeup, In, ring, results
  <2>2. /\ pc'[t] \in {"enter", "loop", "relock"}
        /\ \A u \in Thread : u # t => pc'[u] = pc[u]
    BY <1>0, <1>1 DEF Lock, PutChecksOpen, SpuriousWakeup, In
  <2> QED  BY <2>1, <2>2 DEF Passes
<1>2. ASSUME PutWaits(t) \/ GetWaits(t)
      PROVE  op' = op /\ closed' = FALSE /\ aborted' = FALSE /\ pc[t] # "idle" /\ Sleeps(t)
  <2>1. /\ op' = op /\ closed' = FALSE /\ aborted' = FALSE /\ pc[t] # "idle"
        /\ length' = length /\ len' = len
        /\ (op[t] = "put" /\ length = Capacity) \/ (op[t] = "get" /\ length = 0)
    <3>1. CASE PutWaits(t)
      BY <1>0, <3>1 DEF PutWaits, In, ring, results
    <3>2. CASE GetWaits(t)
      BY <1>0, <3>2 DEF GetWaits, In, ring, results
    <3> QED  BY <1>2, <3>1, <3>2
  <2>2. /\ pc'[t] = "wait"
        /\ \A u \in Thread : u # t => pc'[u] = pc[u]
    BY <1>0, <1>2 DEF PutWaits, GetWaits, In
  <2> QED  BY <2>1, <2>2 DEF Sleeps
<1>3. ~PutFails(t) /\ ~GetReturnsNull(t) /\ ~CloseQueue(t)
  <2>1. ~GetReturnsNull(t) /\ ~CloseQueue(t)
    BY <1>0 DEF GetReturnsNull, CloseQueue, In
  <2>2. length # Capacity => length < Capacity
    <3>1. length \in 0 .. Capacity
      BY <1>0
    <3>2. ASSUME NEW n \in 0 .. Capacity PROVE n # Capacity => n < Capacity
      BY CapacityAssumption
    <3> QED  BY <3>1, <3>2
  <2>3. ~PutFails(t)
    BY <1>0, <2>2, Zenon DEF PutFails
  <2> QED  BY <2>1, <2>3
<1>4. ASSUME pc' = Broadcast(Returned(t)) PROVE Returns(t)
  <2>1. \A u \in Thread : Returned(t)[u] = IF u = t THEN "idle" ELSE pc[u]
    BY <1>0 DEF Returned
  <2>2. \A u \in Thread : pc'[u] = IF Returned(t)[u] = "wait" THEN "relock" ELSE Returned(t)[u]
    BY <1>4 DEF Broadcast
  <2> QED  BY <2>1, <2>2 DEF Returns
<1>5. ASSUME PutStores(t)
      PROVE  op' = op /\ closed' = FALSE /\ aborted' = FALSE /\ pc[t] # "idle" /\ Stored(t)
  BY <1>0, <1>4, <1>5 DEF PutStores, In, Stored, results
<1>6. ASSUME GetTakes(t)
      PROVE  op' = op /\ closed' = FALSE /\ aborted' = FALSE /\ pc[t] # "idle" /\ Took(t)
  <2>1. length <= Capacity
    BY <1>0
  <2>2. aborted' = FALSE
    BY <1>6, <2>1, Zenon DEF GetTakes
  <2>3. op' = op /\ closed' = FALSE /\ pc[t] # "idle"
    BY <1>0, <1>6 DEF GetTakes, In
  <2>4. Took(t)
    <3>1. pc' = Broadcast(Returned(t)) /\ len' = len /\ op[t] = "get" /\ length' = length - 1
      BY <1>6, Zenon DEF GetTakes, In
    <3> QED  BY <1>4, <3>1 DEF Took
  <2> QED  BY <2>2, <2>3, <2>4
<1>7. ASSUME ReadLength(t)
      PROVE  op' = op /\ closed' = FALSE /\ aborted' = FALSE /\ pc[t] # "idle" /\ Measured(t)
  <2>1. \A u \in Thread : pc'[u] = IF u = t THEN "idle" ELSE pc[u]
    BY <1>0, <1>7 DEF ReadLength, Returned
  <2>2. Returns(t)
    BY <2>1 DEF Returns
  <2> QED  BY <1>0, <1>7, <2>2 DEF ReadLength, In, Measured, ring
<1> QED  BY <1>1, <1>2, <1>3, <1>5, <1>6, <1>7 DEF Step

\* A step of the queue that the thread t makes inside one of the methods.
QueueMoves(t) == (Step(t) \/ SpuriousWakeup(t)) /\ UNCHANGED catcher

\* What the other steps of the catcher do to the thread that makes them.
Enters(t) ==
    \/ at[t] = "out" /\ at'[t] = "counting" /\ pc'[t] # "idle" /\ self'[t] \in Item
    \/ at[t] = "out" /\ at'[t] = "purgeCount" /\ pc'[t] # "idle" /\ t \in Purger

Keeps(t) ==
    /\ at[t] = "counting" /\ len[t] < StealLimit
    /\ at'[t] = "putting" /\ pc'[t] # "idle"

Leaves(t) == at[t] # "out" /\ at'[t] = "out" /\ pc'[t] = "idle"

Purges(t) ==
    \/ at[t] = "purgeCount" /\ at'[t] = "purging" /\ pc'[t] = "idle" /\ left'[t] = len[t]
    \/ at[t] = "purging" /\ at'[t] = "purgeGet" /\ pc'[t] # "idle" /\ left'[t] = left[t] /\ left[t] > 0
    \/ at[t] = "purgeGet" /\ at'[t] = "purging" /\ pc'[t] = "idle" /\ left'[t] = left[t] - 1

MethodMoves(t) ==
    /\ pc[t] = "idle" /\ pc'[t] # "wait"
    /\ Enters(t) \/ Keeps(t) \/ Leaves(t) \/ Purges(t)
    /\ at[t] # "out" /\ at'[t] # "out" => self'[t] = self[t]
    /\ length' = length /\ closed' = closed /\ aborted' = aborted
    /\ at' \in [Thread -> {"out", "counting", "putting", "purgeCount", "purging", "purgeGet"}]
    /\ self' \in [Thread -> Item \cup {NULL}]
    /\ left' \in [Thread -> Int]
    /\ \A u \in Thread \ {t} :
            /\ at'[u] = at[u] /\ pc'[u] = pc[u] /\ op'[u] = op[u]
            /\ len'[u] = len[u] /\ left'[u] = left[u] /\ self'[u] = self[u]
    /\ pc'[t] # "idle" => <<at'[t], op'[t]>> \in
        {<<"counting", "length">>, <<"putting", "put">>, <<"purgeCount", "length">>, <<"purgeGet", "get">>}

Rests == UNCHANGED <<length, closed, aborted, pc, op, len, at, self, left>>

LEMMA CatcherMoves ==
    ASSUME IInv, CLink, CatcherNext
    PROVE  Rests \/ \E t \in Thread : QueueMoves(t) \/ MethodMoves(t)
<1> USE DEF IInv
<1>0. /\ pc \in [Thread -> Place] /\ op \in [Thread -> Operation]
      /\ len \in [Thread -> 0 .. Capacity] /\ at \in [Thread -> {"out", "counting", "putting", "purgeCount", "purging", "purgeGet"}]
      /\ self \in [Thread -> Item \cup {NULL}] /\ left \in [Thread -> Int]
      /\ \A t \in Thread : CallFits(t)
  BY DEF TypeOK, CLink
<1>1. ASSUME NEW o \in Item, Alloc(o) PROVE Rests
  BY <1>1 DEF Alloc, Rests, vars, ring, results
<1>2. ASSUME NEW t \in Thread, NEW o \in Item, DeallocSmall(t, o) \/ MessageCaught(t, o) PROVE Rests
  BY <1>2 DEF DeallocSmall, MessageCaught, Rests, vars, ring, results
<1>3. ASSUME NEW t \in Thread, NEW o \in Item, DeallocCatch(t, o) PROVE MethodMoves(t)
  BY <1>0, <1>3 DEF DeallocCatch, Go, Call, ring, MethodMoves, Enters
<1>4. ASSUME NEW t \in Thread, PurgeStart(t) PROVE MethodMoves(t)
  BY <1>0, <1>4 DEF PurgeStart, Go, Call, ring, MethodMoves, Enters
<1>5. ASSUME NEW t \in Thread, DeallocKeep(t) PROVE MethodMoves(t)
  BY <1>0, <1>5 DEF DeallocKeep, Go, Call, ring, MethodMoves, Keeps
<1>6. ASSUME NEW t \in Thread, DeallocForget(t) \/ DeallocReturn(t) \/ PurgeReturn(t) PROVE MethodMoves(t)
  BY <1>0, <1>6 DEF DeallocForget, DeallocReturn, PurgeReturn, Go, vars, ring, results, MethodMoves, Leaves
<1>7. ASSUME NEW t \in Thread, PurgeCount(t) PROVE MethodMoves(t)
  BY <1>0, <1>7 DEF PurgeCount, Go, vars, ring, results, MethodMoves, Purges
<1>8. ASSUME NEW t \in Thread, PurgeNext(t) PROVE MethodMoves(t)
  BY <1>0, <1>8 DEF PurgeNext, Go, Call, ring, MethodMoves, Purges
<1>9. ASSUME NEW t \in Thread, PurgeFree(t) PROVE MethodMoves(t)
  BY <1>0, <1>9 DEF PurgeFree, Go, vars, ring, results, MethodMoves, Purges
<1> QED
  BY <1>1, <1>2, <1>3, <1>4, <1>5, <1>6, <1>7, <1>8, <1>9 DEF CatcherNext, Work, QueueMoves

LEMMA LinkStep == IInv /\ CLink /\ [CatcherNext]_catcherVars => CLink'
<1> SUFFICES ASSUME IInv, CLink, [CatcherNext]_catcherVars PROVE CLink'
  OBVIOUS
<1>1. ASSUME UNCHANGED catcherVars \/ Rests PROVE CLink'
  BY <1>1 DEF catcherVars, vars, catcher, Rests, CLink, CallFits
<1>2. ASSUME NEW t \in Thread, QueueMoves(t) PROVE CLink'
  <2>1. /\ op' = op /\ closed' = FALSE /\ aborted' = FALSE /\ pc[t] # "idle"
        /\ \A u \in Thread : pc'[u] # "idle" => pc[u] # "idle"
    BY <1>2, QueueStep DEF QueueMoves, Passes, Sleeps, Stored, Took, Measured, Returns
  <2>2. UNCHANGED catcher
    BY <1>2 DEF QueueMoves
  <2> QED  BY <2>1, <2>2 DEF catcher, CLink, CallFits
<1>3. ASSUME NEW t \in Thread, MethodMoves(t) PROVE CLink'
  <2>1. \A u \in Thread \ {t} : CallFits(u)'
    BY <1>3 DEF MethodMoves, CLink, CallFits
  <2>2. CallFits(t)'
    BY <1>3 DEF MethodMoves, Enters, Keeps, Leaves, Purges, CLink, CallFits
  <2> QED  BY <1>3, <2>1, <2>2 DEF MethodMoves, CLink
<1> QED  BY <1>1, <1>2, <1>3, CatcherMoves

\* Counting the threads in flight: fewer threads and no more items leave room,
\* and so does a thread that left the flight with its item.
LEMMA RoomKept ==
    ASSUME NEW S, NEW R, S \subseteq Thread, R \subseteq S, NEW n \in Nat, NEW m \in Nat,
           n + Cardinality(S) <= StealLimit - 1 + Cardinality(Thread),
           m <= n \/ \E t \in S \ R : m = n + 1
    PROVE  m + Cardinality(R) <= StealLimit - 1 + Cardinality(Thread)
<1> DEFINE total == Cardinality(Thread)
<1>1. /\ IsFiniteSet(S) /\ Cardinality(S) \in Nat /\ Cardinality(R) \in Nat
      /\ Cardinality(R) <= Cardinality(S) /\ total \in Nat /\ StealLimit \in Nat
  BY ThreadsCounted, FS_Subset
<1>2. CASE m <= n
  BY <1>1, <1>2
<1>3. ASSUME NEW t \in S \ R, m = n + 1 PROVE m + Cardinality(R) <= StealLimit - 1 + total
  <2>1. Cardinality(S \ {t}) = Cardinality(S) - 1 /\ IsFiniteSet(S \ {t})
    BY <1>1, FS_RemoveElement
  <2>2. R \subseteq S \ {t}
    BY <1>3
  <2>3. Cardinality(R) <= Cardinality(S \ {t})
    BY <2>1, <2>2, FS_Subset
  <2> QED  BY <1>1, <1>3, <2>1, <2>3
<1> QED  BY <1>2, <1>3

LEMMA RoomStep == IInv /\ CLink /\ RoomForAll /\ [CatcherNext]_catcherVars => RoomForAll'
<1> SUFFICES ASSUME IInv, CLink, RoomForAll, [CatcherNext]_catcherVars PROVE RoomForAll'
  OBVIOUS
<1>0. /\ IInv' /\ CLink'
      /\ length \in Nat /\ length' \in Nat
      /\ len \in [Thread -> 0 .. Capacity]
      /\ InFlight \subseteq Thread /\ InFlight' \subseteq Thread
      /\ length + Cardinality(InFlight) <= StealLimit - 1 + Cardinality(Thread)
  <2>1. IInv'
    BY CatcherUsesQueue, NextIInv
  <2> QED  BY <2>1, LinkStep DEF IInv, TypeOK, InFlight, RoomForAll
<1> SUFFICES length' + Cardinality(InFlight') <= StealLimit - 1 + Cardinality(Thread)
  BY DEF RoomForAll
<1>1. ASSUME UNCHANGED catcherVars \/ Rests PROVE length' = length /\ InFlight' = InFlight
  BY <1>1 DEF catcherVars, vars, ring, results, catcher, Rests, InFlight, Bound
<1>2. ASSUME NEW t \in Thread, MethodMoves(t) PROVE length' = length /\ InFlight' \subseteq InFlight
  <2>1. \A u \in Thread : Bound(u)' => Bound(u)
    BY <1>2 DEF MethodMoves, Enters, Keeps, Leaves, Purges, Bound
  <2> QED  BY <1>2, <2>1 DEF InFlight, MethodMoves
<1>3. ASSUME NEW t \in Thread, QueueMoves(t), Passes(t) \/ Sleeps(t) \/ Took(t)
      PROVE  length' <= length /\ InFlight' \subseteq InFlight
  <2>1. \A u \in Thread : Bound(u)' => Bound(u)
    <3>1. ASSUME Passes(t) \/ Sleeps(t) PROVE \A u \in Thread : Bound(u)' => Bound(u)
      BY <1>3, <3>1 DEF QueueMoves, Passes, Sleeps, catcher, Bound
    <3>2. ASSUME Took(t) PROVE \A u \in Thread : Bound(u)' => Bound(u)
      <4>1. at[t] = "purgeGet"
        BY <1>3, <3>2, QueueStep DEF QueueMoves, Took, CLink, CallFits
      <4> QED  BY <1>3, <3>2, <4>1 DEF QueueMoves, Took, Returns, catcher, Bound
    <3> QED  BY <1>3, <3>1, <3>2
  <2>2. length' <= length
    BY <1>0, <1>3 DEF Passes, Sleeps, Took
  <2> QED  BY <2>1, <2>2 DEF InFlight
<1>4. ASSUME NEW t \in Thread, QueueMoves(t), Stored(t)
      PROVE  length' = length + 1 /\ InFlight' \subseteq InFlight /\ t \in InFlight \ InFlight'
  <2>1. at[t] = "putting" /\ pc[t] # "idle" /\ pc'[t] = "idle"
    BY <1>4, QueueStep DEF QueueMoves, Stored, Returns, CLink, CallFits
  <2>2. \A u \in Thread : Bound(u)' => Bound(u) /\ u # t
    BY <1>4, <2>1 DEF QueueMoves, Stored, Returns, catcher, Bound
  <2> QED  BY <1>4, <2>1, <2>2 DEF InFlight, Stored, Bound
<1>5. ASSUME NEW t \in Thread, QueueMoves(t), Measured(t), length >= StealLimit
      PROVE  length' = length /\ InFlight' \subseteq InFlight
  <2>1. /\ at[t] # "putting" /\ len'[t] = length
        /\ \A u \in Thread \ {t} : len'[u] = len[u]
    BY <1>0, <1>5, QueueStep DEF QueueMoves, Measured, CLink, CallFits
  <2>2. \A u \in Thread : Bound(u)' => Bound(u)
    BY <1>0, <1>5, <2>1 DEF QueueMoves, Measured, Returns, catcher, Bound
  <2> QED  BY <1>5, <2>2 DEF InFlight, Measured
<1>6. ASSUME NEW t \in Thread, QueueMoves(t), Measured(t), ~(length >= StealLimit)
      PROVE  length' + Cardinality(InFlight') <= StealLimit - 1 + Cardinality(Thread)
  <2>1. length' = length /\ length <= StealLimit - 1
    BY <1>0, <1>6 DEF Measured
  <2>2. Cardinality(InFlight') \in Nat /\ Cardinality(InFlight') <= Cardinality(Thread) /\ Cardinality(Thread) \in Nat
    BY <1>0, ThreadsCounted
  <2> QED  BY <1>0, <2>1, <2>2
<1>7. ASSUME InFlight' \subseteq InFlight,
             length' <= length \/ \E t \in InFlight \ InFlight' : length' = length + 1
      PROVE  length' + Cardinality(InFlight') <= StealLimit - 1 + Cardinality(Thread)
  BY <1>0, <1>7, RoomKept
<1>8. ASSUME NEW t \in Thread, QueueMoves(t)
      PROVE  length' + Cardinality(InFlight') <= StealLimit - 1 + Cardinality(Thread)
  <2>1. Passes(t) \/ Sleeps(t) \/ Stored(t) \/ Took(t) \/ Measured(t)
    BY <1>8, QueueStep DEF QueueMoves
  <2> QED  BY <1>0, <1>3, <1>4, <1>5, <1>6, <1>7, <1>8, <2>1
<1> QED
  <2>1. \/ UNCHANGED catcherVars \/ Rests
        \/ \E t \in Thread : QueueMoves(t) \/ MethodMoves(t)
    BY CatcherMoves
  <2> QED  BY <1>0, <1>1, <1>2, <1>7, <1>8, <2>1

LEMMA PurgeStep ==
    IInv /\ CLink /\ PurgeFinds /\ [CatcherNext]_catcherVars => PurgeFinds'
<1> SUFFICES ASSUME IInv, CLink, PurgeFinds, [CatcherNext]_catcherVars,
                    \A s, u \in Purger : s = u, NEW u \in Thread
             PROVE  /\ at'[u] = "purgeCount" /\ pc'[u] = "idle" => len'[u] <= length'
                    /\ at'[u] = "purging" => left'[u] <= length'
                    /\ at'[u] = "purgeGet" => left'[u] >= 1
                    /\ at'[u] = "purgeGet" /\ pc'[u] # "idle" => left'[u] <= length'
                    /\ at'[u] = "purgeGet" /\ pc'[u] = "idle" => left'[u] - 1 <= length'
  BY DEF PurgeFinds
<1>0. /\ length \in Nat /\ len \in [Thread -> 0 .. Capacity] /\ left \in [Thread -> Int]
      /\ CallFits(u)
      /\ at[u] = "purgeCount" /\ pc[u] = "idle" => len[u] <= length
      /\ at[u] = "purging" => left[u] <= length
      /\ at[u] = "purgeGet" => left[u] >= 1
      /\ at[u] = "purgeGet" /\ pc[u] # "idle" => left[u] <= length
      /\ at[u] = "purgeGet" /\ pc[u] = "idle" => left[u] - 1 <= length
  BY DEF IInv, TypeOK, CLink, PurgeFinds
<1>1. CASE UNCHANGED catcherVars \/ Rests
  BY <1>0, <1>1 DEF catcherVars, vars, ring, results, catcher, Rests
<1>2. ASSUME NEW t \in Thread, MethodMoves(t), t # u
      PROVE  UNCHANGED length /\ at'[u] = at[u] /\ pc'[u] = pc[u] /\ len'[u] = len[u] /\ left'[u] = left[u]
  BY <1>2 DEF MethodMoves
<1>3. CASE MethodMoves(u)
  <2>1. length' = length
    BY <1>3 DEF MethodMoves
  <2>2. CASE Enters(u) \/ Keeps(u) \/ Leaves(u)
    BY <1>3, <2>2 DEF Enters, Keeps, Leaves
  <2>3. CASE Purges(u)
    <3>1. pc[u] = "idle" /\ len[u] \in Nat /\ left[u] \in Int
      BY <1>0, <1>3 DEF MethodMoves
    <3> QED  BY <1>0, <2>1, <2>3, <3>1 DEF Purges
  <2> QED  BY <1>3, <2>2, <2>3 DEF MethodMoves
<1>4. ASSUME NEW t \in Thread, QueueMoves(t)
      PROVE  /\ at'[u] = "purgeCount" /\ pc'[u] = "idle" => len'[u] <= length'
             /\ at'[u] = "purging" => left'[u] <= length'
             /\ at'[u] = "purgeGet" => left'[u] >= 1
             /\ at'[u] = "purgeGet" /\ pc'[u] # "idle" => left'[u] <= length'
             /\ at'[u] = "purgeGet" /\ pc'[u] = "idle" => left'[u] - 1 <= length'
  <2>0. /\ at' = at /\ left' = left /\ pc[t] # "idle"
        /\ Passes(t) \/ Sleeps(t) \/ Stored(t) \/ Took(t) \/ Measured(t)
    BY <1>4, QueueStep DEF QueueMoves, catcher
  <2>1. CASE Passes(t) \/ Sleeps(t)
    BY <1>0, <2>0, <2>1 DEF Passes, Sleeps
  <2>2. CASE Stored(t)
    <3>1. at[t] = "putting"
      BY <2>0, <2>2 DEF Stored, CLink, CallFits
    <3> QED  BY <1>0, <2>0, <2>2, <3>1 DEF Stored, Returns
  <2>3. CASE Took(t)
    <3>1. at[t] = "purgeGet" /\ t \in Purger
      BY <2>0, <2>3 DEF Took, CLink, CallFits
    <3>2. CASE u = t
      BY <1>0, <2>0, <2>3, <3>1, <3>2 DEF Took, Returns
    <3>3. CASE u # t
      <4>1. at[u] \notin {"purgeCount", "purging", "purgeGet"}
        BY <1>0, <3>1, <3>3 DEF CallFits
      <4> QED  BY <2>0, <4>1
    <3> QED  BY <3>2, <3>3
  <2>4. CASE Measured(t)
    <3>1. at[t] \in {"counting", "purgeCount"}
      BY <2>0, <2>4 DEF Measured, CLink, CallFits
    <3>2. len'[t] = length /\ (u # t => len'[u] = len[u]) /\ length' = length
      BY <1>0, <2>4 DEF Measured
    <3> QED  BY <1>0, <2>0, <2>4, <3>1, <3>2 DEF Measured, Returns
  <2> QED  BY <2>0, <2>1, <2>2, <2>3, <2>4
<1> QED
  <2>1. CASE CatcherNext
    BY <1>0, <1>1, <1>2, <1>3, <1>4, <2>1, CatcherMoves
  <2> QED  BY <1>1, <2>1

\* Who falls asleep inside the catcher, and on what.
LEMMA FallsAsleep ==
    ASSUME IInv, CLink, [CatcherNext]_catcherVars, NEW u \in Thread, pc'[u] = "wait"
    PROVE  \/ pc[u] = "wait" /\ op'[u] = op[u]
           \/ pc[u] # "idle" /\ op[u] = "put" /\ op'[u] = "put" /\ length = Capacity
           \/ pc[u] # "idle" /\ op[u] = "get" /\ op'[u] = "get" /\ length = 0
<1>1. CASE UNCHANGED catcherVars \/ Rests
  BY <1>1 DEF catcherVars, vars, Rests
<1>2. ASSUME NEW t \in Thread, MethodMoves(t) PROVE pc[u] = "wait" /\ op'[u] = op[u]
  BY <1>2 DEF MethodMoves
<1>3. ASSUME NEW t \in Thread, QueueMoves(t)
      PROVE  \/ pc[u] = "wait" /\ op'[u] = op[u]
             \/ pc[u] # "idle" /\ op[u] = "put" /\ op'[u] = "put" /\ length = Capacity
             \/ pc[u] # "idle" /\ op[u] = "get" /\ op'[u] = "get" /\ length = 0
  <2>1. /\ op' = op /\ pc[t] # "idle"
        /\ Passes(t) \/ Sleeps(t) \/ Stored(t) \/ Took(t) \/ Measured(t)
    BY <1>3, QueueStep DEF QueueMoves
  <2>2. CASE Sleeps(t)
    BY <2>1, <2>2 DEF Sleeps
  <2>3. CASE ~Sleeps(t)
    BY <2>1, <2>3 DEF Passes, Stored, Took, Measured, Returns
  <2> QED  BY <2>2, <2>3
<1> QED  BY <1>1, <1>2, <1>3, CatcherMoves

LEMMA NeverSleepsStep ==
    CInv /\ [CatcherNext]_catcherVars => DeallocNeverSleeps' /\ PurgeNeverSleeps'
<1> SUFFICES ASSUME CInv, [CatcherNext]_catcherVars PROVE DeallocNeverSleeps' /\ PurgeNeverSleeps'
  OBVIOUS
<1> USE DEF CInv
<1>1. ASSUME Capacity >= StealLimit - 1 + Cardinality(Thread), NEW u \in Thread
      PROVE  ~(op'[u] = "put" /\ pc'[u] = "wait")
  <2> SUFFICES ASSUME op'[u] = "put", pc'[u] = "wait" PROVE FALSE
    OBVIOUS
  <2>1. pc[u] # "idle" /\ op[u] = "put" /\ length = Capacity
    <3>1. ~(pc[u] = "wait" /\ op[u] = "put")
      BY <1>1 DEF DeallocNeverSleeps
    <3> QED  BY <3>1, FallsAsleep
  <2>2. u \in InFlight
    BY <2>1 DEF InFlight, Bound, CLink, CallFits
  <2>3. InFlight \subseteq Thread /\ IsFiniteSet(InFlight) /\ Cardinality(InFlight) \in Nat
    BY ThreadsCounted DEF InFlight
  <2>4. Cardinality(InFlight) # 0
    BY <2>2, <2>3, FS_EmptySet
  <2>5. /\ Cardinality(Thread) \in Nat /\ Capacity \in Nat /\ StealLimit \in Nat
        /\ Capacity + Cardinality(InFlight) <= StealLimit - 1 + Cardinality(Thread)
    <3>1. length + Cardinality(InFlight) <= StealLimit - 1 + Cardinality(Thread)
      BY Zenon DEF RoomForAll
    <3>2. Capacity + Cardinality(InFlight) <= StealLimit - 1 + Cardinality(Thread)
      BY <2>1, <3>1, Zenon
    <3>3. Capacity \in Nat /\ StealLimit \in Nat
      BY CapacityAssumption
    <3> QED  BY <3>2, <3>3, ThreadsCounted, Zenon
  <2> QED  BY <1>1, <2>3, <2>4, <2>5
<1>2. ASSUME \A s, u \in Purger : s = u, NEW u \in Thread
      PROVE  ~(op'[u] = "get" /\ pc'[u] = "wait")
  <2> SUFFICES ASSUME op'[u] = "get", pc'[u] = "wait" PROVE FALSE
    OBVIOUS
  <2>1. pc[u] # "idle" /\ op[u] = "get" /\ length = 0
    <3>1. ~(pc[u] = "wait" /\ op[u] = "get")
      BY <1>2 DEF PurgeNeverSleeps
    <3> QED  BY <3>1, FallsAsleep
  <2>2. at[u] = "purgeGet" /\ left[u] \in Int
    BY <2>1 DEF CLink, CallFits
  <2>3. left[u] >= 1 /\ left[u] <= length
    BY <1>2, <2>1, <2>2 DEF PurgeFinds
  <2> QED  BY <2>1, <2>2, <2>3
<1> QED  BY <1>1, <1>2 DEF DeallocNeverSleeps, PurgeNeverSleeps

-----------------------------------------------------------------------------
LEMMA CatcherInitInv == CatcherInit => CInv
<1> SUFFICES ASSUME CatcherInit PROVE CInv
  OBVIOUS
<1>1. IInv /\ CLink
  BY CInitInv
<1>2. DeallocNeverSleeps /\ PurgeNeverSleeps /\ PurgeFinds
  BY DEF CatcherInit, Init, DeallocNeverSleeps, PurgeNeverSleeps, PurgeFinds
<1>3. InFlight = {}
  BY DEF CatcherInit, Init, InFlight, Bound
<1>4. RoomForAll
  <2>1. Cardinality(InFlight) = 0 /\ length = 0 /\ Cardinality(Thread) \in Nat /\ StealLimit \in Nat \ {0}
    BY <1>3, FS_EmptySet, ThreadsCounted DEF CatcherInit, Init
  <2> QED  BY <2>1 DEF RoomForAll
<1> QED  BY <1>1, <1>2, <1>4 DEF CInv

\* The invariant of the catcher is inductive.
THEOREM CatcherInvariant == CatcherSpec => []CInv
<1>1. CatcherInit => CInv
  BY CatcherInitInv
<1>2. CInv /\ [CatcherNext]_catcherVars => CInv'
  BY CatcherUsesQueue, NextIInv, LinkStep, RoomStep, PurgeStep, NeverSleepsStep DEF CInv
<1> QED  BY <1>1, <1>2, PTL DEF CatcherSpec

\* For every number of threads, every limit and every capacity that is larger
\* by the threads less one: whatever lengths the concurrent deallocs read, the
\* put of myDealloc finds room (NSObject+Swizzling.m, the check of
\* ds_queue_length against MAX_STEAL_MEM_NUM).
THEOREM DeallocKeepsGoing == CatcherSpec => []DeallocNeverSleeps
BY CatcherInvariant, PTL DEF CInv

\* For every number of deallocating threads, a single deallocAllObjs never
\* waits for an item: only puts can change the length it read.
THEOREM PurgeKeepsGoing == CatcherSpec => []PurgeNeverSleeps
BY CatcherInvariant, PTL DEF CInv

\* Every execution of the catcher is one of the queue, so that all that is
\* proved of DSQueue, the refinement of ClosableFifo included, holds in it.
THEOREM CatcherIsClient == CatcherSpec => Spec /\ RefinesFifo
<1>1. CInv /\ [CatcherNext]_catcherVars => [Next]_vars
  BY CatcherUsesQueue DEF CInv
<1>2. CatcherInit => Init
  BY DEF CatcherInit
<1>3. CatcherSpec => Spec
  BY <1>1, <1>2, CatcherInvariant, PTL DEF CatcherSpec, Spec
<1> QED  BY <1>3, QueueIsFifo


\* No thread of the catcher waits inside the queue for something that may not come.
THEOREM CatcherKeepsGoing == CatcherSpec => []NeverSleeps
<1>1. CInv => NeverSleeps
  BY DEF CInv, NeverSleeps
<1> QED BY <1>1, CatcherInvariant, PTL

-----------------------------------------------------------------------------
(* Where the memory is that the catcher keeps. *)

\* A thread has a caught block in its hands from the moment it overwrote the
\* object until the put stored it, and from the moment the get returned it
\* until it is freed.
Holds(t) ==
    \/ at[t] = "counting"
    \/ at[t] = "putting" /\ pc[t] # "idle"
    \/ at[t] = "purgeGet" /\ pc[t] = "idle"

Held(t) == IF at[t] = "purgeGet" THEN got[t] ELSE self[t]

\* Every block the catcher can still reach is caught, and it is in one slot of
\* the ring or in the hands of one thread.
KeptApart ==
    /\ mem \in [Item -> {"live", "caught", "free"}]
    /\ \A t \in Thread : at[t] = "putting" /\ pc[t] # "idle" => arg[t] = self[t]
    /\ \A t \in Thread : Holds(t) =>
            /\ Held(t) \in Item
            /\ mem[Held(t)] = "caught"
            /\ \A i \in 1 .. length : Contents[i] # Held(t)
    /\ \A t, u \in Thread : Holds(t) /\ Holds(u) /\ Held(t) = Held(u) => t = u
    /\ \A i \in 1 .. length : mem[Contents[i]] = "caught"
    /\ \A i, j \in 1 .. length : Contents[i] = Contents[j] => i = j

\* A step that hands no block to anybody.
LEMMA ApartStays ==
    ASSUME KeptApart, mem' = mem, ring' = ring,
           \A u \in Thread : Holds(u)' => Holds(u) /\ Held(u)' = Held(u),
           \A u \in Thread : at'[u] = "putting" /\ pc'[u] # "idle" => arg'[u] = self'[u]
    PROVE  KeptApart'
<1>1. length' = length /\ Contents' = Contents
  BY DEF ring, Contents
<1> QED  BY <1>1 DEF KeptApart

LEMMA ApartInQueue ==
    ASSUME IInv, IInv', CLink, KeptApart, ~aborted, NEW t \in Thread, QueueMoves(t)
    PROVE  KeptApart'
<1>0. /\ pc \in [Thread -> Place] /\ got \in [Thread -> Item \cup {NULL}]
      /\ arg \in [Thread -> Item \cup {NULL}] /\ length \in 0 .. Capacity
      /\ UNCHANGED <<mem, at, self, left>> /\ CallFits(t)
  BY DEF IInv, TypeOK, QueueMoves, catcher, CLink
<1>1. CASE Lock(t) \/ PutChecksOpen(t) \/ PutWaits(t) \/ GetWaits(t) \/ SpuriousWakeup(t)
  <2>1. /\ ring' = ring /\ got' = got /\ arg' = arg
        /\ pc[t] # "idle" /\ pc'[t] # "idle"
        /\ \A u \in Thread : u # t => pc'[u] = pc[u]
    BY <1>0, <1>1 DEF Lock, PutChecksOpen, PutWaits, GetWaits, SpuriousWakeup, In, results
  <2>2. \A u \in Thread : pc'[u] = "idle" <=> pc[u] = "idle"
    BY <2>1
  <2>3. \A u \in Thread : Holds(u)' => Holds(u) /\ Held(u)' = Held(u)
    BY <1>0, <2>1, <2>2 DEF Holds, Held
  <2>4. \A u \in Thread : at'[u] = "putting" /\ pc'[u] # "idle" => arg'[u] = self'[u]
    BY <1>0, <2>1, <2>2 DEF KeptApart
  <2> QED  BY <1>0, <2>1, <2>3, <2>4, ApartStays
<1>2. CASE ReadLength(t)
  <2>1. /\ ring' = ring /\ got' = got /\ arg' = arg
        /\ at[t] \in {"counting", "purgeCount"}
        /\ \A u \in Thread : pc'[u] = IF u = t THEN "idle" ELSE pc[u]
    BY <1>0, <1>2 DEF ReadLength, Returned, In, CallFits
  <2>2. \A u \in Thread : Holds(u)' => Holds(u) /\ Held(u)' = Held(u)
    BY <1>0, <2>1 DEF Holds, Held
  <2>3. \A u \in Thread : at'[u] = "putting" /\ pc'[u] # "idle" => arg'[u] = self'[u]
    BY <1>0, <2>1 DEF KeptApart
  <2> QED  BY <1>0, <2>1, <2>2, <2>3, ApartStays
<1>3. ASSUME pc' = Broadcast(Returned(t))
      PROVE  \A u \in Thread : pc'[u] = "idle" <=> (pc[u] = "idle" \/ u = t)
  <2>1. \A u \in Thread : Returned(t)[u] = IF u = t THEN "idle" ELSE pc[u]
    BY <1>0 DEF Returned
  <2> QED  BY <1>3, <2>1 DEF Broadcast
<1>4. CASE PutStores(t)
  <2>1. /\ at[t] = "putting" /\ pc[t] # "idle" /\ Holds(t) /\ Held(t) = self[t] /\ arg[t] = self[t]
        /\ got' = got /\ length' = length + 1
        /\ \A u \in Thread : u # t => arg'[u] = arg[u]
        /\ \A u \in Thread : pc'[u] = "idle" <=> (pc[u] = "idle" \/ u = t)
    BY <1>0, <1>3, <1>4 DEF PutStores, In, CallFits, Holds, Held, KeptApart, results
  <2>2. /\ Contents \in Seq(Item) /\ Len(Contents) = length
        /\ Contents' = Append(Contents, self[t])
    BY <1>4, <2>1, StoreAppends, ContentsIsSeq DEF IInv, TypeOK
  <2>3. /\ \A i \in 1 .. length : Contents'[i] = Contents[i]
        /\ Contents'[length + 1] = self[t]
        /\ \A i \in 1 .. length + 1 : i \in 1 .. length \/ i = length + 1
    BY <1>0, <2>1, <2>2, AppendProperties DEF KeptApart
  <2>4. \A u \in Thread : Holds(u)' => u # t /\ Holds(u) /\ Held(u)' = Held(u)
    BY <1>0, <2>1 DEF Holds, Held
  <2>5. \A i \in 1 .. length : Contents[i] # self[t]
    BY <2>1 DEF KeptApart
  <2>6. /\ \A u \in Thread : at'[u] = "putting" /\ pc'[u] # "idle" => arg'[u] = self'[u]
        /\ \A u, v \in Thread : Holds(u)' /\ Holds(v)' /\ Held(u)' = Held(v)' => u = v
    BY <1>0, <2>1, <2>4 DEF KeptApart
  <2>7. \A u \in Thread : Holds(u)' =>
            /\ Held(u)' \in Item /\ mem'[Held(u)'] = "caught"
            /\ \A i \in 1 .. length + 1 : Contents'[i] # Held(u)'
    BY <1>0, <2>1, <2>3, <2>4 DEF KeptApart
  <2>8. /\ \A i \in 1 .. length + 1 : mem'[Contents'[i]] = "caught"
        /\ \A i, j \in 1 .. length + 1 : Contents'[i] = Contents'[j] => i = j
    BY <1>0, <2>1, <2>3, <2>5 DEF KeptApart
  <2> QED  BY <1>0, <2>1, <2>6, <2>7, <2>8 DEF KeptApart
<1>5. CASE GetTakes(t)
  <2>1. /\ at[t] = "purgeGet" /\ pc[t] # "idle" /\ ~Holds(t)
        /\ arg' = arg /\ length' = length - 1 /\ length \in 1 .. Capacity
        /\ \A u \in Thread : got'[u] = IF u = t THEN buf[pos] ELSE got[u]
        /\ \A u \in Thread : pc'[u] = "idle" <=> (pc[u] = "idle" \/ u = t)
    BY <1>0, <1>3, <1>5 DEF GetTakes, In, CallFits, Holds
  <2>2. /\ Contents \in Seq(Item) /\ Len(Contents) = length
        /\ Contents # <<>> /\ buf[pos] = Head(Contents) /\ Contents' = Tail(Contents)
    BY <1>5, <2>1, TakeRemovesHead, ContentsIsSeq DEF IInv, TypeOK
  <2>3. /\ buf[pos] = Contents[1] /\ Contents[1] \in Item
        /\ \A i \in 1 .. length - 1 : i + 1 \in 1 .. length /\ Contents'[i] = Contents[i + 1] /\ i + 1 # 1
    BY <2>1, <2>2, HeadTailProperties
  <2>4. /\ Held(t)' = Contents[1]
        /\ \A u \in Thread : u # t /\ Holds(u)' => Holds(u) /\ Held(u)' = Held(u)
    BY <1>0, <2>1, <2>3 DEF Holds, Held
  <2>5. 1 \in 1 .. length
    BY <2>1
  <2>6. \A u \in Thread : Holds(u)' =>
            /\ Held(u)' \in Item /\ mem'[Held(u)'] = "caught"
            /\ \A i \in 1 .. length - 1 : Contents'[i] # Held(u)'
    BY <1>0, <2>3, <2>4, <2>5 DEF KeptApart
  <2>7. \A u, v \in Thread : Holds(u)' /\ Holds(v)' /\ Held(u)' = Held(v)' => u = v
    BY <2>4, <2>5 DEF KeptApart
  <2>8. /\ \A i \in 1 .. length - 1 : mem'[Contents'[i]] = "caught"
        /\ \A i, j \in 1 .. length - 1 : Contents'[i] = Contents'[j] => i = j
    <3>1. \A i \in 1 .. length - 1 : mem'[Contents'[i]] = "caught"
      BY <1>0, <2>3 DEF KeptApart
    <3>2. ASSUME NEW i \in 1 .. length - 1, NEW j \in 1 .. length - 1, Contents'[i] = Contents'[j]
          PROVE  i = j
      <4>1. i + 1 = j + 1
        BY <2>3, <3>2 DEF KeptApart
      <4> QED  BY <4>1
    <3> QED  BY <3>1, <3>2
  <2>9. \A u \in Thread : at'[u] = "putting" /\ pc'[u] # "idle" => arg'[u] = self'[u]
    BY <1>0, <2>1 DEF KeptApart
  <2> QED  BY <1>0, <2>1, <2>6, <2>7, <2>8, <2>9 DEF KeptApart
<1>6. ~PutFails(t) /\ ~GetReturnsNull(t) /\ ~CloseQueue(t)
  <2>1. aborted' = FALSE /\ ~GetReturnsNull(t) /\ ~CloseQueue(t)
    BY <1>0, QueueStep DEF GetReturnsNull, CloseQueue, In, QueueMoves, CallFits, CLink
  <2> QED  BY <2>1 DEF PutFails
<1> QED  BY <1>1, <1>2, <1>4, <1>5, <1>6 DEF QueueMoves, Step

LEMMA ApartOutside ==
    ASSUME IInv, CLink, KeptApart, NEW t \in Thread,
           \/ \E o \in Item :
                \/ Alloc(o) \/ DeallocSmall(t, o) \/ DeallocCatch(t, o) \/ MessageCaught(t, o)
           \/ DeallocKeep(t) \/ DeallocForget(t) \/ DeallocReturn(t)
           \/ PurgeStart(t) \/ PurgeCount(t) \/ PurgeNext(t) \/ PurgeFree(t) \/ PurgeReturn(t)
    PROVE  KeptApart'
<1>0. /\ pc \in [Thread -> Place] /\ got \in [Thread -> Item \cup {NULL}]
      /\ arg \in [Thread -> Item \cup {NULL}] /\ length \in 0 .. Capacity
      /\ at \in [Thread -> {"out", "counting", "putting", "purgeCount", "purging", "purgeGet"}]
      /\ self \in [Thread -> Item \cup {NULL}] /\ CallFits(t)
  BY DEF IInv, TypeOK, CLink
<1>1. ASSUME ring' = ring PROVE length' = length /\ Contents' = Contents
  BY <1>1 DEF ring, Contents
<1>2. ASSUME NEW o \in Item, Alloc(o) \/ DeallocSmall(t, o) \/ MessageCaught(t, o)
      PROVE  KeptApart'
  <2>1. /\ UNCHANGED vars /\ at' = at /\ self' = self
        /\ mem' \in [Item -> {"live", "caught", "free"}]
        /\ \A b \in Item : mem[b] = "caught" => mem'[b] = "caught"
    BY <1>2 DEF Alloc, DeallocSmall, MessageCaught, KeptApart
  <2>2. \A u \in Thread : Holds(u)' = Holds(u) /\ Held(u)' = Held(u)
    BY <2>1 DEF vars, results, Holds, Held
  <2>3. \A i \in 1 .. length : Contents[i] \in Item
    BY <1>0, ContentsIsSeq DEF IInv, StoredAreItems
  <2>4. ring' = ring /\ pc' = pc /\ arg' = arg
    BY <2>1 DEF vars, ring
  <2> QED  BY <1>1, <2>1, <2>2, <2>3, <2>4 DEF KeptApart
<1>3. ASSUME NEW o \in Item, DeallocCatch(t, o) PROVE KeptApart'
  <2>1. /\ ring' = ring /\ at[t] = "out" /\ ~Holds(t)
        /\ at'[t] = "counting" /\ Holds(t)' /\ Held(t)' = o /\ mem[o] = "live"
        /\ mem' = [mem EXCEPT ![o] = "caught"]
        /\ \A u \in Thread : u # t =>
                /\ Holds(u)' = Holds(u) /\ Held(u)' = Held(u)
                /\ at'[u] = at[u] /\ pc'[u] = pc[u] /\ arg'[u] = arg[u] /\ self'[u] = self[u]
    BY <1>0, <1>3 DEF DeallocCatch, Go, Call, Holds, Held
  <2>2. /\ \A i \in 1 .. length : Contents[i] # o
        /\ \A u \in Thread : Holds(u) => Held(u) # o
    BY <2>1 DEF KeptApart
  <2>3. \A i \in 1 .. length : Contents[i] \in Item
    BY <1>0, ContentsIsSeq DEF IInv, StoredAreItems
  <2>4. /\ mem' \in [Item -> {"live", "caught", "free"}] /\ mem'[o] = "caught"
        /\ \A b \in Item : mem[b] = "caught" => mem'[b] = "caught"
    BY <2>1 DEF KeptApart
  <2>5. \A u \in Thread : at'[u] = "putting" /\ pc'[u] # "idle" => arg'[u] = self'[u]
    BY <2>1 DEF KeptApart
  <2>6. \A u \in Thread : Holds(u)' =>
            /\ Held(u)' \in Item /\ mem'[Held(u)'] = "caught"
            /\ \A i \in 1 .. length : Contents[i] # Held(u)'
    BY <2>1, <2>2, <2>4 DEF KeptApart
  <2>7. \A u, v \in Thread : Holds(u)' /\ Holds(v)' /\ Held(u)' = Held(v)' => u = v
    BY <2>1, <2>2 DEF KeptApart
  <2>8. /\ \A i \in 1 .. length : mem'[Contents[i]] = "caught"
        /\ \A i, j \in 1 .. length : Contents[i] = Contents[j] => i = j
    BY <2>3, <2>4 DEF KeptApart
  <2> QED  BY <1>1, <2>1, <2>4, <2>5, <2>6, <2>7, <2>8 DEF KeptApart
<1>4. CASE DeallocKeep(t)
  <2>1. /\ mem' = mem /\ ring' = ring /\ self' = self
        /\ at[t] = "counting" /\ at'[t] = "putting" /\ arg'[t] = self[t] /\ Holds(t)
        /\ \A u \in Thread : u # t =>
                /\ at'[u] = at[u] /\ pc'[u] = pc[u] /\ arg'[u] = arg[u] /\ got'[u] = got[u]
    BY <1>0, <1>4 DEF DeallocKeep, Go, Call, Holds
  <2>2. \A u \in Thread : Holds(u)' => Holds(u) /\ Held(u)' = Held(u)
    BY <2>1 DEF Holds, Held
  <2>3. \A u \in Thread : at'[u] = "putting" /\ pc'[u] # "idle" => arg'[u] = self'[u]
    BY <2>1 DEF KeptApart
  <2> QED  BY <2>1, <2>2, <2>3, ApartStays
<1>5. CASE DeallocForget(t) \/ DeallocReturn(t) \/ PurgeCount(t) \/ PurgeReturn(t)
  <2>1. /\ mem' = mem /\ UNCHANGED vars
        /\ at'[t] \in {"out", "purging"}
        /\ \A u \in Thread : u # t => at'[u] = at[u] /\ self'[u] = self[u]
    BY <1>0, <1>5 DEF DeallocForget, DeallocReturn, PurgeCount, PurgeReturn, Go
  <2>2. ring' = ring /\ pc' = pc /\ arg' = arg /\ got' = got
    BY <2>1 DEF vars, ring, results
  <2>3. \A u \in Thread : Holds(u)' => Holds(u) /\ Held(u)' = Held(u)
    BY <2>1, <2>2 DEF Holds, Held
  <2>4. \A u \in Thread : at'[u] = "putting" /\ pc'[u] # "idle" => arg'[u] = self'[u]
    BY <2>1, <2>2 DEF KeptApart
  <2> QED  BY <2>1, <2>2, <2>3, <2>4, ApartStays
<1>6. CASE PurgeStart(t) \/ PurgeNext(t)
  <2>1. /\ mem' = mem /\ ring' = ring /\ self' = self
        /\ at'[t] \in {"purgeCount", "purgeGet"} /\ pc'[t] # "idle"
        /\ \A u \in Thread : u # t =>
                /\ at'[u] = at[u] /\ pc'[u] = pc[u] /\ arg'[u] = arg[u] /\ got'[u] = got[u]
    BY <1>0, <1>6 DEF PurgeStart, PurgeNext, Go, Call
  <2>2. \A u \in Thread : Holds(u)' => Holds(u) /\ Held(u)' = Held(u)
    BY <2>1 DEF Holds, Held
  <2>3. \A u \in Thread : at'[u] = "putting" /\ pc'[u] # "idle" => arg'[u] = self'[u]
    BY <2>1 DEF KeptApart
  <2> QED  BY <2>1, <2>2, <2>3, ApartStays
<1>7. CASE PurgeFree(t)
  <2>1. /\ UNCHANGED vars /\ self' = self /\ Holds(t) /\ Held(t) = got[t]
        /\ mem' = [mem EXCEPT ![got[t]] = "free"]
        /\ at'[t] = "purging" /\ ~Holds(t)'
        /\ \A u \in Thread : u # t => at'[u] = at[u]
    BY <1>0, <1>7 DEF PurgeFree, Go, Holds, Held
  <2>2. ring' = ring /\ pc' = pc /\ arg' = arg /\ got' = got
    BY <2>1 DEF vars, ring, results
  <2>3. \A u \in Thread : Holds(u)' => u # t /\ Holds(u) /\ Held(u)' = Held(u)
    BY <2>1, <2>2 DEF Holds, Held
  <2>4. /\ \A u \in Thread : u # t /\ Holds(u) => Held(u) # got[t]
        /\ \A i \in 1 .. length : Contents[i] # got[t]
        /\ got[t] \in Item
    BY <2>1 DEF KeptApart
  <2>5. /\ mem' \in [Item -> {"live", "caught", "free"}]
        /\ \A b \in Item : b # got[t] => mem'[b] = mem[b]
    BY <2>1 DEF KeptApart
  <2>6. \A i \in 1 .. length : Contents[i] \in Item
    BY <1>0, ContentsIsSeq DEF IInv, StoredAreItems
  <2>7. \A u \in Thread : at'[u] = "putting" /\ pc'[u] # "idle" => arg'[u] = self'[u]
    BY <2>1, <2>2 DEF KeptApart
  <2>8. \A u \in Thread : Holds(u)' =>
            /\ Held(u)' \in Item /\ mem'[Held(u)'] = "caught"
            /\ \A i \in 1 .. length : Contents[i] # Held(u)'
    BY <2>3, <2>4, <2>5 DEF KeptApart
  <2>9. \A u, v \in Thread : Holds(u)' /\ Holds(v)' /\ Held(u)' = Held(v)' => u = v
    BY <2>3 DEF KeptApart
  <2>10. /\ \A i \in 1 .. length : mem'[Contents[i]] = "caught"
         /\ \A i, j \in 1 .. length : Contents[i] = Contents[j] => i = j
    BY <2>4, <2>5, <2>6 DEF KeptApart
  <2> QED  BY <1>1, <2>2, <2>5, <2>7, <2>8, <2>9, <2>10 DEF KeptApart
<1> QED  BY <1>2, <1>3, <1>4, <1>5, <1>6, <1>7

LEMMA ApartStep ==
    IInv /\ IInv' /\ CLink /\ KeptApart /\ [CatcherNext]_catcherVars => KeptApart'
<1> SUFFICES ASSUME IInv, IInv', CLink, KeptApart, [CatcherNext]_catcherVars PROVE KeptApart'
  OBVIOUS
<1>1. CASE UNCHANGED catcherVars
  <2>1. /\ mem' = mem /\ ring' = ring /\ at' = at /\ pc' = pc /\ got' = got /\ self' = self /\ arg' = arg
    BY <1>1 DEF catcherVars, vars, catcher, results, ring
  <2> QED  BY <2>1, ApartStays DEF Holds, Held, KeptApart
<1>2. CASE CatcherNext
  <2>0. ~aborted
    BY <1>2 DEF CatcherNext, Running
  <2>1. ASSUME NEW t \in Thread, QueueMoves(t) PROVE KeptApart'
    BY <2>0, <2>1, ApartInQueue
  <2>2. ASSUME NEW o \in Item, Alloc(o) PROVE KeptApart'
    <3>1. CASE Thread = {}
      <4>1. length' = length /\ Contents' = Contents
        BY <2>2 DEF Alloc, vars, ring, Contents
      <4>2. \A i \in 1 .. length : Contents[i] \in Item
        BY ContentsIsSeq DEF IInv, TypeOK, StoredAreItems
      <4> QED  BY <2>2, <3>1, <4>1, <4>2 DEF Alloc, KeptApart
    <3>2. ASSUME NEW t \in Thread PROVE KeptApart'
      BY <2>2, <3>2, ApartOutside
    <3> QED  BY <3>1, <3>2
  <2>3. ASSUME NEW t \in Thread,
               \/ \E o \in Item : DeallocSmall(t, o) \/ DeallocCatch(t, o) \/ MessageCaught(t, o)
               \/ DeallocKeep(t) \/ DeallocForget(t) \/ DeallocReturn(t)
               \/ PurgeStart(t) \/ PurgeCount(t) \/ PurgeNext(t) \/ PurgeFree(t) \/ PurgeReturn(t)
        PROVE  KeptApart'
    BY <2>3, ApartOutside
  <2> QED  BY <1>2, <2>1, <2>2, <2>3 DEF CatcherNext, Work, QueueMoves
<1> QED  BY <1>1, <1>2

\* A function that takes no value twice has as many values as arguments.
LEMMA ImageSize ==
    ASSUME NEW S, IsFiniteSet(S), NEW f, \A x, y \in S : f[x] = f[y] => x = y
    PROVE  /\ IsFiniteSet({f[x] : x \in S})
           /\ Cardinality({f[x] : x \in S}) = Cardinality(S)
<1> DEFINE T == {f[x] : x \in S}
           g == [x \in S |-> f[x]]
<1>1. g \in Bijection(S, T)
  BY DEF Bijection, Injection, Surjection, IsInjective
<1>2. ExistsBijection(S, T)
  BY <1>1 DEF ExistsBijection
<1> QED  BY <1>2, FS_Bijection

LEMMA DisjointSize ==
    ASSUME NEW S, IsFiniteSet(S), NEW T, IsFiniteSet(T), S \cap T = {}
    PROVE  IsFiniteSet(S \cup T) /\ Cardinality(S \cup T) = Cardinality(S) + Cardinality(T)
<1>1. Cardinality(S) \in Nat /\ Cardinality(T) \in Nat
  BY FS_CardinalityType
<1>2. /\ IsFiniteSet(S \cup T)
      /\ Cardinality(S \cup T) = Cardinality(S) + Cardinality(T) - Cardinality(S \cap T)
  BY FS_Union
<1>3. Cardinality(S \cap T) = 0
  BY FS_EmptySet
<1> QED  BY <1>1, <1>2, <1>3

LEMMA ApartIsOnce == IInv /\ CLink /\ KeptApart => KeptOnce
<1> SUFFICES ASSUME IInv, CLink, KeptApart PROVE KeptOnce
  OBVIOUS
<1> DEFINE A == {self[t] : t \in Putting}
           B == {got[t] : t \in Taken}
<1>1. /\ \A t \in Putting : t \in Thread /\ Holds(t) /\ Held(t) = self[t]
      /\ \A t \in Taken : t \in Thread /\ Holds(t) /\ Held(t) = got[t]
      /\ \A t \in Putting : t \notin Taken
  BY DEF Putting, Taken, Holds, Held
<1>2. \A o \in Kept : mem[o] = "caught"
  BY <1>1 DEF Kept, Queued, KeptApart
<1>3. /\ \A s, t \in Putting : self[s] = self[t] => s = t
      /\ \A s, t \in Taken : got[s] = got[t] => s = t
      /\ A \cap B = {} /\ Queued \cap (A \cup B) = {}
  <2>1. /\ \A s, t \in Putting : self[s] = self[t] => s = t
        /\ \A s, t \in Taken : got[s] = got[t] => s = t
    BY <1>1 DEF KeptApart
  <2>2. A \cap B = {}
    BY <1>1 DEF KeptApart
  <2>3. Queued \cap (A \cup B) = {}
    BY <1>1 DEF Queued, KeptApart
  <2> QED  BY <2>1, <2>2, <2>3
<1>4. IsFiniteSet(Putting) /\ IsFiniteSet(Taken)
  BY ThreadsCounted DEF Putting, Taken
<1>5. /\ IsFiniteSet(A) /\ Cardinality(A) = Cardinality(Putting)
      /\ IsFiniteSet(B) /\ Cardinality(B) = Cardinality(Taken)
  BY <1>3, <1>4, ImageSize
<1>6. IsFiniteSet(Queued) /\ Cardinality(Queued) = length
  <2>1. length \in Nat
    BY DEF IInv, TypeOK
  <2>2. IsFiniteSet(1 .. length) /\ Cardinality(1 .. length) = length
    BY <2>1, FS_Interval
  <2>3. \A i, j \in 1 .. length : Contents[i] = Contents[j] => i = j
    BY DEF KeptApart
  <2>4. /\ IsFiniteSet({Contents[i] : i \in 1 .. length})
        /\ Cardinality({Contents[i] : i \in 1 .. length}) = Cardinality(1 .. length)
    <3> DEFINE places == 1 .. length
    <3>1. IsFiniteSet(places) /\ \A i, j \in places : Contents[i] = Contents[j] => i = j
      BY <2>2, <2>3
    <3> HIDE DEF places
    <3>2. /\ IsFiniteSet({Contents[i] : i \in places})
          /\ Cardinality({Contents[i] : i \in places}) = Cardinality(places)
      BY <3>1, ImageSize
    <3> QED  BY <3>2 DEF places
  <2> QED  BY <2>2, <2>4 DEF Queued
<1>7. IsFiniteSet(A \cup B) /\ Cardinality(A \cup B) = Cardinality(A) + Cardinality(B)
  BY <1>3, <1>5, DisjointSize
<1>8. Cardinality(Queued \cup (A \cup B)) = Cardinality(Queued) + Cardinality(A \cup B)
  BY <1>3, <1>6, <1>7, DisjointSize
<1>9. Kept = Queued \cup (A \cup B)
  BY DEF Kept
<1>10. Cardinality(Putting) \in Nat /\ Cardinality(Taken) \in Nat /\ length \in Nat
  BY <1>4, FS_CardinalityType DEF IInv, TypeOK
<1>11. Cardinality(Kept) = length + Cardinality(Putting) + Cardinality(Taken)
  BY <1>5, <1>6, <1>7, <1>8, <1>9, <1>10
<1> QED  BY <1>2, <1>11 DEF KeptOnce

\* Two slots of the queue, two threads, or a slot and a thread never hold the
\* same block between myDealloc and the free of deallocAllObjs.
THEOREM KeptApartAlways == CatcherSpec => []KeptApart
<1>1. CatcherInit => KeptApart
  BY DEF CatcherInit, Init, KeptApart, Holds
<1>2. CInv /\ CInv' /\ KeptApart /\ [CatcherNext]_catcherVars => KeptApart'
  BY ApartStep DEF CInv
<1> QED  BY <1>1, <1>2, CatcherInvariant, PTL DEF CatcherSpec

\* For every number of threads, every limit and every capacity: memory is given
\* back to malloc once.  Each block the catcher keeps lies in one slot of the
\* queue or in the hands of one thread, so deallocAllObjs never frees a block
\* twice nor one that a live object uses.
THEOREM FreedOnce == CatcherSpec => []KeptOnce
<1>1. CInv /\ KeptApart => KeptOnce
  BY ApartIsOnce DEF CInv
<1> QED  BY <1>1, CatcherInvariant, KeptApartAlways, PTL

-----------------------------------------------------------------------------
(* What the community modules' sum over a finite set adds up to.  Induction  *)
(* over finite sets is by the smallest counterexample, whose proper subsets  *)
(* are none.                                                                 *)

LEMMA SmallestSubset ==
    ASSUME NEW S, IsFiniteSet(S), NEW Bad \in SUBSET (SUBSET S), Bad # {}
    PROVE  \E T \in Bad :
                /\ T \subseteq S /\ IsFiniteSet(T)
                /\ \A U \in SUBSET T : U # T => U \notin Bad
<1>1. IsWellFoundedOn(StrictSubsetOrdering(S), SUBSET S)
  <2>1. FiniteSubsetsOf(S) = SUBSET S
    BY FS_FiniteSubsetsOfFinite
  <2>2. IsWellFoundedOn(StrictSubsetOrdering(S), FiniteSubsetsOf(S))
    BY FS_StrictSubsetOrderingWellFounded
  <2> QED  BY <2>1, <2>2
<1>2. PICK T \in Bad : \A U \in Bad : ~ (<<U, T>> \in StrictSubsetOrdering(S))
  BY <1>1, WFMin
<1>3. \A U \in SUBSET T : U # T => U \notin Bad
  BY <1>2 DEF StrictSubsetOrdering
<1> QED  BY <1>2, <1>3, FS_Subset

Pick(s) == CHOOSE x \in s : TRUE

\* g adds up f over every subset of S, one element after the other.
Adds(g, f, S) ==
    g = [s \in SUBSET S |-> IF s = {} THEN 0 ELSE f[Pick(s)] + g[s \ {Pick(s)}]]

Adder(f, S) == CHOOSE g : Adds(g, f, S)

LEMMA SumIsAdder == \A f, S : SumFunctionOnSet(f, S) = Adder(f, S)[S]
BY DEF SumFunctionOnSet, FoldFunctionOnSet, MapThenFoldSet, Adder, Adds, Pick

LEMMA PickIn == \A s : s # {} => Pick(s) \in s /\ s \ {Pick(s)} \subseteq s /\ s \ {Pick(s)} # s
BY DEF Pick

LEMMA AddsOnce ==
    ASSUME NEW f, NEW U, NEW V, NEW g, NEW h, Adds(g, f, U), Adds(h, f, V),
           NEW S, IsFiniteSet(S), S \subseteq U, S \subseteq V
    PROVE  g[S] = h[S]
<1> DEFINE Bad == {s \in SUBSET S : g[s] # h[s]}
<1> SUFFICES ASSUME Bad # {} PROVE FALSE
  OBVIOUS
<1>0. Bad \in SUBSET (SUBSET S)
  OBVIOUS
<1>1. PICK T \in Bad : /\ T \subseteq S /\ IsFiniteSet(T)
                       /\ \A s \in SUBSET T : s # T => s \notin Bad
  <2> HIDE DEF Bad
  <2> QED  BY <1>0, SmallestSubset
<1>2. T \in SUBSET U /\ T \in SUBSET V
  OBVIOUS
<1>3. /\ g[T] = IF T = {} THEN 0 ELSE f[Pick(T)] + g[T \ {Pick(T)}]
      /\ h[T] = IF T = {} THEN 0 ELSE f[Pick(T)] + h[T \ {Pick(T)}]
  BY <1>2 DEF Adds
<1>4. T # {} => g[T \ {Pick(T)}] = h[T \ {Pick(T)}]
  BY <1>1, PickIn
<1> QED  BY <1>3, <1>4

LEMMA AdderAdds ==
    ASSUME NEW f, NEW S, IsFiniteSet(S)
    PROVE  \A T \in SUBSET S : Adds(Adder(f, T), f, T)
<1> DEFINE Bad == {T \in SUBSET S : ~Adds(Adder(f, T), f, T)}
<1> SUFFICES ASSUME Bad # {} PROVE FALSE
  OBVIOUS
<1>0. Bad \in SUBSET (SUBSET S)
  OBVIOUS
<1>1. PICK T \in Bad : /\ T \subseteq S /\ IsFiniteSet(T)
                       /\ \A U \in SUBSET T : U # T => U \notin Bad
  <2> HIDE DEF Bad
  <2> QED  BY <1>0, SmallestSubset
<1>2. \A U \in SUBSET T : U # T => Adds(Adder(f, U), f, U)
  BY <1>1
<1> DEFINE g == [s \in SUBSET T |->
                    IF s = {} THEN 0
                    ELSE f[Pick(s)] + Adder(f, s \ {Pick(s)})[s \ {Pick(s)}]]
<1>3. ASSUME NEW s \in SUBSET T, s # T PROVE g[s] = Adder(f, s)[s]
  <2>1. Adds(Adder(f, s), f, s)
    BY <1>2, <1>3
  <2>2. Adder(f, s)[s] = IF s = {} THEN 0 ELSE f[Pick(s)] + Adder(f, s)[s \ {Pick(s)}]
    BY <2>1 DEF Adds
  <2>3. ASSUME s # {} PROVE Adder(f, s)[s \ {Pick(s)}] = Adder(f, s \ {Pick(s)})[s \ {Pick(s)}]
    <3>1. /\ s \ {Pick(s)} \in SUBSET T /\ s \ {Pick(s)} # T
          /\ IsFiniteSet(s \ {Pick(s)}) /\ s \ {Pick(s)} \subseteq s
      BY <1>1, <2>3, PickIn, FS_Subset
    <3>2. Adds(Adder(f, s \ {Pick(s)}), f, s \ {Pick(s)})
      BY <1>2, <3>1
    <3> QED  BY <2>1, <3>1, <3>2, AddsOnce
  <2> QED  BY <2>2, <2>3
<1>4. \A s \in SUBSET T : s # {} => s \ {Pick(s)} \in SUBSET T /\ s \ {Pick(s)} # T
  BY PickIn
<1>5. Adds(g, f, T)
  <2>1. \A s \in SUBSET T : s # {} => g[s \ {Pick(s)}] = Adder(f, s \ {Pick(s)})[s \ {Pick(s)}]
    BY <1>3, <1>4
  <2> QED  BY <2>1 DEF Adds
<1>6. Adds(Adder(f, T), f, T)
  BY <1>5 DEF Adder
<1> QED  BY <1>6

\* The sum is built up by the elements the fold picks, in its order ...
LEMMA SumPicks ==
    ASSUME NEW f, NEW S, IsFiniteSet(S)
    PROVE  SumFunctionOnSet(f, S) =
                IF S = {} THEN 0 ELSE f[Pick(S)] + SumFunctionOnSet(f, S \ {Pick(S)})
<1>1. Adds(Adder(f, S), f, S)
  BY AdderAdds
<1>2. Adder(f, S)[S] = IF S = {} THEN 0 ELSE f[Pick(S)] + Adder(f, S)[S \ {Pick(S)}]
  BY <1>1 DEF Adds
<1>3. ASSUME S # {} PROVE Adder(f, S)[S \ {Pick(S)}] = Adder(f, S \ {Pick(S)})[S \ {Pick(S)}]
  <2>1. S \ {Pick(S)} \subseteq S /\ IsFiniteSet(S \ {Pick(S)})
    BY FS_Subset
  <2>2. Adds(Adder(f, S \ {Pick(S)}), f, S \ {Pick(S)})
    BY <2>1, AdderAdds
  <2> QED  BY <1>1, <2>1, <2>2, AddsOnce
<1> QED  BY <1>2, <1>3, SumIsAdder

LEMMA SumIsNumber ==
    ASSUME NEW S, IsFiniteSet(S), NEW f, \A x \in S : f[x] \in Int
    PROVE  \A T \in SUBSET S : SumFunctionOnSet(f, T) \in Int
<1> DEFINE Bad == {T \in SUBSET S : SumFunctionOnSet(f, T) \notin Int}
<1> SUFFICES ASSUME Bad # {} PROVE FALSE
  OBVIOUS
<1>0. Bad \in SUBSET (SUBSET S)
  OBVIOUS
<1>1. PICK T \in Bad : /\ T \subseteq S /\ IsFiniteSet(T)
                       /\ \A U \in SUBSET T : U # T => U \notin Bad
  <2> HIDE DEF Bad
  <2> QED  BY <1>0, SmallestSubset
<1>2. T # {} => SumFunctionOnSet(f, T \ {Pick(T)}) \in Int /\ f[Pick(T)] \in Int
  BY <1>1, PickIn
<1>3. SumFunctionOnSet(f, T) = IF T = {} THEN 0 ELSE f[Pick(T)] + SumFunctionOnSet(f, T \ {Pick(T)})
  BY <1>1, SumPicks, Zenon
<1>4. SumFunctionOnSet(f, T) \in Int
  BY <1>2, <1>3
<1> QED  BY <1>4

\* ... and, as addition commutes, by any element in any order.
LEMMA SumTakesAny ==
    ASSUME NEW S, IsFiniteSet(S), NEW f, \A x \in S : f[x] \in Int
    PROVE  \A x \in S : SumFunctionOnSet(f, S) = f[x] + SumFunctionOnSet(f, S \ {x})
<1> DEFINE Sum(T) == SumFunctionOnSet(f, T)
           Bad == {T \in SUBSET S : \E x \in T : Sum(T) # f[x] + Sum(T \ {x})}
<1> HIDE DEF Sum
<1> SUFFICES ASSUME Bad # {} PROVE FALSE
  BY DEF Sum
<1>0. Bad \in SUBSET (SUBSET S)
  OBVIOUS
<1>1. PICK T \in Bad : /\ T \subseteq S /\ IsFiniteSet(T)
                       /\ \A U \in SUBSET T : U # T => U \notin Bad
  <2> HIDE DEF Bad
  <2> QED  BY <1>0, SmallestSubset
<1>2. PICK x \in T : Sum(T) # f[x] + Sum(T \ {x})
  OBVIOUS
<1>3. \A U \in SUBSET S : Sum(U) \in Int
  BY SumIsNumber DEF Sum
<1> DEFINE p == Pick(T)
<1> HIDE DEF p
<1>4. Sum(T) = f[p] + Sum(T \ {p}) /\ p \in T
  BY <1>1, <1>2, SumPicks, PickIn DEF Sum, p
<1>5. x # p
  BY <1>2, <1>4
<1>6. Sum(T \ {p}) = f[x] + Sum((T \ {p}) \ {x})
  <2>1. T \ {p} \in SUBSET T /\ T \ {p} # T /\ x \in T \ {p} /\ T \ {p} \in SUBSET S
    BY <1>1, <1>4, <1>5
  <2> QED  BY <1>1, <2>1
<1>7. Sum(T \ {x}) = f[p] + Sum((T \ {x}) \ {p})
  <2>1. T \ {x} \in SUBSET T /\ T \ {x} # T /\ p \in T \ {x} /\ T \ {x} \in SUBSET S
    BY <1>1, <1>4, <1>5
  <2> QED  BY <1>1, <2>1
<1>8. (T \ {p}) \ {x} = (T \ {x}) \ {p}
  OBVIOUS
<1>9. /\ f[x] \in Int /\ f[p] \in Int /\ (T \ {x}) \ {p} \in SUBSET S
      /\ Sum((T \ {x}) \ {p}) \in Int
  BY <1>1, <1>3, <1>4
<1>10. ASSUME NEW a \in Int, NEW b \in Int, NEW c \in Int PROVE a + (b + c) = b + (a + c)
  OBVIOUS
<1>11. Sum(T) = f[p] + (f[x] + Sum((T \ {x}) \ {p}))
  BY <1>4, <1>6, <1>8, Zenon
<1>12. f[x] + Sum(T \ {x}) = f[x] + (f[p] + Sum((T \ {x}) \ {p}))
  BY <1>7, Zenon
<1> QED  BY <1>2, <1>9, <1>10, <1>11, <1>12

LEMMA SumOfNone == \A f : SumFunctionOnSet(f, {}) = 0
BY SumPicks, FS_EmptySet

LEMMA SumAdds ==
    ASSUME NEW S, IsFiniteSet(S), NEW x, x \notin S, NEW f, \A y \in S \cup {x} : f[y] \in Int
    PROVE  SumFunctionOnSet(f, S \cup {x}) = SumFunctionOnSet(f, S) + f[x]
<1>1. IsFiniteSet(S \cup {x}) /\ (S \cup {x}) \ {x} = S /\ SumFunctionOnSet(f, S) \in Int
  BY FS_AddElement, SumIsNumber
<1> QED  BY <1>1, SumTakesAny

-----------------------------------------------------------------------------
(* How much memory the catcher keeps. *)

\* The threads whose block counts as kept: not yet between the overwriting and
\* the addition to unfreeSize.
Keepers == {u \in Thread : Holds(u) /\ at[u] # "counting"}

LEMMA KeptIsHeld ==
    /\ Kept = Queued \cup {Held(u) : u \in Keepers}
    /\ Kept' = Queued' \cup {Held(u)' : u \in Keepers'}
<1>1. Kept = Queued \cup {Held(u) : u \in Keepers}
  BY DEF Kept, Keepers, Holds, Held, Putting, Taken
<1>2. Kept' = Queued' \cup {Held(u)' : u \in Keepers'}
  BY DEF Kept, Keepers, Holds, Held, Putting, Taken
<1> QED  BY <1>1, <1>2

LEMMA KeptIsFinite ==
    ASSUME IInv, CLink, KeptApart
    PROVE  IsFiniteSet(Kept) /\ Kept \subseteq Item
<1>1. length \in Nat /\ IsFiniteSet(1 .. length)
  BY FS_Interval DEF IInv, TypeOK
<1>2. IsFiniteSet(Queued)
  BY <1>1, ImageSize DEF Queued, KeptApart
<1>3. IsFiniteSet(Putting) /\ IsFiniteSet(Taken)
  BY ThreadsCounted DEF Putting, Taken
<1>4. /\ \A s, t \in Putting : self[s] = self[t] => s = t
      /\ \A s, t \in Taken : got[s] = got[t] => s = t
  BY DEF Putting, Taken, KeptApart, Holds, Held
<1>5. IsFiniteSet({self[t] : t \in Putting}) /\ IsFiniteSet({got[t] : t \in Taken})
  BY <1>3, <1>4, ImageSize
<1>6. IsFiniteSet(Queued \cup {self[t] : t \in Putting})
  BY <1>2, <1>5, FS_Union
<1>7. IsFiniteSet(Kept)
  BY <1>5, <1>6, FS_Union DEF Kept
<1>8. \A i \in 1 .. length : Contents[i] \in Item
  BY ContentsIsSeq DEF IInv, TypeOK, StoredAreItems
<1>9. \A u \in Thread : Holds(u) => Held(u) \in Item
  BY DEF KeptApart
<1>10. Kept \subseteq Item
  BY <1>8, <1>9, KeptIsHeld DEF Queued, Keepers
<1> QED  BY <1>7, <1>10

\* A step that neither stores nor takes nor passes a block on.
LEMMA KeptStays ==
    ASSUME ring' = ring, Keepers' = Keepers, \A u \in Keepers : Held(u)' = Held(u)
    PROVE  Kept' = Kept
<1>1. Queued' = Queued
  BY DEF ring, Queued, Contents
<1>2. {Held(u)' : u \in Keepers'} = {Held(u) : u \in Keepers}
  OBVIOUS
<1> QED  BY <1>1, <1>2, KeptIsHeld

\* Inside the queue a block changes hands, but is kept before and after.
LEMMA KeptInQueue ==
    ASSUME IInv, IInv', CLink, KeptApart, ~aborted, NEW t \in Thread, QueueMoves(t)
    PROVE  Kept' = Kept /\ unfreeSize' = unfreeSize
<1>0. /\ pc \in [Thread -> Place] /\ got \in [Thread -> Item \cup {NULL}]
      /\ length \in 0 .. Capacity
      /\ UNCHANGED <<mem, at, self, left, unfreeSize>> /\ CallFits(t)
  BY DEF IInv, TypeOK, QueueMoves, catcher, CLink
<1>1. CASE Lock(t) \/ PutChecksOpen(t) \/ PutWaits(t) \/ GetWaits(t) \/ SpuriousWakeup(t)
  <2>1. /\ ring' = ring /\ got' = got /\ pc[t] # "idle" /\ pc'[t] # "idle"
        /\ \A u \in Thread : u # t => pc'[u] = pc[u]
    BY <1>0, <1>1 DEF Lock, PutChecksOpen, PutWaits, GetWaits, SpuriousWakeup, In, results
  <2>2. Keepers' = Keepers /\ \A u \in Keepers : Held(u)' = Held(u)
    BY <1>0, <2>1 DEF Keepers, Holds, Held
  <2> QED  BY <1>0, <2>1, <2>2, KeptStays
<1>2. CASE ReadLength(t)
  <2>1. /\ ring' = ring /\ got' = got
        /\ at[t] \in {"counting", "purgeCount"}
        /\ \A u \in Thread : pc'[u] = IF u = t THEN "idle" ELSE pc[u]
    BY <1>0, <1>2 DEF ReadLength, Returned, In, CallFits
  <2>2. Keepers' = Keepers /\ \A u \in Keepers : Held(u)' = Held(u)
    BY <1>0, <2>1 DEF Keepers, Holds, Held
  <2> QED  BY <1>0, <2>1, <2>2, KeptStays
<1>3. ASSUME pc' = Broadcast(Returned(t))
      PROVE  \A u \in Thread : pc'[u] = "idle" <=> (pc[u] = "idle" \/ u = t)
  <2>1. \A u \in Thread : Returned(t)[u] = IF u = t THEN "idle" ELSE pc[u]
    BY <1>0 DEF Returned
  <2> QED  BY <1>3, <2>1 DEF Broadcast
<1>4. CASE PutStores(t)
  <2>1. /\ at[t] = "putting" /\ pc[t] # "idle" /\ t \in Keepers /\ Held(t) = self[t] /\ arg[t] = self[t]
        /\ got' = got /\ length' = length + 1
        /\ \A u \in Thread : pc'[u] = "idle" <=> (pc[u] = "idle" \/ u = t)
    BY <1>0, <1>3, <1>4 DEF PutStores, In, CallFits, Keepers, Holds, Held, KeptApart, results
  <2>2. /\ Contents \in Seq(Item) /\ Len(Contents) = length
        /\ Contents' = Append(Contents, self[t])
    BY <1>4, <2>1, StoreAppends, ContentsIsSeq DEF IInv, TypeOK
  <2>3. /\ \A i \in 1 .. length : i \in 1 .. length + 1 /\ Contents'[i] = Contents[i]
        /\ length + 1 \in 1 .. length + 1 /\ Contents'[length + 1] = self[t]
        /\ \A i \in 1 .. length + 1 : i \in 1 .. length \/ i = length + 1
    BY <1>0, <2>1, <2>2, AppendProperties DEF KeptApart
  <2>4. Queued' = Queued \cup {self[t]}
    BY <2>1, <2>3 DEF Queued
  <2>5. Keepers' = Keepers \ {t} /\ \A u \in Keepers' : Held(u)' = Held(u)
    BY <1>0, <2>1 DEF Keepers, Holds, Held
  <2> QED  BY <1>0, <2>1, <2>4, <2>5, KeptIsHeld
<1>5. CASE GetTakes(t)
  <2>1. /\ at[t] = "purgeGet" /\ pc[t] # "idle" /\ t \notin Keepers
        /\ length' = length - 1 /\ length \in 1 .. Capacity
        /\ \A u \in Thread : got'[u] = IF u = t THEN buf[pos] ELSE got[u]
        /\ \A u \in Thread : pc'[u] = "idle" <=> (pc[u] = "idle" \/ u = t)
    BY <1>0, <1>3, <1>5 DEF GetTakes, In, CallFits, Keepers, Holds
  <2>2. /\ Contents \in Seq(Item) /\ Len(Contents) = length
        /\ Contents # <<>> /\ buf[pos] = Head(Contents) /\ Contents' = Tail(Contents)
    BY <1>5, <2>1, TakeRemovesHead, ContentsIsSeq DEF IInv, TypeOK
  <2>3. /\ buf[pos] = Contents[1] /\ 1 \in 1 .. length
        /\ \A i \in 1 .. length - 1 : i + 1 \in 1 .. length /\ Contents'[i] = Contents[i + 1]
        /\ \A i \in 1 .. length : i = 1 \/ (i - 1 \in 1 .. length - 1 /\ Contents[i] = Contents'[i - 1])
    BY <2>1, <2>2, HeadTailProperties
  <2>4. Queued = Queued' \cup {buf[pos]}
    BY <2>1, <2>3 DEF Queued
  <2>5. Keepers' = Keepers \cup {t} /\ Held(t)' = buf[pos] /\ \A u \in Keepers : Held(u)' = Held(u)
    BY <1>0, <2>1 DEF Keepers, Holds, Held
  <2> QED  BY <1>0, <2>4, <2>5, KeptIsHeld
<1>6. ~PutFails(t) /\ ~GetReturnsNull(t) /\ ~CloseQueue(t)
  <2>1. aborted' = FALSE /\ ~GetReturnsNull(t) /\ ~CloseQueue(t)
    BY <1>0, QueueStep DEF GetReturnsNull, CloseQueue, In, QueueMoves, CallFits, CLink
  <2> QED  BY <2>1 DEF PutFails
<1> QED  BY <1>1, <1>2, <1>4, <1>5, <1>6 DEF QueueMoves, Step

\* Outside it, one block becomes kept, one is given up, or nothing changes.
LEMMA KeptOutside ==
    ASSUME IInv, CLink, KeptApart, NEW t \in Thread,
           \/ \E o \in Item : DeallocSmall(t, o) \/ DeallocCatch(t, o) \/ MessageCaught(t, o)
           \/ DeallocKeep(t) \/ DeallocForget(t) \/ DeallocReturn(t)
           \/ PurgeStart(t) \/ PurgeCount(t) \/ PurgeNext(t) \/ PurgeFree(t) \/ PurgeReturn(t)
    PROVE  \/ Kept' = Kept /\ unfreeSize' = unfreeSize
           \/ \E o \in Item \ Kept : Kept' = Kept \cup {o} /\ unfreeSize' = unfreeSize + Size[o]
           \/ \E o \in Kept : Kept' = Kept \ {o} /\ unfreeSize' = unfreeSize - Size[o]
<1>0. /\ pc \in [Thread -> Place] /\ got \in [Thread -> Item \cup {NULL}]
      /\ at \in [Thread -> {"out", "counting", "putting", "purgeCount", "purging", "purgeGet"}]
      /\ self \in [Thread -> Item \cup {NULL}] /\ CallFits(t)
  BY DEF IInv, TypeOK, CLink
<1>1. CASE \/ \E o \in Item : DeallocSmall(t, o) \/ DeallocCatch(t, o) \/ MessageCaught(t, o)
           \/ DeallocForget(t) \/ DeallocReturn(t)
           \/ PurgeStart(t) \/ PurgeCount(t) \/ PurgeNext(t) \/ PurgeReturn(t)
  <2>1. /\ ring' = ring /\ unfreeSize' = unfreeSize
        /\ t \notin Keepers /\ t \notin Keepers'
        /\ \A u \in Thread : u # t =>
                at'[u] = at[u] /\ pc'[u] = pc[u] /\ got'[u] = got[u] /\ self'[u] = self[u]
    <3>1. CASE \E o \in Item : DeallocSmall(t, o) \/ MessageCaught(t, o)
      BY <1>0, <3>1 DEF DeallocSmall, MessageCaught, vars, results, ring, Keepers, Holds
    <3>2. CASE \E o \in Item : DeallocCatch(t, o)
      BY <1>0, <3>2 DEF DeallocCatch, Go, Call, Keepers, Holds
    <3>3. CASE DeallocForget(t) \/ DeallocReturn(t) \/ PurgeCount(t) \/ PurgeReturn(t)
      BY <1>0, <3>3 DEF DeallocForget, DeallocReturn, PurgeCount, PurgeReturn, Go, vars, results, ring, Keepers, Holds
    <3>4. CASE PurgeStart(t) \/ PurgeNext(t)
      BY <1>0, <3>4 DEF PurgeStart, PurgeNext, Go, Call, Keepers, Holds
    <3> QED  BY <1>1, <3>1, <3>2, <3>3, <3>4
  <2>2. Keepers' = Keepers /\ \A u \in Keepers : Held(u)' = Held(u)
    BY <2>1 DEF Keepers, Holds, Held
  <2> QED  BY <2>1, <2>2, KeptStays
<1>2. CASE DeallocKeep(t)
  <2>1. /\ ring' = ring /\ self' = self /\ unfreeSize' = unfreeSize + Size[self[t]]
        /\ Holds(t) /\ Held(t) = self[t] /\ t \notin Keepers
        /\ at'[t] = "putting" /\ pc'[t] # "idle"
        /\ \A u \in Thread : u # t => at'[u] = at[u] /\ pc'[u] = pc[u] /\ got'[u] = got[u]
    BY <1>0, <1>2 DEF DeallocKeep, Go, Call, Holds, Held, Keepers
  <2>2. Keepers' = Keepers \cup {t} /\ Held(t)' = self[t] /\ \A u \in Keepers : Held(u)' = Held(u)
    BY <2>1 DEF Keepers, Holds, Held
  <2>3. Queued' = Queued
    BY <2>1 DEF Queued, ring, Contents
  <2>4. Kept' = Kept \cup {self[t]}
    BY <2>2, <2>3, KeptIsHeld
  <2>5. self[t] \in Item \ Kept
    BY <2>1, KeptIsHeld DEF Keepers, Queued, KeptApart
  <2> QED  BY <2>1, <2>4, <2>5
<1>3. CASE PurgeFree(t)
  <2>1. /\ UNCHANGED vars /\ self' = self /\ unfreeSize' = unfreeSize - Size[got[t]]
        /\ t \in Keepers /\ Held(t) = got[t] /\ at'[t] = "purging" /\ Holds(t)
        /\ \A u \in Thread : u # t => at'[u] = at[u]
    BY <1>0, <1>3 DEF PurgeFree, Go, Holds, Held, Keepers
  <2>2. Keepers' = Keepers \ {t} /\ \A u \in Keepers' : Held(u)' = Held(u)
    BY <2>1 DEF vars, results, Keepers, Holds, Held
  <2>3. Queued' = Queued
    BY <2>1 DEF Queued, vars, ring, Contents
  <2>4. got[t] \notin Queued /\ \A u \in Keepers' : Held(u) # got[t]
    BY <2>1, <2>2 DEF Queued, Keepers, KeptApart
  <2>5. Kept' = Kept \ {got[t]} /\ got[t] \in Kept
    BY <2>1, <2>2, <2>3, <2>4, KeptIsHeld
  <2> QED  BY <2>1, <2>5
<1> QED  BY <1>1, <1>2, <1>3

LEMMA SizeStep ==
    IInv /\ IInv' /\ CLink /\ KeptApart /\ SizeIsKept /\ [CatcherNext]_catcherVars => SizeIsKept'
<1> SUFFICES ASSUME IInv, IInv', CLink, KeptApart, SizeIsKept, [CatcherNext]_catcherVars
             PROVE  SizeIsKept'
  OBVIOUS
<1>1. ASSUME Kept' = Kept, unfreeSize' = unfreeSize PROVE SizeIsKept'
  BY <1>1 DEF SizeIsKept
<1>2. ASSUME UNCHANGED vars, UNCHANGED <<at, self, unfreeSize>> PROVE SizeIsKept'
  <2>1. ring' = ring /\ Keepers' = Keepers /\ \A u \in Keepers : Held(u)' = Held(u)
    BY <1>2 DEF vars, results, ring, Keepers, Holds, Held
  <2> QED  BY <1>1, <1>2, <2>1, KeptStays
<1>3. /\ IsFiniteSet(Kept) /\ Kept \subseteq Item /\ unfreeSize = SumFunctionOnSet(Size, Kept)
      /\ \A o \in Item : Size[o] \in Int
  BY KeptIsFinite DEF SizeIsKept
<1>4. SumFunctionOnSet(Size, Kept) \in Int
  BY <1>3, SumIsNumber
<1>5. ASSUME NEW o \in Item \ Kept, Kept' = Kept \cup {o}, unfreeSize' = unfreeSize + Size[o]
      PROVE  SizeIsKept'
  <2>1. SumFunctionOnSet(Size, Kept \cup {o}) = SumFunctionOnSet(Size, Kept) + Size[o]
    BY <1>3, SumAdds
  <2> QED  BY <1>3, <1>5, <2>1 DEF SizeIsKept
<1>6. ASSUME NEW o \in Kept, Kept' = Kept \ {o}, unfreeSize' = unfreeSize - Size[o]
      PROVE  SizeIsKept'
  <2>1. SumFunctionOnSet(Size, Kept) = Size[o] + SumFunctionOnSet(Size, Kept \ {o})
    BY <1>3, SumTakesAny
  <2>2. SumFunctionOnSet(Size, Kept \ {o}) \in Int /\ Size[o] \in Int
    BY <1>3, SumIsNumber
  <2>3. unfreeSize' = SumFunctionOnSet(Size, Kept \ {o})
    BY <1>3, <1>6, <2>1, <2>2
  <2> QED  BY <1>6, <2>3 DEF SizeIsKept
<1>7. ASSUME NEW t \in Thread,
             \/ \E o \in Item : DeallocSmall(t, o) \/ DeallocCatch(t, o) \/ MessageCaught(t, o)
             \/ DeallocKeep(t) \/ DeallocForget(t) \/ DeallocReturn(t)
             \/ PurgeStart(t) \/ PurgeCount(t) \/ PurgeNext(t) \/ PurgeFree(t) \/ PurgeReturn(t)
      PROVE  SizeIsKept'
  BY <1>1, <1>5, <1>6, <1>7, KeptOutside
<1>8. ASSUME NEW t \in Thread, ~aborted, QueueMoves(t) PROVE SizeIsKept'
  BY <1>1, <1>8, KeptInQueue
<1>9. ASSUME NEW o \in Item, Alloc(o) PROVE SizeIsKept'
  BY <1>2, <1>9 DEF Alloc
<1>10. CASE UNCHANGED catcherVars
  BY <1>2, <1>10 DEF catcherVars, catcher
<1>11. CASE CatcherNext
  <2>1. ~aborted
    BY <1>11 DEF CatcherNext, Running
  <2> QED  BY <1>7, <1>8, <1>9, <1>11, <2>1 DEF CatcherNext, Work, QueueMoves
<1> QED  BY <1>10, <1>11

\* For every number of threads and every size of the objects: unfreeSize is the
\* size of the memory kept, at every step of every interleaving.
THEOREM SizeAccounted == CatcherSpec => []SizeIsKept
<1>1. CatcherInit => SizeIsKept
  <2> SUFFICES ASSUME CatcherInit PROVE SizeIsKept
    OBVIOUS
  <2>1. Kept = {}
    BY DEF CatcherInit, Init, Kept, Queued, Putting, Taken
  <2> QED  BY <2>1, SumOfNone DEF CatcherInit, SizeIsKept
<1>2. CInv /\ CInv' /\ KeptApart /\ SizeIsKept /\ [CatcherNext]_catcherVars => SizeIsKept'
  BY SizeStep DEF CInv
<1> QED  BY <1>1, <1>2, CatcherInvariant, KeptApartAlways, PTL DEF CatcherSpec
=============================================================================
