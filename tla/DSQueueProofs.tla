---------------------------- MODULE DSQueueProofs ----------------------------
(***************************************************************************)
(* What DSQueue does for every number of threads, every capacity and every  *)
(* set of items: an inductive invariant, and the refinement of ClosableFifo *)
(* that rests on it.                                                        *)
(***************************************************************************)
EXTENDS DSQueue, SequenceTheorems, TLAPS

USE CapacityAssumption, UIntAssumption, NullAssumption

\* A slot n places behind slot p, without the remainders.
LEMMA RingArithmetic ==
    ASSUME NEW p \in Slot, NEW n \in 0 .. Capacity
    PROVE  /\ (p + n) % Capacity = IF p + n < Capacity THEN p + n ELSE p + n - Capacity
           /\ ((p + n) % UInt) % Capacity = (p + n) % Capacity
           /\ (p + n) % Capacity \in Slot
<1>1. /\ p \in Nat /\ n \in Nat /\ p + n \in 0 .. 2 * Capacity - 1
      /\ Capacity \in Nat \ {0} /\ UInt \in Nat \ {0} /\ 2 * Capacity <= UInt
  BY DEF Slot
<1>2. (p + n) % Capacity = IF p + n < Capacity THEN p + n ELSE p + n - Capacity
  <2>1. CASE p + n < Capacity
    BY <1>1, <2>1
  <2>2. CASE ~(p + n < Capacity)
    BY <1>1, <2>2
  <2> QED  BY <2>1, <2>2
<1>3. (p + n) % UInt = p + n
  BY <1>1
<1>4. (p + n) % Capacity \in Slot
  BY <1>1, <1>2 DEF Slot
<1> QED  BY <1>2, <1>3, <1>4

\* Counting from the slot behind p is counting one further from p, and short
\* of a full round it does not come back to p.
LEMMA NextSlot ==
    ASSUME NEW p \in Slot, NEW i \in 1 .. Capacity - 1
    PROVE  /\ (((p + 1) % Capacity) + i - 1) % Capacity = (p + (i + 1) - 1) % Capacity
           /\ (p + (i + 1) - 1) % Capacity # p
           /\ (p + (i + 1) - 1) % Capacity \in Slot
<1>1. p \in Nat /\ p < Capacity /\ Capacity \in Nat /\ i \in Nat /\ 1 <= i /\ i < Capacity
  BY DEF Slot
<1>2. p + (i + 1) - 1 = p + i
  BY <1>1
<1>3. (p + i) % Capacity = IF p + i < Capacity THEN p + i ELSE p + i - Capacity
  BY <1>1, RingArithmetic
<1>4. (p + 1) % Capacity = IF p + 1 < Capacity THEN p + 1 ELSE 0
  BY <1>1, RingArithmetic
<1>5. ((p + 1) % Capacity) + i - 1 = IF p + 1 < Capacity THEN p + i ELSE i - 1
  BY <1>1, <1>4
<1>6. i - 1 \in Nat /\ (i - 1) % Capacity = i - 1
  BY <1>1
<1>7. (((p + 1) % Capacity) + i - 1) % Capacity = (p + i) % Capacity
  <2>1. CASE p + 1 < Capacity
    BY <1>5, <2>1
  <2>2. CASE ~(p + 1 < Capacity)
    BY <1>1, <1>3, <1>5, <1>6, <2>2
  <2> QED  BY <2>1, <2>2
<1> QED  BY <1>1, <1>2, <1>3, <1>7 DEF Slot

\* Fewer than Capacity places apart are different slots.
LEMMA SlotsDiffer ==
    ASSUME NEW p \in Slot, NEW n \in 0 .. Capacity - 1, NEW i \in 1 .. n
    PROVE  (p + i - 1) % Capacity # (p + n) % Capacity /\ (p + i - 1) % Capacity \in Slot
<1>1. p \in Nat /\ p < Capacity /\ i - 1 \in Nat /\ i - 1 < n /\ n < Capacity /\ Capacity \in Nat
  BY DEF Slot
<1>2. p + i - 1 = p + (i - 1)
  BY <1>1
<1>3. (p + (i - 1)) % Capacity = IF p + (i - 1) < Capacity THEN p + (i - 1) ELSE p + (i - 1) - Capacity
  BY <1>1, RingArithmetic
<1>4. (p + n) % Capacity = IF p + n < Capacity THEN p + n ELSE p + n - Capacity
  BY <1>1, RingArithmetic
<1> QED  BY <1>1, <1>2, <1>3, <1>4 DEF Slot

-----------------------------------------------------------------------------
\* Between the oldest item and the newest there are only items.
StoredAreItems == \A i \in 1 .. length : buf[(pos + i - 1) % Capacity] \in Item

\* A put under way holds an item.
PutHasItem ==
    \A t \in Thread : op[t] = "put" /\ pc[t] # "idle" => arg[t] \in Item

IInv ==
    /\ TypeOK
    /\ HolderIsInside
    /\ NoLostWakeup
    /\ AbortsOnlyClosed
    /\ StoredAreItems
    /\ PutHasItem

LEMMA InitIInv == Init => IInv
<1> SUFFICES ASSUME Init PROVE IInv
  OBVIOUS
<1>1. TypeOK
  <2>1. 0 \in Slot /\ 0 \in 0 .. Capacity
    BY DEF Slot
  <2>2. buf \in [Slot -> Item \cup {NULL, Garbage}] /\ len \in [Thread -> 0 .. Capacity]
    BY <2>1 DEF Init
  <2> QED  BY <2>1, <2>2 DEF Init, TypeOK, Place, Operation
<1>2. HolderIsInside /\ NoLostWakeup /\ AbortsOnlyClosed /\ StoredAreItems /\ PutHasItem
  BY DEF Init, HolderIsInside, NoLostWakeup, AbortsOnlyClosed, StoredAreItems, PutHasItem
<1> QED  BY <1>1, <1>2 DEF IInv

\* Whatever a step does to pc, a broadcast leaves nobody asleep.
LEMMA BroadcastWakes ==
    ASSUME NEW p \in [Thread -> Place]
    PROVE  /\ Broadcast(p) \in [Thread -> Place]
           /\ \A u \in Thread : /\ Broadcast(p)[u] # "wait"
                                /\ Broadcast(p)[u] = p[u] \/ Broadcast(p)[u] = "relock"
<1>1. ASSUME NEW u \in Thread
      PROVE  /\ Broadcast(p)[u] = IF p[u] = "wait" THEN "relock" ELSE p[u]
             /\ Broadcast(p)[u] \in Place
             /\ Broadcast(p)[u] # "wait"
  BY DEF Broadcast, Place
<1>2. Broadcast(p) \in [Thread -> Place]
  BY <1>1 DEF Broadcast
<1> QED  BY <1>1, <1>2

\* A thread that returns from its critical section and wakes the sleepers
\* leaves nobody inside and nobody asleep.
LEMMA ReturnWakes ==
    ASSUME TypeOK, HolderIsInside, NEW t \in Thread, mutate = t,
           pc' = Broadcast(Returned(t))
    PROVE  /\ pc' \in [Thread -> Place]
           /\ pc'[t] = "idle"
           /\ \A u \in Thread : /\ pc'[u] \notin {"wait", "enter", "loop"}
                                /\ pc'[u] # "idle" => pc[u] # "idle"
<1>1. Returned(t) \in [Thread -> Place] /\ Returned(t)[t] = "idle"
  BY DEF Returned, TypeOK, Place
<1>2. ASSUME NEW u \in Thread, u # t
      PROVE  Returned(t)[u] = pc[u] /\ pc[u] \notin {"enter", "loop"}
  BY <1>2 DEF Returned, TypeOK, HolderIsInside
<1>3. ASSUME NEW u \in Thread
      PROVE  /\ pc'[u] \notin {"wait", "enter", "loop"}
             /\ pc'[u] # "idle" => pc[u] # "idle"
  <2>1. /\ pc'[u] # "wait"
        /\ pc'[u] = Returned(t)[u] \/ pc'[u] = "relock"
        /\ pc'[u] = "relock" => Returned(t)[u] # "idle"
    BY <1>1 DEF Broadcast
  <2> QED  BY <1>1, <1>2, <2>1
<1>4. pc'[t] = "idle"
  BY <1>1 DEF Broadcast
<1> QED  BY <1>1, <1>3, <1>4, BroadcastWakes

LEMMA NextIInv == IInv /\ [Next]_vars => IInv'
<1> SUFFICES ASSUME IInv, [Next]_vars PROVE IInv'
  OBVIOUS
<1> USE DEF IInv
<1>1. CASE UNCHANGED vars
  BY <1>1 DEF vars, TypeOK, HolderIsInside, NoLostWakeup, AbortsOnlyClosed, StoredAreItems, PutHasItem
<1>2. ASSUME NEW t \in Thread, NEW o \in Operation, NEW v \in Item \cup {NULL},
             ~aborted, Call(t, o, v), o = "put" => v \in Item
      PROVE  IInv'
  <2>1. TypeOK'
    BY <1>2 DEF Call, TypeOK, Place, ring
  <2>2. (HolderIsInside /\ NoLostWakeup /\ AbortsOnlyClosed /\ PutHasItem)'
    BY <1>2 DEF Call, TypeOK, ring, HolderIsInside, NoLostWakeup, AbortsOnlyClosed, PutHasItem
  <2>3. StoredAreItems'
    BY <1>2 DEF Call, ring, StoredAreItems
  <2> QED  BY <2>1, <2>2, <2>3
<1>3. ASSUME NEW t \in Thread, Lock(t) PROVE IInv'
  <2>1. TypeOK'
    BY <1>3 DEF Lock, TypeOK, Place, ring, results
  <2>2. (HolderIsInside /\ NoLostWakeup /\ AbortsOnlyClosed /\ PutHasItem)'
    BY <1>3 DEF Lock, TypeOK, ring, results, HolderIsInside, NoLostWakeup, AbortsOnlyClosed, PutHasItem
  <2>3. StoredAreItems'
    BY <1>3 DEF Lock, ring, StoredAreItems
  <2> QED  BY <2>1, <2>2, <2>3
<1>4. ASSUME NEW t \in Thread, SpuriousWakeup(t) PROVE IInv'
  <2>1. TypeOK'
    BY <1>4 DEF SpuriousWakeup, TypeOK, Place, ring, results
  <2>2. (HolderIsInside /\ NoLostWakeup /\ AbortsOnlyClosed /\ PutHasItem)'
    BY <1>4 DEF SpuriousWakeup, TypeOK, ring, results, HolderIsInside, NoLostWakeup, AbortsOnlyClosed, PutHasItem
  <2>3. StoredAreItems'
    BY <1>4 DEF SpuriousWakeup, ring, StoredAreItems
  <2> QED  BY <2>1, <2>2, <2>3
<1>5. ASSUME NEW t \in Thread, PutChecksOpen(t) PROVE IInv'
  <2>1. TypeOK'
    BY <1>5 DEF PutChecksOpen, In, TypeOK, Place, ring, results
  <2>2. (HolderIsInside /\ NoLostWakeup /\ AbortsOnlyClosed /\ PutHasItem)'
    BY <1>5 DEF PutChecksOpen, In, TypeOK, ring, results, HolderIsInside, NoLostWakeup, AbortsOnlyClosed, PutHasItem
  <2>3. StoredAreItems'
    BY <1>5 DEF PutChecksOpen, ring, StoredAreItems
  <2> QED  BY <2>1, <2>2, <2>3
<1>6. ASSUME NEW t \in Thread, PutWaits(t) PROVE IInv'
  <2>1. TypeOK'
    BY <1>6 DEF PutWaits, Unlock, In, TypeOK, Place, ring, results
  <2>2. (HolderIsInside /\ NoLostWakeup /\ AbortsOnlyClosed /\ PutHasItem)'
    BY <1>6 DEF PutWaits, Unlock, In, TypeOK, ring, results, HolderIsInside, NoLostWakeup, AbortsOnlyClosed, PutHasItem
  <2>3. StoredAreItems'
    BY <1>6 DEF PutWaits, ring, StoredAreItems
  <2> QED  BY <2>1, <2>2, <2>3
<1>7. ASSUME NEW t \in Thread, PutFails(t) PROVE IInv'
  <2>1. TypeOK'
    BY <1>7 DEF PutFails, In, TypeOK, Place, ring, results
  <2>2. AbortsOnlyClosed'
    BY <1>7 DEF PutFails, TypeOK, ring, AbortsOnlyClosed
  <2>3. (HolderIsInside /\ NoLostWakeup /\ PutHasItem /\ StoredAreItems)'
    BY <1>7 DEF PutFails, In, ring, results, HolderIsInside, NoLostWakeup, PutHasItem, StoredAreItems
  <2> QED  BY <2>1, <2>2, <2>3
<1>8. ASSUME NEW t \in Thread, PutStores(t), ~aborted PROVE IInv'
  <2>0. /\ pc' \in [Thread -> Place] /\ pc'[t] = "idle"
        /\ \A u \in Thread : pc'[u] \notin {"wait", "enter", "loop"} /\ (pc'[u] # "idle" => pc[u] # "idle")
    BY <1>8, ReturnWakes DEF PutStores, In
  <2> DEFINE s == (pos + length) % Capacity
  <2>1. pos \in Slot /\ length \in 0 .. Capacity - 1 /\ arg[t] \in Item /\ pc[t] = "loop"
    BY <1>8 DEF PutStores, In, TypeOK, PutHasItem
  <2>2. SlotOf(length) = s /\ s \in Slot
    BY <2>1, RingArithmetic DEF SlotOf
  <2>3. /\ buf' \in [Slot -> Item \cup {NULL, Garbage}]
        /\ arg' \in [Thread -> Item \cup {NULL}]
        /\ pos' = pos /\ length' = length + 1 /\ closed' = closed /\ mutate' = NoThread
        /\ op' = op /\ got' = got /\ len' = len /\ aborted' = aborted
    BY <1>8, <2>1, <2>2 DEF PutStores, Unlock, TypeOK, results
  <2>4. TypeOK'
    BY <2>0, <2>1, <2>3 DEF TypeOK
  <2>5. (HolderIsInside /\ NoLostWakeup /\ AbortsOnlyClosed /\ PutHasItem)'
    BY <1>8, <2>1, <2>0 DEF PutStores, In, Unlock, TypeOK, results, HolderIsInside, NoLostWakeup, AbortsOnlyClosed, PutHasItem
  <2>6. StoredAreItems'
    <3> SUFFICES ASSUME NEW i \in 1 .. length + 1
                 PROVE  buf'[(pos + i - 1) % Capacity] \in Item
      BY <1>8 DEF PutStores, StoredAreItems
    <3>1. CASE i = length + 1
      <4>1. pos + i - 1 = pos + length
        BY <2>1, <3>1 DEF Slot
      <4> QED  BY <1>8, <2>1, <2>2, <4>1 DEF PutStores, TypeOK
    <3>2. CASE i \in 1 .. length
      <4>1. (pos + i - 1) % Capacity # s /\ (pos + i - 1) % Capacity \in Slot
        BY <2>1, <3>2, SlotsDiffer
      <4> QED  BY <1>8, <2>2, <3>2, <4>1 DEF PutStores, TypeOK, StoredAreItems
    <3> QED  BY <2>1, <3>1, <3>2
  <2> QED  BY <2>4, <2>5, <2>6
<1>9. ASSUME NEW t \in Thread, GetWaits(t) PROVE IInv'
  <2>1. TypeOK'
    BY <1>9 DEF GetWaits, Unlock, In, TypeOK, Place, ring, results
  <2>2. (HolderIsInside /\ NoLostWakeup /\ AbortsOnlyClosed /\ PutHasItem)'
    BY <1>9 DEF GetWaits, Unlock, In, TypeOK, ring, results, HolderIsInside, NoLostWakeup, AbortsOnlyClosed, PutHasItem
  <2>3. StoredAreItems'
    BY <1>9 DEF GetWaits, ring, StoredAreItems
  <2> QED  BY <2>1, <2>2, <2>3
<1>10. ASSUME NEW t \in Thread, GetReturnsNull(t) PROVE IInv'
  <2>1. TypeOK'
    BY <1>10 DEF GetReturnsNull, Returned, Unlock, In, TypeOK, Place, ring
  <2>2. (HolderIsInside /\ NoLostWakeup /\ AbortsOnlyClosed /\ PutHasItem)'
    BY <1>10
       DEF GetReturnsNull, Returned, Unlock, In, TypeOK, ring, HolderIsInside, NoLostWakeup, AbortsOnlyClosed, PutHasItem
  <2>3. StoredAreItems'
    BY <1>10 DEF GetReturnsNull, ring, StoredAreItems
  <2> QED  BY <2>1, <2>2, <2>3
<1>11. ASSUME NEW t \in Thread, GetTakes(t), ~aborted PROVE IInv'
  <2>0. /\ pc' \in [Thread -> Place] /\ pc'[t] = "idle"
        /\ \A u \in Thread : pc'[u] \notin {"wait", "enter", "loop"} /\ (pc'[u] # "idle" => pc[u] # "idle")
    BY <1>11, ReturnWakes DEF GetTakes, In
  <2>1. pos \in Slot /\ length \in 1 .. Capacity /\ pc[t] \in {"enter", "loop"}
    BY <1>11 DEF GetTakes, In, TypeOK
  <2>2. pos' = (pos + 1) % Capacity /\ pos' \in Slot
    BY <1>11, <2>1, RingArithmetic DEF GetTakes
  <2>3. buf[pos] \in Item
    <3>1. (pos + 1 - 1) % Capacity = pos
      BY <2>1 DEF Slot
    <3> QED  BY <2>1, <3>1 DEF StoredAreItems
  <2>4. /\ buf' \in [Slot -> Item \cup {NULL, Garbage}]
        /\ got' \in [Thread -> Item \cup {NULL}]
        /\ length' = length - 1 /\ closed' = closed /\ mutate' = NoThread
        /\ op' = op /\ arg' = arg /\ len' = len /\ aborted' = FALSE
    <3>1. buf' \in [Slot -> Item \cup {NULL, Garbage}]
      BY <1>11, <2>1 DEF GetTakes, TypeOK
    <3>2. got' \in [Thread -> Item \cup {NULL}]
      BY <1>11, <2>3 DEF GetTakes, TypeOK
    <3>3. length <= Capacity
      BY <2>1
    <3>4. aborted' = ~(length <= Capacity)
      BY <1>11, Zenon DEF GetTakes
    <3>5. aborted' = FALSE
      BY <3>3, <3>4, Zenon
    <3>6. length' = length - 1 /\ closed' = closed /\ mutate' = NoThread
      BY <1>11 DEF GetTakes, Unlock
    <3>7. op' = op /\ arg' = arg /\ len' = len
      BY <1>11 DEF GetTakes
    <3> QED  BY <3>1, <3>2, <3>5, <3>6, <3>7
  <2>5. TypeOK'
    <3>1. length' \in 0 .. Capacity
      BY <2>1, <2>4
    <3>2. aborted' \in BOOLEAN /\ closed' \in BOOLEAN
      BY <2>4, Zenon DEF TypeOK
    <3> QED  BY <2>0, <2>2, <2>4, <3>1, <3>2, Zenon DEF TypeOK
  <2>6. (HolderIsInside /\ NoLostWakeup /\ AbortsOnlyClosed /\ PutHasItem)'
    BY <1>11, <2>1, <2>0 DEF GetTakes, In, Unlock, TypeOK, HolderIsInside, NoLostWakeup, AbortsOnlyClosed, PutHasItem
  <2>7. StoredAreItems'
    <3> SUFFICES ASSUME NEW i \in 1 .. length - 1
                 PROVE  buf'[(pos' + i - 1) % Capacity] \in Item
      BY <1>11 DEF GetTakes, StoredAreItems
    <3>1. (pos' + i - 1) % Capacity = (pos + (i + 1) - 1) % Capacity
      BY <2>1, <2>2, NextSlot
    <3>2. (pos + (i + 1) - 1) % Capacity # pos /\ (pos + (i + 1) - 1) % Capacity \in Slot
      BY <2>1, NextSlot
    <3>3. i + 1 \in 1 .. length
      BY <2>1
    <3> QED  BY <1>11, <3>1, <3>2, <3>3 DEF GetTakes, TypeOK, StoredAreItems
  <2> QED  BY <2>5, <2>6, <2>7
<1>12. ASSUME NEW t \in Thread, CloseQueue(t) PROVE IInv'
  <2>0. /\ pc' \in [Thread -> Place] /\ pc'[t] = "idle"
        /\ \A u \in Thread : pc'[u] \notin {"wait", "enter", "loop"} /\ (pc'[u] # "idle" => pc[u] # "idle")
    BY <1>12, ReturnWakes DEF CloseQueue, In
  <2>1. TypeOK'
    BY <1>12, <2>0 DEF CloseQueue, Unlock, TypeOK, ring, results
  <2>2. (HolderIsInside /\ NoLostWakeup /\ AbortsOnlyClosed /\ PutHasItem)'
    BY <1>12, <2>0 DEF CloseQueue, In, Unlock, TypeOK, ring, results, HolderIsInside, NoLostWakeup, AbortsOnlyClosed, PutHasItem
  <2>3. StoredAreItems'
    BY <1>12 DEF CloseQueue, ring, StoredAreItems
  <2> QED  BY <2>1, <2>2, <2>3
<1>13. ASSUME NEW t \in Thread, ReadLength(t) PROVE IInv'
  <2>1. TypeOK'
    BY <1>13 DEF ReadLength, Returned, Unlock, In, TypeOK, Place, ring
  <2>2. (HolderIsInside /\ NoLostWakeup /\ AbortsOnlyClosed /\ PutHasItem)'
    BY <1>13
       DEF ReadLength, Returned, Unlock, In, TypeOK, ring, HolderIsInside, NoLostWakeup, AbortsOnlyClosed, PutHasItem
  <2>3. StoredAreItems'
    BY <1>13 DEF ReadLength, ring, StoredAreItems
  <2> QED  BY <2>1, <2>2, <2>3
<1>14. CASE Next
  <2>1. ASSUME NEW t \in Thread, NEW v \in Item, ~aborted, Call(t, "put", v) PROVE IInv'
    BY <1>2, <2>1 DEF Operation
  <2>2. ASSUME NEW t \in Thread, NEW o \in Operation \ {"put"}, ~aborted, Call(t, o, NULL) PROVE IInv'
    BY <1>2, <2>2
  <2> QED  BY <1>14, <2>1, <2>2, <1>3, <1>4, <1>5, <1>6, <1>7, <1>8, <1>9, <1>10, <1>11, <1>12, <1>13 DEF Next, Step
<1> QED  BY <1>1, <1>14

THEOREM SpecIInv == Spec => []IInv
BY InitIInv, NextIInv, PTL DEF Spec

\* Types, and with them: no get ever returns what malloc left in a slot.
THEOREM TypeCorrect == Spec => []TypeOK
BY SpecIInv, PTL DEF IInv

\* One thread at a time works on the ring, and every path out of a critical
\* section gives the mutex back.
THEOREM MutexCorrect == Spec => []HolderIsInside
BY SpecIInv, PTL DEF IInv

\* Whoever sleeps in pthread_cond_wait has a reason to.
THEOREM WakeupsCorrect == Spec => []NoLostWakeup
BY SpecIInv, PTL DEF IInv

\* No assert about length can fail, whatever is called in whatever order.
THEOREM AssertsCorrect == Spec => []AbortsOnlyClosed
BY SpecIInv, PTL DEF IInv

-----------------------------------------------------------------------------
\* A ring read from its oldest item on is a sequence of items.
LEMMA RingIsSeq ==
    ASSUME NEW n \in Nat, NEW p, NEW b, NEW s,
           \A i \in 1 .. n : b[(p + i - 1) % Capacity] \in Item,
           s = [i \in 1 .. n |-> b[(p + i - 1) % Capacity]]
    PROVE  /\ s \in Seq(Item)
           /\ Len(s) = n
           /\ \A i \in 1 .. n : s[i] = b[(p + i - 1) % Capacity]
<1>1. s \in [1 .. n -> Item]
  OBVIOUS
<1>2. s \in Seq(Item)
  BY <1>1, SeqDef
<1>3. Len(s) \in Nat /\ DOMAIN s = 1 .. Len(s)
  BY <1>2, LenProperties
<1>4. DOMAIN s = 1 .. n
  BY <1>1
<1> QED  BY <1>2, <1>3, <1>4

LEMMA ContentsIsSeq ==
    ASSUME length \in 0 .. Capacity, StoredAreItems
    PROVE  /\ Contents \in Seq(Item)
           /\ Len(Contents) = length
           /\ \A i \in 1 .. length : Contents[i] = buf[(pos + i - 1) % Capacity]
<1>1. length \in Nat
  OBVIOUS
<1> QED  BY <1>1, RingIsSeq DEF Contents, StoredAreItems

LEMMA ContentsIsSeqNext ==
    ASSUME length' \in 0 .. Capacity, StoredAreItems'
    PROVE  /\ Contents' \in Seq(Item)
           /\ Len(Contents') = length'
           /\ \A i \in 1 .. length' : Contents'[i] = buf'[(pos' + i - 1) % Capacity]
<1>1. length' \in Nat
  OBVIOUS
<1> QED  BY <1>1, RingIsSeq DEF Contents, StoredAreItems

\* Storing one behind the newest item appends to the sequence.
LEMMA StoreAppends ==
    ASSUME IInv, IInv', NEW t \in Thread, PutStores(t)
    PROVE  Contents' = Append(Contents, arg[t])
<1>1. /\ pos \in Slot /\ length \in 0 .. Capacity - 1 /\ arg[t] \in Item
      /\ pos' = pos /\ length' = length + 1 /\ buf \in [Slot -> Item \cup {NULL, Garbage}]
  BY DEF IInv, PutStores, In, TypeOK, PutHasItem
<1>2. buf' = [buf EXCEPT ![(pos + length) % Capacity] = arg[t]] /\ (pos + length) % Capacity \in Slot
  <2>1. SlotOf(length) = (pos + length) % Capacity /\ SlotOf(length) \in Slot
    BY <1>1, RingArithmetic DEF SlotOf
  <2> QED  BY <2>1 DEF PutStores
<1>3. Contents \in Seq(Item) /\ Len(Contents) = length
      /\ \A i \in 1 .. length : Contents[i] = buf[(pos + i - 1) % Capacity]
  BY <1>1, ContentsIsSeq DEF IInv
<1>4. Contents' \in Seq(Item) /\ Len(Contents') = length + 1
      /\ \A i \in 1 .. length + 1 : Contents'[i] = buf'[(pos + i - 1) % Capacity]
  BY <1>1, ContentsIsSeqNext DEF IInv, TypeOK
<1>5. Append(Contents, arg[t]) \in Seq(Item) /\ Len(Append(Contents, arg[t])) = length + 1
      /\ \A i \in 1 .. length : Append(Contents, arg[t])[i] = Contents[i]
      /\ Append(Contents, arg[t])[length + 1] = arg[t]
  BY <1>1, <1>3, AppendProperties
<1>6. ASSUME NEW i \in 1 .. length + 1
      PROVE  Contents'[i] = Append(Contents, arg[t])[i]
  <2>1. CASE i = length + 1
    <3>1. pos + i - 1 = pos + length
      BY <1>1, <2>1 DEF Slot
    <3> QED  BY <1>1, <1>2, <1>4, <1>5, <2>1, <3>1
  <2>2. CASE i \in 1 .. length
    <3>1. (pos + i - 1) % Capacity # (pos + length) % Capacity /\ (pos + i - 1) % Capacity \in Slot
      BY <1>1, <2>2, SlotsDiffer
    <3> QED  BY <1>1, <1>2, <1>3, <1>4, <1>5, <2>2, <3>1
  <2>3. i = length + 1 \/ i \in 1 .. length
    BY <1>1
  <2> QED  BY <2>1, <2>2, <2>3
<1> QED  BY <1>4, <1>5, <1>6, SeqEqual

\* Taking from pos removes the head of the sequence.
LEMMA TakeRemovesHead ==
    ASSUME IInv, IInv', NEW t \in Thread, GetTakes(t)
    PROVE  /\ Contents # <<>>
           /\ buf[pos] = Head(Contents)
           /\ Contents' = Tail(Contents)
<1>1. /\ pos \in Slot /\ length \in 1 .. Capacity /\ length' = length - 1
      /\ buf \in [Slot -> Item \cup {NULL, Garbage}] /\ buf' = [buf EXCEPT ![pos] = NULL]
  BY DEF IInv, GetTakes, TypeOK
<1>2. pos' = (pos + 1) % Capacity
  BY <1>1, RingArithmetic DEF GetTakes
<1>3. Contents \in Seq(Item) /\ Len(Contents) = length
      /\ \A i \in 1 .. length : Contents[i] = buf[(pos + i - 1) % Capacity]
  BY <1>1, ContentsIsSeq DEF IInv
<1>4. Contents' \in Seq(Item) /\ Len(Contents') = length - 1
      /\ \A i \in 1 .. length - 1 : Contents'[i] = buf'[(pos' + i - 1) % Capacity]
  BY <1>1, ContentsIsSeqNext DEF IInv, TypeOK
<1>5. Contents # <<>>
  BY <1>1, <1>3
<1>6. buf[pos] = Head(Contents)
  <2>1. (pos + 1 - 1) % Capacity = pos
    BY <1>1 DEF Slot
  <2> QED  BY <1>1, <1>3, <1>5, <2>1
<1>7. Tail(Contents) \in Seq(Item) /\ Len(Tail(Contents)) = length - 1
      /\ \A i \in 1 .. length - 1 : Tail(Contents)[i] = Contents[i + 1]
  BY <1>1, <1>3, <1>5, HeadTailProperties
<1>8. ASSUME NEW i \in 1 .. length - 1
      PROVE  Contents'[i] = Tail(Contents)[i]
  <2>1. i \in 1 .. Capacity - 1 /\ i + 1 \in 1 .. length
    BY <1>1
  <2>2. /\ (pos' + i - 1) % Capacity = (pos + (i + 1) - 1) % Capacity
        /\ (pos + (i + 1) - 1) % Capacity # pos
        /\ (pos + (i + 1) - 1) % Capacity \in Slot
    BY <1>1, <1>2, <2>1, NextSlot
  <2> QED  BY <1>1, <1>3, <1>4, <1>7, <2>1, <2>2
<1>9. Contents' = Tail(Contents)
  BY <1>4, <1>7, <1>8, SeqEqual
<1> QED  BY <1>5, <1>6, <1>9

LEMMA InitRefines == Init => Fifo!Init
<1> SUFFICES ASSUME Init PROVE Fifo!Init
  OBVIOUS
<1>1. Contents = <<>>
  BY DEF Init, Contents
<1> QED  BY <1>1 DEF Init, Fifo!Init

LEMMA StepRefines == IInv /\ IInv' /\ [Next]_vars => [Fifo!Next]_(Fifo!vars)
<1> SUFFICES ASSUME IInv, IInv', [Next]_vars PROVE [Fifo!Next]_(Fifo!vars)
  OBVIOUS
<1>1. ASSUME ring' = ring PROVE Contents' = Contents
  BY <1>1 DEF ring, Contents
<1>2. CASE UNCHANGED vars
  BY <1>1, <1>2 DEF vars, ring, Fifo!vars
<1>3. ASSUME NEW t \in Thread, NEW o, NEW v, ~aborted, Call(t, o, v) PROVE Fifo!Next
  BY <1>1, <1>3 DEF Call, Fifo!Next, Fifo!Request
<1>4. ASSUME NEW t \in Thread,
             Lock(t) \/ SpuriousWakeup(t) \/ PutWaits(t) \/ GetWaits(t) \/ ReadLength(t)
      PROVE  UNCHANGED Fifo!vars
  BY <1>1, <1>4 DEF Lock, SpuriousWakeup, PutWaits, GetWaits, ReadLength, results, Fifo!vars
<1>5. ASSUME NEW t \in Thread, ~aborted, PutChecksOpen(t) PROVE [Fifo!Next]_(Fifo!vars)
  <2>1. ring' = ring /\ closed' = closed /\ got' = got /\ aborted' = closed /\ Contents' = Contents
    BY <1>1, <1>5 DEF PutChecksOpen, results
  <2>2. CASE closed
    BY <1>5, <2>1, <2>2, Zenon DEF Fifo!Next, Fifo!PutOnClosed
  <2>3. CASE ~closed
    <3>1. aborted' = aborted
      BY <1>5, <2>1, <2>3, Zenon DEF IInv, TypeOK
    <3> QED  BY <2>1, <3>1 DEF Fifo!vars
  <2> QED  BY <2>2, <2>3
<1>6. ASSUME NEW t \in Thread, ~aborted, PutFails(t) PROVE Fifo!Next
  <2>1. closed
    BY <1>6 DEF PutFails, IInv, TypeOK
  <2> QED  BY <1>1, <1>6, <2>1 DEF PutFails, results, Fifo!Next, Fifo!PutOnClosed
<1>7. ASSUME NEW t \in Thread, ~aborted, PutStores(t) PROVE Fifo!Next
  <2>1. arg[t] \in Item /\ ~closed /\ length < Capacity
    BY <1>7 DEF IInv, PutHasItem, PutStores, In
  <2>2. Len(Contents) < Capacity
    BY <2>1, ContentsIsSeq DEF IInv, TypeOK
  <2>3. Fifo!Accept(arg[t])
    BY <1>7, <2>1, <2>2, StoreAppends DEF PutStores, results, Fifo!Accept
  <2> QED  BY <1>7, <2>1, <2>3 DEF Fifo!Next
<1>8. ASSUME NEW t \in Thread, ~aborted, GetReturnsNull(t) PROVE Fifo!Next
  <2>1. Contents = <<>>
    BY <1>8 DEF GetReturnsNull, Contents
  <2>2. Fifo!EndOfItems(t)
    BY <1>1, <1>8, <2>1 DEF GetReturnsNull, Fifo!EndOfItems
  <2> QED  BY <1>8, <2>2 DEF Fifo!Next
<1>9. ASSUME NEW t \in Thread, ~aborted, GetTakes(t) PROVE Fifo!Next
  <2>1. closed' = closed /\ got' = [got EXCEPT ![t] = buf[pos]]
    BY <1>9 DEF GetTakes
  <2>2. length <= Capacity
    BY DEF IInv, TypeOK
  <2>3. aborted' = aborted
    BY <1>9, <2>2, Zenon DEF GetTakes, IInv, TypeOK
  <2>4. Fifo!Deliver(t)
    BY <1>9, <2>1, <2>3, TakeRemovesHead DEF Fifo!Deliver
  <2> QED  BY <1>9, <2>4 DEF Fifo!Next
<1>10. ASSUME NEW t \in Thread, ~aborted, CloseQueue(t) PROVE Fifo!Next
  BY <1>1, <1>10 DEF CloseQueue, results, Fifo!Next, Fifo!Close
<1>11. CASE Next
  BY <1>3, <1>4, <1>5, <1>6, <1>7, <1>8, <1>9, <1>10, <1>11 DEF Next, Step
<1> QED  BY <1>2, <1>11

\* The locked ring buffer implements the closable first-in first-out channel:
\* calls take effect one at a time, in the order of the channel.
THEOREM QueueIsFifo == Spec => RefinesFifo
BY InitRefines, StepRefines, SpecIInv, PTL DEF Spec, RefinesFifo, Fifo!Spec

\* Once a closed queue has run empty nothing ever comes out of it again.
THEOREM DrainedStaysDrained == Spec => DrainedForever
<1>1. IInv /\ [Next]_vars => [closed /\ length = 0 => closed' /\ length' = 0]_vars
  <2> SUFFICES ASSUME IInv, Next, closed, length = 0 PROVE closed' /\ length' = 0
    BY Zenon
  <2>1. PICK t \in Thread :
            \/ \E o, v : Call(t, o, v)
            \/ Step(t)
            \/ SpuriousWakeup(t)
    BY DEF Next
  <2>2. ~PutStores(t) /\ ~GetTakes(t)
    BY DEF PutStores, GetTakes
  <2> QED  BY <2>1, <2>2
       DEF Step, Call, SpuriousWakeup, Lock, PutChecksOpen, PutWaits, PutFails, GetWaits,
           GetReturnsNull, CloseQueue, ReadLength, ring
<1> QED  BY <1>1, SpecIInv, PTL DEF Spec, DrainedForever

\* Nobody is kept out or asleep without a reason.
THEOREM QueueLetsIn == Spec => []NobodyStuck
<1>1. IInv => NobodyStuck
  BY DEF IInv, NobodyStuck
<1> QED BY <1>1, SpecIInv, PTL
=============================================================================
