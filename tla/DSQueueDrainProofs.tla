-------------------------- MODULE DSQueueDrainProofs --------------------------
(***************************************************************************)
(* The documented life of a queue, for every number of producers and        *)
(* consumers, whatever they send and however large the ring is: nothing is  *)
(* lost, doubled or reordered, and the end is safe.                         *)
(***************************************************************************)
EXTENDS DSQueueDrain, DSQueueProofs, FiniteSetTheorems

-----------------------------------------------------------------------------
\* Every thread keeps to its part.
PartsKept ==
    /\ pc[Owner] # "idle" => op[Owner] = "close"
    /\ \A p \in Producer : pc[p] # "idle" => op[p] = "put"
    /\ \A c \in Consumer : pc[c] # "idle" => op[c] = "get" /\ c \in asking
    /\ asking \subseteq Consumer /\ finished \subseteq Consumer
    /\ asking \cap finished = {}

\* The owner closes behind the last put, and frees behind the last get.
InOrder ==
    /\ ~aborted
    /\ closed \/ pc[Owner] # "idle" => \A p \in Producer : todo[p] = <<>> /\ pc[p] = "idle"
    /\ freed => closed /\ pc[Owner] = "idle" /\ finished = Consumer

\* How many of its items each producer has begun to put.
Begun == [p \in Producer |-> Len(Sends[p]) - Len(todo[p])]

\* A producer works through its items one by one.
SendsInTurn ==
    /\ todo \in [Producer -> Seq(Item)]
    /\ \A p \in Producer :
        /\ Len(todo[p]) <= Len(Sends[p])
        /\ \A i \in 1 .. Len(todo[p]) : todo[p][i] = Sends[p][Begun[p] + i]
        /\ arg[p] # NULL => Begun[p] > 0 /\ arg[p] = Sends[p][Begun[p]]
        /\ pc[p] = "idle" => arg[p] = NULL

\* A get has nothing in its hands before it returns.
HandsEmpty == \A c \in Consumer : pc[c] # "idle" => got[c] = NULL

\* What a consumer has got and not handled yet.
InHand == [c \in Consumer |-> IF c \in asking THEN got[c] ELSE NULL]

\* What the producers have brought into the ring.
Out ==
    {v \in Item : \E p \in Producer : \E m \in 1 .. Begun[p] : v = Sends[p][m] /\ v # arg[p]}

\* It is there still, or with a consumer, and nothing else is.
NothingLost ==
    /\ handled \in [Consumer -> Seq(Item)]
    /\ \A c \in Consumer : \A i \in 1 .. Len(handled[c]) : handled[c][i] \in Out
    /\ \A i \in 1 .. length : Contents[i] \in Out
    /\ \A c \in Consumer : InHand[c] \in Out \cup {NULL}
    /\ \A v \in Out :
        \/ \E i \in 1 .. length : Contents[i] = v
        \/ \E c \in Consumer : InHand[c] = v
        \/ \E c \in Consumer : \E i \in 1 .. Len(handled[c]) : handled[c][i] = v

\* Of two items of one producer, v was put before w.
Precedes(v, w) ==
    \A p \in Producer : \A m, n \in 1 .. Len(Sends[p]) :
        v = Sends[p][m] /\ w = Sends[p][n] => m < n

\* What a consumer has handled was put before what it holds, and that before
\* what is in the ring.
OrderKept ==
    /\ \A i, j \in 1 .. length : i < j => Precedes(Contents[i], Contents[j])
    /\ \A c \in Consumer : InHand[c] # NULL =>
            \A i \in 1 .. length : Precedes(InHand[c], Contents[i])
    /\ \A c \in Consumer : \A i \in 1 .. Len(handled[c]) :
        /\ \A j \in 1 .. length : Precedes(handled[c][i], Contents[j])
        /\ InHand[c] # NULL => Precedes(handled[c][i], InHand[c])
        /\ \A j \in 1 .. Len(handled[c]) : i < j => Precedes(handled[c][i], handled[c][j])

\* No two consumers get the same item.
NothingShared ==
    \A c, d \in Consumer : c # d =>
        /\ InHand[c] # NULL => InHand[c] # InHand[d]
        /\ \A i \in 1 .. Len(handled[c]) :
            /\ handled[c][i] # InHand[d]
            /\ \A j \in 1 .. Len(handled[d]) : handled[c][i] # handled[d][j]

DInv ==
    /\ IInv /\ PartsKept /\ InOrder /\ SendsInTurn /\ HandsEmpty
    /\ NothingLost /\ OrderKept /\ NothingShared

-----------------------------------------------------------------------------
\* A step of the drain is a step of the queue, or one its client takes alone.
LEMMA DrainUsesQueue == PartsKept /\ SendsInTurn /\ [DrainNext]_drainVars => [Next]_vars
<1> SUFFICES ASSUME PartsKept, SendsInTurn, DrainNext PROVE [Next]_vars
  BY DEF drainVars
<1>1. ~aborted
  BY DEF DrainNext, Running
<1>2. PICK t \in Thread : OwnSteps(t) \/ InQueue(t) \/ SpuriousWakeup(t)
  BY DEF DrainNext
<1>3. CASE OwnSteps(t)
  <2>1. CASE t \in Producer /\ Produce(t)
    <3>1. Head(todo[t]) \in Item
      BY <2>1 DEF Produce, SendsInTurn
    <3> QED  BY <1>1, <2>1, <3>1 DEF Produce, Next
  <2>2. CASE t \in Consumer /\ Ask(t)
    BY <1>1, <2>2 DEF Ask, Next, Operation
  <2>3. CASE Handle(t) \/ Free
    BY <2>3 DEF Handle, Free
  <2>4. CASE CloseWhenSent /\ t = Owner
    BY <1>1, <2>4 DEF CloseWhenSent, Next, Operation
  <2> QED  BY <1>3, <2>1, <2>2, <2>3, <2>4 DEF OwnSteps
<1>4. CASE InQueue(t) \/ SpuriousWakeup(t)
  BY <1>1, <1>4 DEF InQueue, Next
<1> QED  BY <1>2, <1>3, <1>4

\* What a step inside the queue leaves to the thread that takes it.
LEMMA InsideStep ==
    ASSUME IInv, NEW t \in Thread, Step(t) \/ SpuriousWakeup(t)
    PROVE  /\ pc[t] # "idle" /\ op' = op
           /\ \A u \in Thread : pc'[u] # "idle" => pc[u] # "idle"
           /\ \A u \in Thread : u # t => arg'[u] = arg[u] /\ got'[u] = got[u]
<1> USE DEF IInv, TypeOK
<1>1. CASE Lock(t) \/ SpuriousWakeup(t)
  BY <1>1 DEF Lock, SpuriousWakeup, results
<1>2. CASE PutChecksOpen(t) \/ PutWaits(t) \/ PutFails(t)
  BY <1>2 DEF PutChecksOpen, PutWaits, PutFails, In, results
<1>3. CASE GetWaits(t) \/ GetReturnsNull(t) \/ ReadLength(t)
  BY <1>3 DEF GetWaits, GetReturnsNull, ReadLength, Returned, In, results
<1>4. CASE PutStores(t)
  BY <1>4, ReturnWakes DEF PutStores, In, results
<1>5. CASE GetTakes(t)
  BY <1>5, ReturnWakes DEF GetTakes, In
<1>6. CASE CloseQueue(t)
  BY <1>6, ReturnWakes DEF CloseQueue, In, results
<1> QED  BY <1>1, <1>2, <1>3, <1>4, <1>5, <1>6 DEF Step

LEMMA PartsStep == IInv /\ PartsKept /\ [DrainNext]_drainVars => PartsKept'
<1> SUFFICES ASSUME IInv, PartsKept, [DrainNext]_drainVars PROVE PartsKept'
  OBVIOUS
<1>0. /\ Owner \in Thread /\ Owner \notin Producer \cup Consumer
      /\ Producer \subseteq Thread /\ Consumer \subseteq Thread /\ Producer \cap Consumer = {}
      /\ pc \in [Thread -> Place] /\ op \in [Thread -> Operation]
  BY ClientAssumption DEF IInv, TypeOK
<1>1. CASE UNCHANGED drainVars
  BY <1>1 DEF drainVars, vars, client, PartsKept
<1>2. ASSUME NEW p \in Producer, Produce(p) PROVE PartsKept'
  BY <1>0, <1>2 DEF Produce, Call, PartsKept
<1>3. ASSUME NEW c \in Consumer, Ask(c) PROVE PartsKept'
  BY <1>0, <1>3 DEF Ask, Call, PartsKept
<1>4. ASSUME NEW c \in Consumer, Handle(c) PROVE PartsKept'
  BY <1>0, <1>4 DEF Handle, vars, PartsKept
<1>5. CASE CloseWhenSent
  BY <1>0, <1>5 DEF CloseWhenSent, Call, client, PartsKept
<1>6. CASE Free
  BY <1>6 DEF Free, vars, PartsKept
<1>7. ASSUME NEW t \in Thread, InQueue(t) \/ (SpuriousWakeup(t) /\ UNCHANGED client) PROVE PartsKept'
  BY <1>0, <1>7, InsideStep DEF InQueue, client, PartsKept
<1> QED  BY <1>1, <1>2, <1>3, <1>4, <1>5, <1>6, <1>7 DEF DrainNext, OwnSteps

LEMMA InOrderStep == IInv /\ PartsKept /\ InOrder /\ [DrainNext]_drainVars => InOrder'
<1> SUFFICES ASSUME IInv, PartsKept, InOrder, [DrainNext]_drainVars PROVE InOrder'
  OBVIOUS
<1>0. /\ Owner \in Thread /\ Owner \notin Producer \cup Consumer
      /\ Producer \subseteq Thread /\ Consumer \subseteq Thread /\ Producer \cap Consumer = {}
      /\ pc \in [Thread -> Place] /\ closed \in BOOLEAN
  BY ClientAssumption DEF IInv, TypeOK
<1>1. CASE UNCHANGED drainVars
  BY <1>1 DEF drainVars, vars, client, InOrder
<1>2. ASSUME NEW p \in Producer, Produce(p), ~freed PROVE InOrder'
  BY <1>0, <1>2 DEF Produce, Call, InOrder
<1>3. ASSUME NEW c \in Consumer, Ask(c), ~freed PROVE InOrder'
  BY <1>0, <1>3 DEF Ask, Call, InOrder
<1>4. ASSUME NEW c \in Consumer, Handle(c), ~freed PROVE InOrder'
  BY <1>4 DEF Handle, vars, InOrder
<1>5. CASE CloseWhenSent /\ ~freed
  BY <1>0, <1>5 DEF CloseWhenSent, Call, client, InOrder
<1>6. CASE Free
  BY <1>6 DEF Free, vars, InOrder
<1>7. ASSUME NEW t \in Thread, ~freed, Step(t) \/ SpuriousWakeup(t), UNCHANGED client PROVE InOrder'
  <2>1. /\ ~freed' /\ todo' = todo
        /\ \A u \in Thread : pc'[u] # "idle" => pc[u] # "idle"
        /\ pc[t] # "idle"
    BY <1>0, <1>7, InsideStep DEF client
  <2>2. closed' => closed \/ pc[Owner] # "idle"
    <3>1. CASE CloseQueue(t)
      BY ClientAssumption, <1>0, <2>1, <3>1 DEF CloseQueue, In, PartsKept
    <3>2. CASE ~CloseQueue(t)
      BY <1>7, <3>2
         DEF Step, SpuriousWakeup, Lock, PutChecksOpen, PutWaits, PutFails, PutStores, GetWaits,
             GetReturnsNull, GetTakes, ReadLength
    <3> QED  BY <3>1, <3>2
  <2>3. ~aborted'
    <3>1. CASE PutChecksOpen(t) \/ PutFails(t)
      <4>1. op[t] = "put"
        BY <3>1 DEF PutChecksOpen, PutFails, In
      <4>2. t \in Producer
        BY ClientAssumption, <1>0, <2>1, <4>1 DEF PartsKept
      <4>3. ~closed
        BY <2>1, <4>2 DEF InOrder
      <4>4. length <= Capacity /\ length \in Nat /\ Capacity \in Nat
        BY CapacityAssumption DEF IInv, TypeOK
      <4>5. ~PutFails(t)
        BY <4>3, <4>4 DEF PutFails
      <4> QED  BY <3>1, <4>3, <4>5, Zenon DEF PutChecksOpen
    <3>2. CASE GetTakes(t)
      <4>1. length <= Capacity
        BY DEF IInv, TypeOK
      <4> QED  BY <3>2, <4>1, Zenon DEF GetTakes
    <3>3. CASE ~(PutChecksOpen(t) \/ PutFails(t) \/ GetTakes(t))
      BY <1>7, <3>3
         DEF InOrder, Step, SpuriousWakeup, Lock, PutWaits, PutStores, GetWaits,
             GetReturnsNull, CloseQueue, ReadLength
    <3> QED  BY <3>1, <3>2, <3>3
  <2> QED  BY <1>0, <2>1, <2>2, <2>3 DEF InOrder
<1>8. CASE DrainNext
  BY <1>2, <1>3, <1>4, <1>5, <1>6, <1>7, <1>8 DEF DrainNext, Running, OwnSteps, InQueue
<1> QED  BY <1>1, <1>8

LEMMA DrainStarts == DrainInit => IInv /\ PartsKept /\ InOrder
<1> SUFFICES ASSUME DrainInit PROVE IInv /\ PartsKept /\ InOrder
  OBVIOUS
<1>1. IInv
  BY InitIInv DEF DrainInit
<1>2. PartsKept /\ InOrder
  BY ClientAssumption DEF DrainInit, Init, PartsKept, InOrder
<1> QED  BY <1>1, <1>2

-----------------------------------------------------------------------------
\* An item that is sent is sent by one producer, once.
LEMMA SentOnce ==
    ASSUME NEW p \in Producer, NEW q \in Producer,
           NEW m \in 1 .. Len(Sends[p]), NEW n \in 1 .. Len(Sends[q]), Sends[p][m] = Sends[q][n]
    PROVE  p = q /\ m = n
BY ClientAssumption

\* Where each producer stands.
LEMMA BegunRange ==
    ASSUME SendsInTurn, NEW p \in Producer
    PROVE  /\ todo[p] \in Seq(Item) /\ Len(todo[p]) \in Nat /\ Len(Sends[p]) \in Nat
           /\ Begun[p] \in Nat /\ Begun[p] <= Len(Sends[p])
           /\ Begun[p] + Len(todo[p]) = Len(Sends[p])
           /\ \A m \in 1 .. Len(Sends[p]) : Sends[p][m] \in Item
BY ClientAssumption DEF SendsInTurn, Begun

\* Producing takes the head of what is left.
LEMMA ProduceTakes ==
    ASSUME SendsInTurn, NEW p \in Producer, Produce(p), arg \in [Thread -> Item \cup {NULL}]
    PROVE  /\ todo' \in [Producer -> Seq(Item)]
           /\ \A q \in Producer : q # p => todo'[q] = todo[q]
           /\ Len(todo'[p]) = Len(todo[p]) - 1
           /\ \A i \in 1 .. Len(todo'[p]) : todo'[p][i] = todo[p][i + 1]
           /\ Begun'[p] = Begun[p] + 1
           /\ Begun'[p] <= Len(Sends[p])
           /\ arg'[p] = Sends[p][Begun'[p]]
           /\ arg[p] = NULL
           /\ \A q \in Producer : q # p => arg'[q] = arg[q] /\ Begun'[q] = Begun[q]
<1>1. /\ todo[p] \in Seq(Item) /\ todo[p] # <<>> /\ todo' = [todo EXCEPT ![p] = Tail(@)]
      /\ arg' = [arg EXCEPT ![p] = Head(todo[p])] /\ pc[p] = "idle" /\ p \in Thread
      /\ todo \in [Producer -> Seq(Item)]
  BY ClientAssumption DEF SendsInTurn, Produce, Call
<1>2. /\ Tail(todo[p]) \in Seq(Item) /\ Len(Tail(todo[p])) = Len(todo[p]) - 1
      /\ \A i \in 1 .. Len(Tail(todo[p])) : Tail(todo[p])[i] = todo[p][i + 1]
      /\ Head(todo[p]) = todo[p][1]
  BY <1>1, HeadTailProperties
<1>3. Len(todo[p]) \in Nat /\ Len(todo[p]) > 0
  BY <1>1
<1>4. todo'[p] = Tail(todo[p]) /\ \A q \in Producer : q # p => todo'[q] = todo[q]
  BY <1>1
<1>5. todo' \in [Producer -> Seq(Item)]
  BY <1>1, <1>2
<1>6. arg'[p] = todo[p][1] /\ \A q \in Producer : q # p => arg'[q] = arg[q]
  BY <1>1, <1>2
<1>7. arg[p] = NULL /\ todo[p][1] = Sends[p][Begun[p] + 1]
  BY <1>1, <1>3 DEF SendsInTurn
<1>8. Begun'[p] = Begun[p] + 1 /\ \A q \in Producer : q # p => Begun'[q] = Begun[q]
  <2>1. \A q \in Producer : Len(todo[q]) \in Nat /\ Len(Sends[q]) \in Nat
    BY BegunRange
  <2>2. Len(todo'[p]) = Len(todo[p]) - 1
    BY <1>2, <1>4
  <2>3. Begun[p] = Len(Sends[p]) - Len(todo[p]) /\ Begun'[p] = Len(Sends[p]) - Len(todo'[p])
    BY DEF Begun
  <2>4. \A q \in Producer : q # p => Begun'[q] = Begun[q]
    BY <1>4 DEF Begun
  <2> QED  BY <2>1, <2>2, <2>3, <2>4
<1>9. Begun[p] + 1 <= Len(Sends[p])
  BY <1>3, BegunRange
<1> QED  BY <1>2, <1>4, <1>5, <1>6, <1>7, <1>8, <1>9

LEMMA SendsInTurnStep ==
    IInv /\ PartsKept /\ SendsInTurn /\ [DrainNext]_drainVars => SendsInTurn'
<1> SUFFICES ASSUME IInv, PartsKept, SendsInTurn, [DrainNext]_drainVars PROVE SendsInTurn'
  OBVIOUS
<1>0. /\ Owner \in Thread /\ Owner \notin Producer \cup Consumer
      /\ Producer \subseteq Thread /\ Consumer \subseteq Thread /\ Producer \cap Consumer = {}
      /\ pc \in [Thread -> Place] /\ arg \in [Thread -> Item \cup {NULL}]
  BY ClientAssumption DEF IInv, TypeOK
<1>1. ASSUME todo' = todo, \A p \in Producer : arg'[p] \in {arg[p], NULL},
             \A p \in Producer : pc'[p] = "idle" => pc[p] = "idle" \/ arg'[p] = NULL
      PROVE  SendsInTurn'
  BY <1>1 DEF SendsInTurn, Begun
<1>2. ASSUME NEW p \in Producer, Produce(p) PROVE SendsInTurn'
  <2>7. /\ todo' \in [Producer -> Seq(Item)]
        /\ \A q \in Producer : q # p => todo'[q] = todo[q]
        /\ Len(todo'[p]) = Len(todo[p]) - 1
        /\ \A i \in 1 .. Len(todo'[p]) : todo'[p][i] = todo[p][i + 1]
        /\ Begun'[p] = Begun[p] + 1
        /\ Begun'[p] <= Len(Sends[p])
        /\ arg'[p] = Sends[p][Begun'[p]]
        /\ \A q \in Producer : q # p => arg'[q] = arg[q] /\ Begun'[q] = Begun[q]
    BY <1>0, <1>2, ProduceTakes
  <2>8. \A q \in Producer : Len(todo[q]) \in Nat /\ Len(Sends[q]) \in Nat /\ Begun[q] \in Nat
    BY BegunRange
  <2>1. \A q \in Producer : q # p => pc'[q] = pc[q]
    BY <1>0, <1>2 DEF Produce, Call
  <2>2. pc'[p] = "lock"
    BY <1>0, <1>2 DEF Produce, Call
  <2>3. ASSUME NEW q \in Producer PROVE Len(todo'[q]) <= Len(Sends[q])
    <3>1. Len(todo[q]) <= Len(Sends[q]) /\ Len(todo[q]) \in Nat /\ Len(Sends[q]) \in Nat
      BY <2>8 DEF SendsInTurn
    <3>2. CASE q = p
      <4>1. Len(todo'[q]) = Len(todo[q]) - 1
        BY <2>7, <3>2
      <4> QED  BY <3>1, <4>1
    <3>3. CASE q # p
      <4>1. todo'[q] = todo[q]
        BY <2>7, <3>3
      <4> QED  BY <3>1, <4>1
    <3> QED  BY <3>2, <3>3
  <2>4. ASSUME NEW q \in Producer, NEW i \in 1 .. Len(todo'[q])
        PROVE  todo'[q][i] = Sends[q][Begun'[q] + i]
    <3>1. CASE q = p
      <4>1. i \in Nat /\ i >= 1 /\ i <= Len(todo[p]) - 1 /\ Len(todo[p]) \in Nat /\ Begun[p] \in Nat
        BY <2>7, <2>4, <2>8, <3>1
      <4>2. i + 1 \in 1 .. Len(todo[p]) /\ Begun[p] + (i + 1) = Begun[p] + 1 + i
        BY <4>1
      <4>3. todo'[p][i] = todo[p][i + 1] /\ Begun'[p] = Begun[p] + 1
        BY <2>7, <2>4, <3>1
      <4>4. todo[p][i + 1] = Sends[p][Begun[p] + (i + 1)]
        BY <4>2 DEF SendsInTurn
      <4>5. todo'[p][i] = Sends[p][Begun'[p] + i]
        BY <4>2, <4>3, <4>4
      <4> QED  BY <3>1, <4>5
    <3>2. CASE q # p
      <4>1. todo'[q] = todo[q] /\ Begun'[q] = Begun[q] /\ i \in 1 .. Len(todo[q])
        BY <2>7, <2>4, <3>2
      <4>2. todo[q][i] = Sends[q][Begun[q] + i]
        BY <4>1 DEF SendsInTurn
      <4> QED  BY <4>1, <4>2
    <3> QED  BY <3>1, <3>2
  <2>5. ASSUME NEW q \in Producer, arg'[q] # NULL
        PROVE  Begun'[q] > 0 /\ arg'[q] = Sends[q][Begun'[q]]
    <3>1. CASE q = p
      BY <2>7, <2>8, <3>1
    <3>2. CASE q # p
      BY <2>5, <2>7, <3>2 DEF SendsInTurn
    <3> QED  BY <3>1, <3>2
  <2>6. \A q \in Producer : pc'[q] = "idle" => arg'[q] = NULL
    BY <2>7, <2>1, <2>2 DEF SendsInTurn
  <2> QED  BY <2>7, <2>3, <2>4, <2>5, <2>6 DEF SendsInTurn
<1>3. CASE UNCHANGED drainVars \/ Free \/ \E c \in Consumer : Handle(c)
  BY <1>1, <1>3 DEF drainVars, vars, client, Free, Handle
<1>4. CASE CloseWhenSent \/ \E c \in Consumer : Ask(c)
  BY <1>0, <1>1, <1>4 DEF CloseWhenSent, Ask, Call, client
<1>5. ASSUME NEW t \in Thread, Step(t) \/ SpuriousWakeup(t), UNCHANGED client PROVE SendsInTurn'
  <2>1. \A p \in Producer : arg'[p] \in {arg[p], NULL}
    BY <1>0, <1>5
       DEF Step, SpuriousWakeup, Lock, PutChecksOpen, PutWaits, PutFails, PutStores, GetWaits,
           GetReturnsNull, GetTakes, CloseQueue, ReadLength
  <2>2. ASSUME NEW p \in Producer, pc'[p] = "idle", pc[p] # "idle" PROVE arg'[p] = NULL
    <3>1. op[p] = "put"
      BY <1>0, <2>2 DEF PartsKept
    <3>2. CASE PutStores(t)
      <4>1. \A u \in Thread : u # t => pc'[u] # "idle" \/ pc[u] = "idle"
        BY <1>0, <3>2 DEF PutStores, Broadcast, Returned
      <4> QED  BY <1>0, <2>2, <3>2, <4>1 DEF PutStores
    <3>3. CASE GetTakes(t) \/ CloseQueue(t)
      <4>1. op[t] # "put"
        BY <3>3 DEF GetTakes, CloseQueue, In
      <4>2. \A u \in Thread : u # t => pc'[u] # "idle" \/ pc[u] = "idle"
        BY <1>0, <3>3 DEF GetTakes, CloseQueue, Broadcast, Returned
      <4> QED  BY <1>0, <2>2, <3>1, <4>1, <4>2
    <3>4. CASE GetReturnsNull(t) \/ ReadLength(t)
      BY <1>0, <2>2, <3>1, <3>4 DEF GetReturnsNull, ReadLength, In, Returned
    <3>5. CASE Lock(t) \/ SpuriousWakeup(t) \/ PutChecksOpen(t) \/ PutWaits(t) \/ PutFails(t) \/ GetWaits(t)
      BY <1>0, <2>2, <3>5 DEF Lock, SpuriousWakeup, PutChecksOpen, PutWaits, PutFails, GetWaits
    <3> QED  BY <1>5, <3>2, <3>3, <3>4, <3>5 DEF Step
  <2> QED  BY <1>1, <1>5, <2>1, <2>2 DEF client
<1> QED  BY <1>2, <1>3, <1>4, <1>5 DEF DrainNext, OwnSteps, InQueue

-----------------------------------------------------------------------------
\* An item that is out and precedes another is not that item.
LEMMA PrecedesIsStrict ==
    ASSUME SendsInTurn, NEW v \in Out, NEW w, Precedes(v, w)
    PROVE  v # w
<1>1. PICK p \in Producer : \E m \in 1 .. Begun[p] : v = Sends[p][m]
  BY DEF Out
<1>2. PICK m \in 1 .. Len(Sends[p]) : v = Sends[p][m] /\ m \in Nat
  BY <1>1, BegunRange
<1> QED  BY <1>2 DEF Precedes

\* The item a put carries comes behind all that is out.
LEMMA PutIsLast ==
    ASSUME SendsInTurn, NEW p \in Producer, arg[p] # NULL
    PROVE  /\ arg[p] \in Item /\ arg[p] \notin Out
           /\ \A v \in Out : Precedes(v, arg[p])
<1>1. /\ Begun[p] \in Nat /\ Begun[p] > 0 /\ Begun[p] <= Len(Sends[p]) /\ Len(Sends[p]) \in Nat
      /\ arg[p] = Sends[p][Begun[p]]
  BY BegunRange DEF SendsInTurn
<1>2. Begun[p] \in 1 .. Len(Sends[p])
  BY <1>1
<1>3. arg[p] \in Item
  BY <1>1, <1>2, BegunRange
<1>4. ASSUME NEW q \in Producer, NEW m \in 1 .. Begun[q], arg[p] = Sends[q][m]
      PROVE  p = q
  <2>1. m \in 1 .. Len(Sends[q])
    BY BegunRange
  <2> QED  BY <1>1, <1>2, <1>4, <2>1, SentOnce
<1>5. arg[p] \notin Out
  BY <1>4 DEF Out
<1>6. ASSUME NEW v \in Out, NEW q \in Producer, NEW m \in 1 .. Len(Sends[q]), NEW n \in 1 .. Len(Sends[q]),
             v = Sends[q][m], arg[p] = Sends[q][n]
      PROVE  m < n
  <2>1. q = p /\ n = Begun[p]
    <3>1. Sends[q][n] = Sends[p][Begun[p]]
      BY <1>1, <1>6
    <3> QED  BY <1>2, <1>6, <3>1, SentOnce
  <2>2. PICK r \in Producer : \E k \in 1 .. Begun[r] : v = Sends[r][k] /\ v # arg[r]
    BY DEF Out
  <2>3. PICK k \in 1 .. Begun[r] : v = Sends[r][k] /\ v # arg[r] /\ k \in 1 .. Len(Sends[r])
    BY <2>2, BegunRange
  <2>4. r = q /\ k = m
    <3>1. Sends[r][k] = Sends[q][m]
      BY <1>6, <2>3
    <3>2. k \in 1 .. Len(Sends[r]) /\ m \in 1 .. Len(Sends[q])
      BY <1>6, <2>3
    <3> QED  BY <3>1, <3>2, SentOnce
  <2>5. m # Begun[p] /\ m \in 1 .. Begun[p]
    BY <1>1, <2>1, <2>3, <2>4
  <2> QED  BY <1>1, <2>1, <2>5
<1>7. \A v \in Out : Precedes(v, arg[p])
  BY <1>6 DEF Precedes
<1> QED  BY <1>3, <1>5, <1>7

\* What is out depends on the producers alone.
LEMMA OutStays ==
    ASSUME todo' = todo, \A p \in Producer : arg'[p] = arg[p]
    PROVE  Out' = Out
BY DEF Out, Begun

\* A put that begins brings nothing out yet.
LEMMA OutOnProduce ==
    ASSUME SendsInTurn, NEW p \in Producer, Produce(p), arg \in [Thread -> Item \cup {NULL}]
    PROVE  Out' = Out
<1>1. /\ Begun'[p] = Begun[p] + 1 /\ Begun[p] \in Nat
      /\ Begun'[p] <= Len(Sends[p]) /\ Len(Sends[p]) \in Nat
      /\ arg'[p] = Sends[p][Begun'[p]] /\ arg[p] = NULL
      /\ \A q \in Producer : q # p => arg'[q] = arg[q] /\ Begun'[q] = Begun[q]
  BY ProduceTakes, BegunRange
<1>2. ASSUME NEW v \in Item, NEW q \in Producer
      PROVE  (\E m \in 1 .. Begun'[q] : v = Sends[q][m] /\ v # arg'[q])
                 <=> (\E m \in 1 .. Begun[q] : v = Sends[q][m] /\ v # arg[q])
  <2>1. CASE q # p
    BY <1>1, <2>1
  <2>2. CASE q = p
    <3>1. \A m \in 1 .. Begun[p] + 1 : m \in 1 .. Begun[p] \/ m = Begun[p] + 1
      BY <1>1
    <3>2. \A m \in 1 .. Begun[p] : m \in 1 .. Begun[p] + 1 /\ m # Begun[p] + 1 /\ m \in 1 .. Len(Sends[p])
      BY <1>1
    <3>3. Begun[p] + 1 \in 1 .. Len(Sends[p])
      BY <1>1
    <3>4. \A m \in 1 .. Begun[p] : Sends[p][m] # arg'[p]
      BY <1>1, <3>2, <3>3, SentOnce
    <3>5. v # NULL
      BY NullAssumption
    <3> QED  BY <1>1, <2>2, <3>1, <3>2, <3>4, <3>5
  <2> QED  BY <2>1, <2>2
<1>3. Out' = {v \in Item : \E q \in Producer : \E m \in 1 .. Begun'[q] : v = Sends[q][m] /\ v # arg'[q]}
  BY DEF Out
<1> QED  BY <1>2, <1>3 DEF Out

\* A put that stores brings its item out.
LEMMA OutOnStore ==
    ASSUME SendsInTurn, NEW p \in Producer, arg[p] # NULL, todo' = todo, arg'[p] = NULL,
           \A q \in Producer : q # p => arg'[q] = arg[q]
    PROVE  Out' = Out \cup {arg[p]}
<1>1. /\ Begun[p] \in Nat /\ Begun[p] > 0 /\ arg[p] = Sends[p][Begun[p]] /\ arg[p] \in Item
  BY BegunRange, PutIsLast DEF SendsInTurn
<1>2. Begun' = Begun
  BY DEF Begun
<1>3. Out' = {v \in Item : \E q \in Producer : \E m \in 1 .. Begun[q] : v = Sends[q][m] /\ v # arg'[q]}
  BY <1>2 DEF Out
<1>4. ASSUME NEW v \in Item, NEW q \in Producer, NEW m \in 1 .. Begun[q], v = Sends[q][m], v # arg'[q]
      PROVE  v \in Out \cup {arg[p]}
  BY <1>4 DEF Out
<1>5. ASSUME NEW v \in Out PROVE v \in Out'
  <2>1. \E q \in Producer : \E m \in 1 .. Begun[q] : v = Sends[q][m] /\ v # arg[q]
    BY DEF Out
  <2>2. v \in Item /\ v # NULL
    BY NullAssumption DEF Out
  <2> QED  BY <1>3, <2>1, <2>2
<1>6. arg[p] \in Out'
  <2>1. Begun[p] \in 1 .. Begun[p]
    BY <1>1
  <2> QED  BY <1>1, <1>3, <2>1
<1> QED  BY <1>3, <1>4, <1>5, <1>6

-----------------------------------------------------------------------------
RingSide == NothingLost /\ OrderKept /\ NothingShared

\* Whatever leaves the items where they are.
LEMMA RingSideStays ==
    ASSUME RingSide, Contents' = Contents, length' = length,
           InHand' = InHand, handled' = handled, Out' = Out
    PROVE  RingSide'
BY DEF RingSide, NothingLost, OrderKept, NothingShared

\* A put stores an item behind all that is out.
LEMMA RingSideOnStore ==
    ASSUME RingSide, Contents \in Seq(Item), Len(Contents) = length, length' = length + 1,
           NEW v \in Item, \A x \in Out : Precedes(x, v),
           Contents' = Append(Contents, v), Out' = Out \cup {v},
           InHand' = InHand, handled' = handled
    PROVE  RingSide'
<1>1. length \in Nat
  OBVIOUS
<1>2. /\ \A i \in 1 .. length : Contents'[i] = Contents[i]
      /\ Contents'[length + 1] = v
  BY AppendProperties
<1>3. \A i \in 1 .. length' : i \in 1 .. length \/ i = length + 1
  BY <1>1
<1>4. 1 .. length \subseteq 1 .. length' /\ length + 1 \in 1 .. length'
  BY <1>1
<1>5. NothingLost'
  <2>1. \A i \in 1 .. length' : Contents'[i] \in Out'
    BY <1>2, <1>3 DEF RingSide, NothingLost
  <2>2. ASSUME NEW x \in Out'
        PROVE  \/ \E i \in 1 .. length' : Contents'[i] = x
               \/ \E c \in Consumer : InHand'[c] = x
               \/ \E c \in Consumer : \E i \in 1 .. Len(handled'[c]) : handled'[c][i] = x
    <3>1. CASE x = v
      BY <1>2, <1>4, <3>1
    <3>2. CASE x \in Out
      BY <1>2, <1>4, <3>2 DEF RingSide, NothingLost
    <3> QED  BY <3>1, <3>2
  <2> QED  BY <2>1, <2>2 DEF RingSide, NothingLost
<1>6. OrderKept'
  <2>1. ASSUME NEW i \in 1 .. length', NEW j \in 1 .. length', i < j
        PROVE  Precedes(Contents'[i], Contents'[j])
    <3>1. i \in 1 .. length
      BY <1>1, <2>1
    <3>2. CASE j = length + 1
      BY <1>2, <3>1, <3>2 DEF RingSide, NothingLost
    <3>3. CASE j \in 1 .. length
      BY <1>2, <2>1, <3>1, <3>3 DEF RingSide, OrderKept
    <3> QED  BY <1>3, <3>2, <3>3
  <2>2. ASSUME NEW x \in Out, \A i \in 1 .. length : Precedes(x, Contents[i])
        PROVE  \A i \in 1 .. length' : Precedes(x, Contents'[i])
    BY <1>2, <1>3, <2>2
  <2>3. ASSUME NEW c \in Consumer, InHand'[c] # NULL
        PROVE  \A i \in 1 .. length' : Precedes(InHand'[c], Contents'[i])
    BY <2>2, <2>3 DEF RingSide, OrderKept, NothingLost
  <2>4. ASSUME NEW c \in Consumer, NEW i \in 1 .. Len(handled'[c])
        PROVE  \A j \in 1 .. length' : Precedes(handled'[c][i], Contents'[j])
    BY <2>2, <2>4 DEF RingSide, OrderKept, NothingLost
  <2> QED  BY <2>1, <2>3, <2>4 DEF RingSide, OrderKept
<1>7. NothingShared'
  BY DEF RingSide, NothingShared
<1> QED  BY <1>5, <1>6, <1>7 DEF RingSide

\* A get takes the oldest item into the hands of one consumer.
LEMMA RingSideOnTake ==
    ASSUME RingSide, SendsInTurn, Contents \in Seq(Item), Len(Contents) = length, length' = length - 1,
           Contents # <<>>, NEW c \in Consumer, InHand[c] = NULL,
           Contents' = Tail(Contents), Out' = Out, handled' = handled,
           InHand'[c] = Head(Contents), \A d \in Consumer : d # c => InHand'[d] = InHand[d]
    PROVE  RingSide'
<1>1. length \in Nat /\ length >= 1 /\ 1 \in 1 .. length
  OBVIOUS
<1>2. /\ \A i \in 1 .. length' : Contents'[i] = Contents[i + 1] /\ i + 1 \in 1 .. length
      /\ InHand'[c] = Contents[1]
  <2>1. /\ \A i \in 1 .. Len(Contents) - 1 : Tail(Contents)[i] = Contents[i + 1]
        /\ Head(Contents) = Contents[1]
    BY HeadTailProperties
  <2>2. \A i \in 1 .. length' : i + 1 \in 1 .. length
    BY <1>1
  <2> QED  BY <2>1, <2>2
<1>3. ASSUME NEW i \in 1 .. length, i # 1
      PROVE  i - 1 \in 1 .. length' /\ Contents'[i - 1] = Contents[i]
  <2>1. i - 1 \in 1 .. length' /\ (i - 1) + 1 = i
    BY <1>1, <1>3
  <2> QED  BY <1>2, <2>1
<1>4. Contents[1] \in Out /\ Contents[1] # NULL
  BY <1>1, NullAssumption DEF RingSide, NothingLost, Out
<1>5. NothingLost'
  <2>1. \A i \in 1 .. length' : Contents'[i] \in Out'
    BY <1>2 DEF RingSide, NothingLost
  <2>2. \A d \in Consumer : InHand'[d] \in Out' \cup {NULL}
    BY <1>2, <1>4 DEF RingSide, NothingLost
  <2>3. ASSUME NEW x \in Out
        PROVE  \/ \E i \in 1 .. length' : Contents'[i] = x
               \/ \E d \in Consumer : InHand'[d] = x
               \/ \E d \in Consumer : \E i \in 1 .. Len(handled'[d]) : handled'[d][i] = x
    <3>1. CASE \E i \in 1 .. length : Contents[i] = x
      BY <1>2, <1>3, <3>1
    <3>2. CASE \E d \in Consumer : InHand[d] = x
      <4>1. x # NULL
        BY NullAssumption DEF Out
      <4> QED  BY <3>2, <4>1
    <3>3. CASE \E d \in Consumer : \E i \in 1 .. Len(handled[d]) : handled[d][i] = x
      BY <3>3
    <3> QED  BY <3>1, <3>2, <3>3 DEF RingSide, NothingLost
  <2> QED  BY <2>1, <2>2, <2>3 DEF RingSide, NothingLost
<1>6. OrderKept'
  <2>1. ASSUME NEW i \in 1 .. length', NEW j \in 1 .. length', i < j
        PROVE  Precedes(Contents'[i], Contents'[j])
    <3>1. i + 1 < j + 1
      BY <1>1, <2>1
    <3> QED  BY <1>2, <3>1 DEF RingSide, OrderKept
  <2>2. ASSUME NEW d \in Consumer, InHand'[d] # NULL, NEW i \in 1 .. length'
        PROVE  Precedes(InHand'[d], Contents'[i])
    <3>1. 1 < i + 1
      BY <1>1
    <3>2. CASE d = c
      BY <1>1, <1>2, <3>1, <3>2 DEF RingSide, OrderKept
    <3>3. CASE d # c
      BY <1>2, <2>2, <3>3 DEF RingSide, OrderKept
    <3> QED  BY <3>2, <3>3
  <2>3. ASSUME NEW d \in Consumer, NEW i \in 1 .. Len(handled'[d])
        PROVE  /\ \A j \in 1 .. length' : Precedes(handled'[d][i], Contents'[j])
               /\ InHand'[d] # NULL => Precedes(handled'[d][i], InHand'[d])
               /\ \A j \in 1 .. Len(handled'[d]) : i < j => Precedes(handled'[d][i], handled'[d][j])
    BY <1>1, <1>2 DEF RingSide, OrderKept
  <2> QED  BY <2>1, <2>2, <2>3 DEF OrderKept
<1>7. NothingShared'
  <2>1. ASSUME NEW d \in Consumer, d # c PROVE InHand[d] # Contents[1]
    <3>1. CASE InHand[d] = NULL
      BY <1>4, <3>1
    <3>2. CASE InHand[d] # NULL
      <4>1. InHand[d] \in Out /\ Precedes(InHand[d], Contents[1])
        BY <1>1, <3>2 DEF RingSide, OrderKept, NothingLost
      <4> QED  BY <4>1, PrecedesIsStrict
    <3> QED  BY <3>1, <3>2
  <2>2. ASSUME NEW d \in Consumer, NEW i \in 1 .. Len(handled[d]) PROVE handled[d][i] # Contents[1]
    <3>1. handled[d][i] \in Out /\ Precedes(handled[d][i], Contents[1])
      BY <1>1 DEF RingSide, OrderKept, NothingLost
    <3> QED  BY <3>1, PrecedesIsStrict
  <2> QED  BY <1>2, <2>1, <2>2 DEF RingSide, NothingShared
<1> QED  BY <1>5, <1>6, <1>7 DEF RingSide

\* A consumer handles what it holds.
LEMMA RingSideOnHandle ==
    ASSUME RingSide, Contents' = Contents, length' = length, Out' = Out,
           NEW c \in Consumer, InHand[c] # NULL, InHand'[c] = NULL,
           \A d \in Consumer : d # c => InHand'[d] = InHand[d],
           handled' = [handled EXCEPT ![c] = Append(@, InHand[c])]
    PROVE  RingSide'
<1>1. /\ handled \in [Consumer -> Seq(Item)] /\ InHand[c] \in Out /\ InHand[c] \in Item
      /\ handled'[c] = Append(handled[c], InHand[c])
      /\ \A d \in Consumer : d # c => handled'[d] = handled[d]
      /\ handled' \in [Consumer -> Seq(Item)]
  BY AppendProperties DEF RingSide, NothingLost, Out
<1>2. /\ Len(handled[c]) \in Nat /\ Len(handled'[c]) = Len(handled[c]) + 1
      /\ \A i \in 1 .. Len(handled[c]) : handled'[c][i] = handled[c][i]
      /\ handled'[c][Len(handled[c]) + 1] = InHand[c]
  BY <1>1, AppendProperties
<1>3. \A d \in Consumer : \A i \in 1 .. Len(handled'[d]) :
        \/ i \in 1 .. Len(handled[d]) /\ handled'[d][i] = handled[d][i]
        \/ d = c /\ i = Len(handled[c]) + 1 /\ handled'[d][i] = InHand[c]
  BY <1>1, <1>2
<1>4. \A d \in Consumer : \A i \in 1 .. Len(handled[d]) :
        i \in 1 .. Len(handled'[d]) /\ handled'[d][i] = handled[d][i]
  BY <1>1, <1>2
<1>5. Len(handled[c]) + 1 \in 1 .. Len(handled'[c])
  BY <1>2
<1>6. NothingLost'
  <2>1. \A d \in Consumer : \A i \in 1 .. Len(handled'[d]) : handled'[d][i] \in Out'
    BY <1>1, <1>3 DEF RingSide, NothingLost
  <2>2. \A d \in Consumer : InHand'[d] \in Out' \cup {NULL}
    BY DEF RingSide, NothingLost
  <2>3. ASSUME NEW x \in Out
        PROVE  \/ \E i \in 1 .. length' : Contents'[i] = x
               \/ \E d \in Consumer : InHand'[d] = x
               \/ \E d \in Consumer : \E i \in 1 .. Len(handled'[d]) : handled'[d][i] = x
    <3>1. CASE \E i \in 1 .. length : Contents[i] = x
      BY <3>1
    <3>2. CASE \E d \in Consumer : InHand[d] = x
      BY <1>2, <1>5, <3>2
    <3>3. CASE \E d \in Consumer : \E i \in 1 .. Len(handled[d]) : handled[d][i] = x
      BY <1>4, <3>3
    <3> QED  BY <3>1, <3>2, <3>3 DEF RingSide, NothingLost
  <2> QED  BY <1>1, <2>1, <2>2, <2>3 DEF RingSide, NothingLost
<1>7. OrderKept'
  <2>1. ASSUME NEW d \in Consumer, InHand'[d] # NULL
        PROVE  \A i \in 1 .. length' : Precedes(InHand'[d], Contents'[i])
    BY <2>1 DEF RingSide, OrderKept
  <2>2. ASSUME NEW d \in Consumer, NEW i \in 1 .. Len(handled'[d])
        PROVE  /\ \A j \in 1 .. length' : Precedes(handled'[d][i], Contents'[j])
               /\ InHand'[d] # NULL => Precedes(handled'[d][i], InHand'[d])
    BY <1>3 DEF RingSide, OrderKept
  <2>3. ASSUME NEW d \in Consumer, NEW i \in 1 .. Len(handled'[d]), NEW j \in 1 .. Len(handled'[d]), i < j
        PROVE  Precedes(handled'[d][i], handled'[d][j])
    <3>1. CASE j \in 1 .. Len(handled[d])
      <4>1. i \in 1 .. Len(handled[d])
        BY <1>1, <2>3, <3>1
      <4> QED  BY <1>4, <2>3, <3>1, <4>1 DEF RingSide, OrderKept
    <3>2. CASE d = c /\ j = Len(handled[c]) + 1 /\ handled'[d][j] = InHand[c]
      <4>1. i \in 1 .. Len(handled[d])
        BY <1>2, <2>3, <3>2
      <4> QED  BY <1>4, <3>2, <4>1 DEF RingSide, OrderKept
    <3> QED  BY <1>3, <3>1, <3>2
  <2> QED  BY <2>1, <2>2, <2>3 DEF RingSide, OrderKept
<1>8. NothingShared'
  <2> SUFFICES ASSUME NEW d \in Consumer, NEW e \in Consumer, d # e
               PROVE  /\ InHand'[d] # NULL => InHand'[d] # InHand'[e]
                      /\ \A i \in 1 .. Len(handled'[d]) :
                            /\ handled'[d][i] # InHand'[e]
                            /\ \A j \in 1 .. Len(handled'[e]) : handled'[d][i] # handled'[e][j]
    BY DEF NothingShared
  <2>1. InHand'[d] # NULL => InHand'[d] # InHand'[e]
    BY DEF RingSide, NothingShared
  <2>2. ASSUME NEW i \in 1 .. Len(handled'[d]) PROVE handled'[d][i] # InHand'[e]
    <3>1. handled'[d][i] # NULL
      BY <1>3, NullAssumption DEF RingSide, NothingLost, Out
    <3>2. CASE e = c
      BY <3>1, <3>2
    <3>3. CASE e # c
      BY <1>3, <3>3 DEF RingSide, NothingShared
    <3> QED  BY <3>2, <3>3
  <2>3. ASSUME NEW i \in 1 .. Len(handled'[d]), NEW j \in 1 .. Len(handled'[e])
        PROVE  handled'[d][i] # handled'[e][j]
    BY <1>3 DEF RingSide, NothingShared
  <2> QED  BY <2>1, <2>2, <2>3
<1> QED  BY <1>6, <1>7, <1>8 DEF RingSide

-----------------------------------------------------------------------------
\* Which steps of the drain leave the items where they are.
LEMMA QuietStep ==
    ASSUME IInv, PartsKept, HandsEmpty, NEW t \in Thread,
           Step(t) \/ SpuriousWakeup(t), ~PutStores(t), ~GetTakes(t), UNCHANGED client
    PROVE  /\ ring' = ring /\ InHand' = InHand /\ arg' = arg
           /\ HandsEmpty'
<1>1. ring' = ring /\ arg' = arg
  BY DEF Step, SpuriousWakeup, Lock, PutChecksOpen, PutWaits, PutFails, GetWaits,
         GetReturnsNull, CloseQueue, ReadLength
<1>2. asking' = asking /\ got \in [Thread -> Item \cup {NULL}] /\ Consumer \subseteq Thread
  BY ClientAssumption DEF client, IInv, TypeOK
<1>3. \A c \in Consumer : got'[c] = got[c]
  <2>1. CASE GetReturnsNull(t)
    <3>1. pc[t] # "idle"
      BY <2>1 DEF GetReturnsNull, In
    <3> QED  BY <1>2, <2>1, <3>1 DEF GetReturnsNull, HandsEmpty
  <2>2. CASE ~GetReturnsNull(t)
    BY <2>2
       DEF Step, SpuriousWakeup, Lock, PutChecksOpen, PutWaits, PutFails, GetWaits,
           CloseQueue, ReadLength, results
  <2> QED  BY <2>1, <2>2
<1>4. InHand' = InHand
  BY <1>2, <1>3 DEF InHand
<1>5. HandsEmpty'
  BY <1>2, <1>3, InsideStep DEF HandsEmpty
<1> QED  BY <1>1, <1>4, <1>5

LEMMA ItemsStep ==
    /\ IInv /\ IInv' /\ PartsKept /\ PartsKept' /\ SendsInTurn /\ HandsEmpty /\ RingSide
    /\ [DrainNext]_drainVars
    => HandsEmpty' /\ RingSide'
<1> SUFFICES ASSUME IInv, IInv', PartsKept, PartsKept', SendsInTurn, HandsEmpty, RingSide,
                    [DrainNext]_drainVars
             PROVE  HandsEmpty' /\ RingSide'
  OBVIOUS
<1>1. /\ Owner \in Thread /\ Owner \notin Producer \cup Consumer
      /\ Producer \subseteq Thread /\ Consumer \subseteq Thread /\ Producer \cap Consumer = {}
      /\ pc \in [Thread -> Place] /\ arg \in [Thread -> Item \cup {NULL}]
      /\ got \in [Thread -> Item \cup {NULL}] /\ length \in 0 .. Capacity
  BY ClientAssumption DEF IInv, TypeOK
<1>2. Contents \in Seq(Item) /\ Len(Contents) = length
  BY <1>1, ContentsIsSeq DEF IInv
<1>3. ASSUME ring' = ring PROVE Contents' = Contents /\ length' = length
  BY <1>3 DEF ring, Contents
<1>4. CASE UNCHANGED drainVars
  <2>1. ring' = ring /\ Out' = Out /\ InHand' = InHand /\ handled' = handled
    BY <1>4 DEF drainVars, vars, ring, client, Out, Begun, InHand
  <2>2. HandsEmpty'
    BY <1>4 DEF drainVars, vars, HandsEmpty
  <2> QED  BY <1>3, <2>1, <2>2, RingSideStays
<1>5. ASSUME NEW p \in Producer, Produce(p) PROVE HandsEmpty' /\ RingSide'
  <2>1. /\ ring' = ring /\ handled' = handled /\ asking' = asking
        /\ \A c \in Consumer : got'[c] = got[c] /\ pc'[c] = pc[c]
    BY <1>1, <1>5 DEF Produce, Call
  <2>2. Out' = Out
    BY <1>1, <1>5, OutOnProduce
  <2>3. InHand' = InHand /\ HandsEmpty'
    BY <2>1 DEF InHand, HandsEmpty
  <2> QED  BY <1>3, <2>1, <2>2, <2>3, RingSideStays
<1>6. ASSUME NEW c \in Consumer, Ask(c) PROVE HandsEmpty' /\ RingSide'
  <2>1. /\ ring' = ring /\ handled' = handled /\ asking' = asking \cup {c} /\ c \notin asking
        /\ todo' = todo /\ \A p \in Producer : arg'[p] = arg[p]
        /\ got' = [got EXCEPT ![c] = NULL] /\ \A d \in Consumer : d # c => pc'[d] = pc[d]
    BY <1>1, <1>6 DEF Ask, Call
  <2>2. Out' = Out
    BY <2>1, OutStays
  <2>3. InHand' = InHand /\ HandsEmpty'
    BY <1>1, <2>1 DEF InHand, HandsEmpty
  <2> QED  BY <1>3, <2>1, <2>2, <2>3, RingSideStays
<1>7. ASSUME NEW c \in Consumer, Handle(c) PROVE HandsEmpty' /\ RingSide'
  <2>1. /\ ring' = ring /\ todo' = todo /\ arg' = arg /\ got' = got /\ pc' = pc
        /\ c \in asking /\ asking' = asking \ {c}
    BY <1>7 DEF Handle, vars, ring
  <2>2. Out' = Out
    BY <2>1, OutStays
  <2>3. HandsEmpty'
    BY <2>1 DEF HandsEmpty
  <2>4. CASE got[c] = NULL
    <3>1. handled' = handled
      BY <1>7, <2>4 DEF Handle
    <3>2. InHand' = InHand
      BY <2>1, <2>4 DEF InHand
    <3> QED  BY <1>3, <2>1, <2>2, <2>3, <3>1, <3>2, RingSideStays
  <2>5. CASE got[c] # NULL
    <3>1. InHand[c] = got[c] /\ InHand'[c] = NULL /\ \A d \in Consumer : d # c => InHand'[d] = InHand[d]
      BY <2>1 DEF InHand
    <3>2. handled' = [handled EXCEPT ![c] = Append(@, InHand[c])]
      BY <1>7, <2>5, <3>1 DEF Handle
    <3> QED  BY <1>3, <2>1, <2>2, <2>3, <2>5, <3>1, <3>2, RingSideOnHandle
  <2> QED  BY <2>4, <2>5
<1>8. CASE CloseWhenSent
  <2>1. /\ ring' = ring /\ handled' = handled /\ asking' = asking /\ todo' = todo
        /\ \A p \in Producer : arg'[p] = arg[p]
        /\ \A c \in Consumer : got'[c] = got[c] /\ pc'[c] = pc[c]
    BY <1>1, <1>8 DEF CloseWhenSent, Call, client
  <2>2. Out' = Out
    BY <2>1, OutStays
  <2>3. InHand' = InHand /\ HandsEmpty'
    BY <2>1 DEF InHand, HandsEmpty
  <2> QED  BY <1>3, <2>1, <2>2, <2>3, RingSideStays
<1>9. CASE Free
  <2>1. ring' = ring /\ handled' = handled /\ InHand' = InHand /\ HandsEmpty' /\ Out' = Out
    BY <1>9 DEF Free, vars, ring, InHand, HandsEmpty, Out, Begun
  <2> QED  BY <1>3, <2>1, RingSideStays
<1>10. ASSUME NEW t \in Thread, Step(t) \/ SpuriousWakeup(t), ~PutStores(t), ~GetTakes(t), UNCHANGED client
       PROVE  HandsEmpty' /\ RingSide'
  <2>1. ring' = ring /\ InHand' = InHand /\ arg' = arg /\ HandsEmpty' /\ todo' = todo /\ handled' = handled
    BY <1>10, QuietStep DEF client
  <2>2. Out' = Out
    BY <2>1, OutStays
  <2> QED  BY <1>3, <2>1, <2>2, RingSideStays
<1>11. ASSUME NEW t \in Thread, PutStores(t), UNCHANGED client PROVE HandsEmpty' /\ RingSide'
  <2>1. /\ t \in Producer /\ arg[t] \in Item /\ arg[t] # NULL
    BY <1>1, <1>11, ClientAssumption, NullAssumption DEF PutStores, In, PartsKept, IInv, PutHasItem
  <2>2. /\ Contents' = Append(Contents, arg[t]) /\ length' = length + 1
        /\ todo' = todo /\ handled' = handled /\ asking' = asking /\ got' = got
        /\ arg'[t] = NULL /\ \A q \in Producer : q # t => arg'[q] = arg[q]
    BY <1>1, <1>11, StoreAppends DEF PutStores, client, results
  <2>3. Out' = Out \cup {arg[t]} /\ \A x \in Out : Precedes(x, arg[t])
    BY <2>1, <2>2, OutOnStore, PutIsLast
  <2>4. InHand' = InHand
    BY <2>2 DEF InHand
  <2>5. HandsEmpty'
    BY <1>1, <1>11, <2>2, InsideStep DEF HandsEmpty, Step
  <2> QED  BY <1>2, <2>1, <2>2, <2>3, <2>4, <2>5, RingSideOnStore
<1>12. ASSUME NEW t \in Thread, GetTakes(t), UNCHANGED client PROVE HandsEmpty' /\ RingSide'
  <2>1. t \in Consumer /\ t \in asking /\ pc[t] # "idle"
    BY <1>1, <1>12, ClientAssumption DEF GetTakes, In, PartsKept
  <2>2. /\ Contents # <<>> /\ Contents' = Tail(Contents) /\ length' = length - 1
        /\ got' = [got EXCEPT ![t] = Head(Contents)]
        /\ todo' = todo /\ handled' = handled /\ asking' = asking /\ arg' = arg
    BY <1>12, TakeRemovesHead DEF GetTakes, client
  <2>3. Out' = Out
    BY <2>2, OutStays
  <2>4. /\ InHand[t] = NULL /\ InHand'[t] = Head(Contents)
        /\ \A d \in Consumer : d # t => InHand'[d] = InHand[d]
    BY <1>1, <2>1, <2>2 DEF InHand, HandsEmpty
  <2>5. pc'[t] = "idle"
    BY <1>12, ReturnWakes DEF GetTakes, In, IInv
  <2>6. HandsEmpty'
    BY <1>1, <1>12, <2>2, <2>5, InsideStep DEF HandsEmpty, Step
  <2> QED  BY <1>2, <2>1, <2>2, <2>3, <2>4, <2>6, RingSideOnTake
<1>13. ASSUME NEW t \in Thread, Step(t) \/ SpuriousWakeup(t), UNCHANGED client PROVE HandsEmpty' /\ RingSide'
  BY <1>10, <1>11, <1>12, <1>13
<1> QED  BY <1>4, <1>5, <1>6, <1>7, <1>8, <1>9, <1>13 DEF DrainNext, OwnSteps, InQueue

LEMMA ItemsStart == DrainInit => SendsInTurn /\ HandsEmpty /\ RingSide
<1> SUFFICES ASSUME DrainInit PROVE SendsInTurn /\ HandsEmpty /\ RingSide
  OBVIOUS
<1>1. Sends \in [Producer -> Seq(Item)] /\ Producer \subseteq Thread /\ Consumer \subseteq Thread
  BY ClientAssumption
<1>2. /\ todo = Sends /\ length = 0 /\ asking = {} /\ handled = [c \in Consumer |-> <<>>]
      /\ pc = [t \in Thread |-> "idle"] /\ arg = [t \in Thread |-> NULL]
  BY DEF DrainInit, Init
<1>3. \A p \in Producer : Len(Sends[p]) \in Nat /\ Begun[p] = 0
  BY <1>1, <1>2 DEF Begun
<1>4. SendsInTurn
  BY <1>1, <1>2, <1>3 DEF SendsInTurn
<1>5. HandsEmpty
  BY <1>1, <1>2 DEF HandsEmpty
<1>6. Out = {}
  BY <1>3 DEF Out
<1>7. \A c \in Consumer : InHand[c] = NULL /\ handled[c] = <<>> /\ Len(handled[c]) = 0
  BY <1>2 DEF InHand
<1>8. handled \in [Consumer -> Seq(Item)]
  BY <1>2
<1>9. NothingLost /\ OrderKept /\ NothingShared
  BY <1>2, <1>6, <1>7, <1>8 DEF NothingLost, OrderKept, NothingShared
<1> QED  BY <1>4, <1>5, <1>9 DEF RingSide

\* The invariant of the drain is inductive.
THEOREM DrainInvariant == DrainSpec => []DInv
<1>1. DrainInit => DInv
  BY DrainStarts, ItemsStart DEF DInv, RingSide
<1>2. DInv /\ [DrainNext]_drainVars => DInv'
  BY DrainUsesQueue, NextIInv, PartsStep, InOrderStep, SendsInTurnStep, ItemsStep DEF DInv, RingSide
<1> QED  BY <1>1, <1>2, PTL DEF DrainSpec

\* Every execution of the drain is one of the queue, so that all that is proved
\* of DSQueue, the refinement of ClosableFifo included, holds in it.
THEOREM DrainIsClient == DrainSpec => Spec /\ RefinesFifo
<1>1. DInv /\ [DrainNext]_drainVars => [Next]_vars
  BY DrainUsesQueue DEF DInv
<1>2. DrainInit => Init
  BY DEF DrainInit
<1>3. DrainSpec => Spec
  BY <1>1, <1>2, DrainInvariant, PTL DEF DrainSpec, Spec
<1> QED  BY <1>3, QueueIsFifo

\* For every number of producers and consumers: an owner that closes when the
\* puts have returned meets no assert, and when it frees the queue behind the
\* consumers nobody is inside (queue.h, ds_queue_free).
THEOREM EndsSafely == DrainSpec => []ClosesSafely
<1>1. DInv => ClosesSafely
  <2> SUFFICES ASSUME DInv, freed, NEW t \in Thread PROVE pc[t] = "idle"
    BY DEF DInv, InOrder, ClosesSafely, ProtocolNeverAborts, FreedWhenEmptyOfThreads
  <2>1. t \in Producer \/ t \in Consumer \/ t = Owner
    BY ClientAssumption
  <2> QED  BY <2>1 DEF DInv, InOrder, PartsKept
<1> QED  BY <1>1, DrainInvariant, PTL

-----------------------------------------------------------------------------
\* The places of an item, one family at a time.
LEMMA PlacesSplit ==
    ASSUME NEW v, NEW y
    PROVE  y \in Places(v) <=>
            \/ \E p \in Producer : \E i \in 1 .. Len(todo[p]) : todo[p][i] = v /\ y = <<"todo", p, i>>
            \/ \E c \in Consumer : \E i \in 1 .. Len(handled[c]) : handled[c][i] = v /\ y = <<"handled", c, i>>
            \/ \E i \in 1 .. Len(Contents) : Contents[i] = v /\ y = <<"ring", i>>
            \/ \E p \in Producer : arg[p] = v /\ y = <<"put", p>>
            \/ \E c \in asking : got[c] = v /\ y = <<"get", c>>
<1> HIDE DEF Contents
<1> QED  BY DEF Places, At

\* What is still to be put or being put is where the producer stands.
LEMMA AheadOrOut ==
    ASSUME SendsInTurn, NEW p \in Producer, NEW m \in 1 .. Len(Sends[p]), NEW v, v = Sends[p][m]
    PROVE  /\ v \in Item
           /\ \A q \in Producer, i \in Nat : i \in 1 .. Len(todo[q]) /\ todo[q][i] = v => q = p /\ i = m - Begun[p]
           /\ \A q \in Producer : arg[q] = v => q = p /\ m = Begun[p]
           /\ v \in Out <=> m <= Begun[p] /\ arg[p] # v
           /\ m > Begun[p] => m - Begun[p] \in 1 .. Len(todo[p]) /\ todo[p][m - Begun[p]] = v
<1>1. /\ Begun[p] \in Nat /\ Len(todo[p]) \in Nat /\ Len(Sends[p]) \in Nat /\ m \in Nat /\ m >= 1
      /\ Begun[p] + Len(todo[p]) = Len(Sends[p]) /\ m <= Len(Sends[p])
  BY BegunRange
<1>2. v \in Item /\ v # NULL
  BY BegunRange, NullAssumption
<1>3. ASSUME NEW q \in Producer, NEW i \in 1 .. Len(todo[q]), todo[q][i] = v
      PROVE  q = p /\ i = m - Begun[p]
  <2>1. Sends[q][Begun[q] + i] = Sends[p][m]
    BY <1>3 DEF SendsInTurn
  <2>2. Begun[q] + i \in 1 .. Len(Sends[q]) /\ i \in Nat /\ Begun[q] \in Nat
    BY BegunRange
  <2>3. q = p /\ Begun[q] + i = m
    BY <2>1, <2>2, SentOnce
  <2> QED  BY <1>1, <2>2, <2>3
<1>4. ASSUME NEW q \in Producer, arg[q] = v
      PROVE  q = p /\ m = Begun[p]
  <2>1. Sends[q][Begun[q]] = Sends[p][m] /\ Begun[q] > 0
    BY <1>2, <1>4 DEF SendsInTurn
  <2>2. Begun[q] \in 1 .. Len(Sends[q])
    BY <2>1, BegunRange
  <2> QED  BY <2>1, <2>2, SentOnce
<1>5. ASSUME v \in Out PROVE m <= Begun[p] /\ arg[p] # v
  <2>1. PICK q \in Producer : \E k \in 1 .. Begun[q] : v = Sends[q][k] /\ v # arg[q]
    BY <1>5 DEF Out
  <2>2. PICK k \in 1 .. Begun[q] : v = Sends[q][k] /\ v # arg[q]
    BY <2>1
  <2>3. k \in 1 .. Len(Sends[q]) /\ Sends[q][k] = Sends[p][m]
    BY <2>2, BegunRange
  <2>4. q = p /\ k = m
    BY <2>3, SentOnce
  <2> QED  BY <1>1, <2>2, <2>4
<1>6. ASSUME m <= Begun[p], arg[p] # v PROVE v \in Out
  <2>1. m \in 1 .. Begun[p]
    BY <1>1, <1>6
  <2> QED  BY <1>2, <1>6, <2>1 DEF Out
<1>7. ASSUME m > Begun[p]
      PROVE  m - Begun[p] \in 1 .. Len(todo[p]) /\ todo[p][m - Begun[p]] = v
  <2>1. m - Begun[p] \in 1 .. Len(todo[p]) /\ Begun[p] + (m - Begun[p]) = m
    BY <1>1, <1>7
  <2> QED  BY <2>1 DEF SendsInTurn
<1> QED  BY <1>2, <1>3, <1>4, <1>5, <1>6, <1>7

\* What is out is at one place of the ring's side.
LEMMA OutAtOnePlace ==
    ASSUME RingSide, SendsInTurn, NEW v \in Out
    PROVE  /\ \A i, j \in 1 .. length : Contents[i] = v /\ Contents[j] = v => i = j
           /\ \A i \in 1 .. length, c \in Consumer : ~(Contents[i] = v /\ InHand[c] = v)
           /\ \A i \in 1 .. length, c \in Consumer : Contents[i] = v =>
                    \A j \in 1 .. Len(handled[c]) : handled[c][j] # v
           /\ \A c, d \in Consumer : InHand[c] = v /\ InHand[d] = v => c = d
           /\ \A c, d \in Consumer : InHand[c] = v =>
                    \A j \in 1 .. Len(handled[d]) : handled[d][j] # v
           /\ \A c, d \in Consumer : \A i \in 1 .. Len(handled[c]), j \in 1 .. Len(handled[d]) :
                    handled[c][i] = v /\ handled[d][j] = v => c = d /\ i = j
<1>0. ~Precedes(v, v) /\ v # NULL
  BY PrecedesIsStrict, NullAssumption DEF Out
<1>1. ASSUME NEW i \in 1 .. length, NEW j \in 1 .. length, Contents[i] = v, Contents[j] = v PROVE i = j
  <2>1. ~(i < j) /\ ~(j < i)
    BY <1>0, <1>1 DEF RingSide, OrderKept
  <2> QED  BY <2>1
<1>2. \A i \in 1 .. length, c \in Consumer : ~(Contents[i] = v /\ InHand[c] = v)
  BY <1>0 DEF RingSide, OrderKept
<1>3. \A i \in 1 .. length, c \in Consumer : Contents[i] = v =>
        \A j \in 1 .. Len(handled[c]) : handled[c][j] # v
  BY <1>0 DEF RingSide, OrderKept
<1>4. \A c, d \in Consumer : InHand[c] = v /\ InHand[d] = v => c = d
  BY <1>0 DEF RingSide, NothingShared
<1>5. ASSUME NEW c \in Consumer, NEW d \in Consumer, InHand[c] = v, NEW j \in 1 .. Len(handled[d])
      PROVE  handled[d][j] # v
  <2>1. CASE c = d
    BY <1>0, <1>5, <2>1 DEF RingSide, OrderKept
  <2>2. CASE c # d
    BY <1>5, <2>2 DEF RingSide, NothingShared
  <2> QED  BY <2>1, <2>2
<1>6. ASSUME NEW c \in Consumer, NEW d \in Consumer, NEW i \in 1 .. Len(handled[c]), NEW j \in 1 .. Len(handled[d]),
             handled[c][i] = v, handled[d][j] = v
      PROVE  c = d /\ i = j
  <2>1. c = d
    BY <1>6 DEF RingSide, NothingShared
  <2>2. ~(i < j) /\ ~(j < i)
    BY <1>0, <1>6, <2>1 DEF RingSide, OrderKept
  <2> QED  BY <2>1, <2>2
<1> QED  BY <1>1, <1>2, <1>3, <1>4, <1>5, <1>6

LEMMA OnePlace ==
    ASSUME DInv, NEW v \in Sent
    PROVE  \E x : Places(v) = {x}
<1>1. /\ SendsInTurn /\ RingSide /\ Len(Contents) = length /\ asking \subseteq Consumer
  BY ContentsIsSeq DEF DInv, RingSide, IInv, TypeOK, PartsKept
<1>2. PICK p \in Producer : \E m \in 1 .. Len(Sends[p]) : v = Sends[p][m]
  BY DEF Sent
<1>3. PICK m \in 1 .. Len(Sends[p]) : v = Sends[p][m]
  BY <1>2
<1>4. /\ v \in Item /\ v # NULL /\ Begun[p] \in Nat /\ m \in Nat
      /\ \A q \in Producer, i \in Nat : i \in 1 .. Len(todo[q]) /\ todo[q][i] = v => q = p /\ i = m - Begun[p]
      /\ \A q \in Producer : arg[q] = v => q = p /\ m = Begun[p]
      /\ v \in Out <=> m <= Begun[p] /\ arg[p] # v
      /\ m > Begun[p] => m - Begun[p] \in 1 .. Len(todo[p]) /\ todo[p][m - Begun[p]] = v
  BY <1>1, <1>3, AheadOrOut, BegunRange, NullAssumption
<1>5. ASSUME NEW c \in asking, got[c] = v PROVE c \in Consumer /\ InHand[c] = v
  BY <1>1, <1>5 DEF InHand
<1>6. ASSUME NEW c \in Consumer, InHand[c] = v PROVE c \in asking /\ got[c] = v
  BY <1>4, <1>6 DEF InHand
<1>7. ASSUME v \notin Out
      PROVE  /\ \A i \in 1 .. Len(Contents) : Contents[i] # v
             /\ \A c \in Consumer : \A i \in 1 .. Len(handled[c]) : handled[c][i] # v
             /\ \A c \in asking : got[c] # v
  BY <1>1, <1>4, <1>5, <1>7 DEF RingSide, NothingLost
<1>8. CASE m > Begun[p]
  <2> DEFINE x == <<"todo", p, m - Begun[p]>>
  <2>1. v \notin Out /\ m # Begun[p]
    BY <1>4, <1>8
  <2>2. x \in Places(v)
    BY <1>4, <1>8, PlacesSplit
  <2>3. ASSUME NEW y \in Places(v) PROVE y = x
    BY <1>4, <1>7, <2>1, PlacesSplit
  <2> QED  BY <2>2, <2>3
<1>9. CASE m <= Begun[p] /\ arg[p] = v
  <2> DEFINE x == <<"put", p>>
  <2>1. v \notin Out /\ \A q \in Producer : \A i \in 1 .. Len(todo[q]) : todo[q][i] # v
    BY <1>4, <1>9
  <2>2. x \in Places(v)
    BY <1>9, PlacesSplit
  <2>3. ASSUME NEW y \in Places(v) PROVE y = x
    BY <1>4, <1>7, <2>1, PlacesSplit
  <2> QED  BY <2>2, <2>3
<1>10. CASE m <= Begun[p] /\ arg[p] # v
  <2>1. /\ v \in Out
        /\ \A q \in Producer : \A i \in 1 .. Len(todo[q]) : todo[q][i] # v
        /\ \A q \in Producer : arg[q] # v
    BY <1>4, <1>10
  <2>2. /\ \A i, j \in 1 .. length : Contents[i] = v /\ Contents[j] = v => i = j
        /\ \A i \in 1 .. length, c \in Consumer : ~(Contents[i] = v /\ InHand[c] = v)
        /\ \A i \in 1 .. length, c \in Consumer : Contents[i] = v =>
                \A j \in 1 .. Len(handled[c]) : handled[c][j] # v
        /\ \A c, d \in Consumer : InHand[c] = v /\ InHand[d] = v => c = d
        /\ \A c, d \in Consumer : InHand[c] = v =>
                \A j \in 1 .. Len(handled[d]) : handled[d][j] # v
        /\ \A c, d \in Consumer : \A i \in 1 .. Len(handled[c]), j \in 1 .. Len(handled[d]) :
                handled[c][i] = v /\ handled[d][j] = v => c = d /\ i = j
    BY <1>1, <2>1, OutAtOnePlace
  <2>3. CASE \E i \in 1 .. length : Contents[i] = v
    <3>1. PICK i \in 1 .. length : Contents[i] = v
      BY <2>3
    <3> DEFINE x == <<"ring", i>>
    <3>2. x \in Places(v)
      BY <1>1, <3>1, PlacesSplit
    <3>3. ASSUME NEW y \in Places(v) PROVE y = x
      BY <1>1, <1>5, <2>1, <2>2, <3>1, PlacesSplit
    <3> QED  BY <3>2, <3>3
  <2>4. CASE \E c \in Consumer : InHand[c] = v
    <3>1. PICK c \in Consumer : InHand[c] = v
      BY <2>4
    <3> DEFINE x == <<"get", c>>
    <3>2. x \in Places(v)
      BY <1>6, <3>1, PlacesSplit
    <3>3. ASSUME NEW y \in Places(v) PROVE y = x
      BY <1>1, <1>5, <2>1, <2>2, <3>1, PlacesSplit
    <3> QED  BY <3>2, <3>3
  <2>5. CASE \E c \in Consumer : \E i \in 1 .. Len(handled[c]) : handled[c][i] = v
    <3>1. PICK c \in Consumer : \E i \in 1 .. Len(handled[c]) : handled[c][i] = v
      BY <2>5
    <3>2. PICK i \in 1 .. Len(handled[c]) : handled[c][i] = v
      BY <3>1
    <3> DEFINE x == <<"handled", c, i>>
    <3>3. x \in Places(v)
      BY <3>2, PlacesSplit
    <3>4. ASSUME NEW y \in Places(v) PROVE y = x
      BY <1>1, <1>5, <2>1, <2>2, <3>2, PlacesSplit
    <3> QED  BY <3>3, <3>4
  <2> QED  BY <1>1, <2>1, <2>3, <2>4, <2>5 DEF RingSide, NothingLost
<1>11. m > Begun[p] \/ m <= Begun[p]
  BY <1>4
<1> QED  BY <1>8, <1>9, <1>10, <1>11

\* For every number of producers and consumers, whatever they send and however
\* large the ring is: what was put arrives once, and a consumer sees the items
\* of one producer in the order that producer put them.
THEOREM ArrivesOnceInOrder == DrainSpec => []DeliveredInOrder
<1>1. DInv => EveryItemOnce
  <2> SUFFICES ASSUME DInv, NEW v \in Sent PROVE Cardinality(Places(v)) = 1
    BY DEF EveryItemOnce
  <2>1. PICK x : Places(v) = {x}
    BY OnePlace
  <2> QED  BY <2>1, FS_Singleton
<1>2. DInv => ProducerOrderKept
  <2> SUFFICES ASSUME OrderKept, NEW c \in Consumer, NEW p \in Producer,
                      NEW i \in 1 .. Len(handled[c]), NEW j \in 1 .. Len(handled[c]),
                      NEW m \in 1 .. Len(Sends[p]), NEW n \in 1 .. Len(Sends[p]),
                      i < j, handled[c][i] = Sends[p][m], handled[c][j] = Sends[p][n]
               PROVE  m < n
    BY DEF DInv, ProducerOrderKept
  <2>1. Precedes(handled[c][i], handled[c][j])
    BY DEF OrderKept
  <2> QED  BY <2>1 DEF Precedes
<1> QED  BY <1>1, <1>2, DrainInvariant, PTL DEF DeliveredInOrder
=============================================================================
