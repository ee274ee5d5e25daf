------------------------- MODULE WildPointerCatcher -------------------------
(***************************************************************************)
(* NSObject+Swizzling.m: the replaced dealloc does not free an object but   *)
(* overwrites it with a Catcher, whose every method aborts with a report,   *)
(* and keeps its memory in a DSQueue; deallocAllObjs gives the kept memory  *)
(* back.  Objects may die on any thread, so the check of the queue's length *)
(* and the put that follows it interleave with those of other threads.      *)
(*                                                                         *)
(* The queue is the one of module DSQueue, step for step.  The dictionary   *)
(* of release stacks only feeds the report and is not modelled.             *)
(***************************************************************************)
EXTENDS DSQueue, FiniteSetsExt

CONSTANTS
    Size,       \* malloc_size of an object
    CatchSize,  \* sCatchSize, the size a Catcher needs
    StealLimit, \* the 1000 of myDealloc
    Purger      \* the threads that call deallocAllObjs

ASSUME CatcherAssumption ==
    /\ Size \in [Item -> Nat]
    /\ CatchSize \in Nat
    /\ StealLimit \in Nat \ {0}
    /\ Purger \subseteq Thread
    /\ IsFiniteSet(Thread)

VARIABLES
    mem,        \* per address: a live object, a caught one, or free memory
    at,         \* per thread, where it is in myDealloc or deallocAllObjs
    self,       \* per thread, the object its myDealloc works on
    left,       \* per thread, how many gets its deallocAllObjs still makes
    unfreeSize, \* how much memory is kept
    reported    \* a Catcher got a message and aborted the process

catcher == <<mem, at, self, left, unfreeSize, reported>>
catcherVars == <<vars, catcher>>

CatcherInit ==
    /\ Init
    /\ mem = [o \in Item |-> "live"]
    /\ at = [t \in Thread |-> "out"]
    /\ self = [t \in Thread |-> NULL]
    /\ left = [t \in Thread |-> 0]
    /\ unfreeSize = 0
    /\ reported = FALSE

Go(t, from, to) == at[t] = from /\ pc[t] = "idle" /\ at' = [at EXCEPT ![t] = to]

-----------------------------------------------------------------------------
\* malloc hands the address out again.
Alloc(o) ==
    /\ mem[o] = "free"
    /\ mem' = [mem EXCEPT ![o] = "live"]
    /\ UNCHANGED <<vars, at, self, left, unfreeSize, reported>>

\* Too small to be overwritten with a Catcher: the original dealloc.
DeallocSmall(t, o) ==
    /\ at[t] = "out"
    /\ mem[o] = "live"
    /\ Size[o] < CatchSize
    /\ mem' = [mem EXCEPT ![o] = "free"]
    /\ UNCHANGED <<vars, at, self, left, unfreeSize, reported>>

\* myDealloc destroys the instance, puts a Catcher over it and asks for the
\* length of the queue.
DeallocCatch(t, o) ==
    /\ Go(t, "out", "counting")
    /\ mem[o] = "live"
    /\ Size[o] >= CatchSize
    /\ mem' = [mem EXCEPT ![o] = "caught"]
    /\ self' = [self EXCEPT ![t] = o]
    /\ Call(t, "length", NULL)
    /\ UNCHANGED <<left, unfreeSize, reported>>

\* Room according to the length read: account for the memory, then put it.
\* Mutant of DeallocKeep: the limit is the capacity of the queue.
DeallocKeepToTheBrim(t) ==
    /\ Go(t, "counting", "putting")
    /\ len[t] < Capacity
    /\ unfreeSize' = unfreeSize + Size[self[t]]
    /\ Call(t, "put", self[t])
    /\ UNCHANGED <<mem, self, left, reported>>

DeallocKeep(t) ==
    /\ Go(t, "counting", "putting")
    /\ len[t] < StealLimit
    /\ unfreeSize' = unfreeSize + Size[self[t]]
    /\ Call(t, "put", self[t])
    /\ UNCHANGED <<mem, self, left, reported>>

\* No room: myDealloc returns, and nothing refers to the memory any more.
DeallocForget(t) ==
    /\ Go(t, "counting", "out")
    /\ len[t] >= StealLimit
    /\ self' = [self EXCEPT ![t] = NULL]
    /\ UNCHANGED <<vars, mem, left, unfreeSize, reported>>

\* Mutant of DeallocReturn: falls through to the original dealloc.
DeallocReturnFreed(t) ==
    /\ Go(t, "putting", "out")
    /\ mem' = [mem EXCEPT ![self[t]] = "free"]
    /\ self' = [self EXCEPT ![t] = NULL]
    /\ UNCHANGED <<vars, left, unfreeSize, reported>>

DeallocReturn(t) ==
    /\ Go(t, "putting", "out")
    /\ self' = [self EXCEPT ![t] = NULL]
    /\ UNCHANGED <<vars, mem, left, unfreeSize, reported>>

-----------------------------------------------------------------------------
\* deallocAllObjs reads the length once ...
PurgeStart(t) ==
    /\ t \in Purger
    /\ Go(t, "out", "purgeCount")
    /\ Call(t, "length", NULL)
    /\ UNCHANGED <<mem, self, left, unfreeSize, reported>>

\* Mutant of PurgeCount: i <= count.
PurgeCountInclusive(t) ==
    /\ Go(t, "purgeCount", "purging")
    /\ left' = [left EXCEPT ![t] = len[t] + 1]
    /\ UNCHANGED <<vars, mem, self, unfreeSize, reported>>

PurgeCount(t) ==
    /\ Go(t, "purgeCount", "purging")
    /\ left' = [left EXCEPT ![t] = len[t]]
    /\ UNCHANGED <<vars, mem, self, unfreeSize, reported>>

\* ... and makes that many gets,
PurgeNext(t) ==
    /\ Go(t, "purging", "purgeGet")
    /\ left[t] > 0
    /\ Call(t, "get", NULL)
    /\ UNCHANGED <<mem, self, left, unfreeSize, reported>>

\* Mutant of PurgeFree: malloc_size is asked after the free and says 0.
PurgeFreeUnsized(t) ==
    /\ Go(t, "purgeGet", "purging")
    /\ mem' = [mem EXCEPT ![got[t]] = "free"]
    /\ left' = [left EXCEPT ![t] = @ - 1]
    /\ UNCHANGED <<vars, self, unfreeSize, reported>>

\* each followed by the subtraction and the free.
PurgeFree(t) ==
    /\ Go(t, "purgeGet", "purging")
    /\ mem' = [mem EXCEPT ![got[t]] = "free"]
    /\ unfreeSize' = unfreeSize - Size[got[t]]
    /\ left' = [left EXCEPT ![t] = @ - 1]
    /\ UNCHANGED <<vars, self, reported>>

PurgeReturn(t) ==
    /\ Go(t, "purging", "out")
    /\ left[t] = 0
    /\ UNCHANGED <<vars, mem, self, left, unfreeSize, reported>>

-----------------------------------------------------------------------------
\* A message to an object that is gone: every method of Catcher aborts.
MessageCaught(t, o) ==
    /\ at[t] = "out"
    /\ mem[o] = "caught"
    /\ reported' = TRUE
    /\ UNCHANGED <<vars, mem, at, self, left, unfreeSize>>

\* What a thread does on its own once it entered one of the two methods.
Work(t) ==
    \/ DeallocKeep(t) \/ DeallocForget(t) \/ DeallocReturn(t)
    \/ PurgeCount(t) \/ PurgeNext(t) \/ PurgeFree(t) \/ PurgeReturn(t)
    \/ Step(t) /\ UNCHANGED catcher

Running == ~aborted /\ ~reported

CatcherNext ==
    /\ Running
    /\ \/ \E o \in Item : Alloc(o)
       \/ \E t \in Thread :
            \/ \E o \in Item : DeallocSmall(t, o) \/ DeallocCatch(t, o) \/ MessageCaught(t, o)
            \/ PurgeStart(t)
            \/ Work(t)
            \/ SpuriousWakeup(t) /\ UNCHANGED catcher

\* A thread inside one of the methods is scheduled again and again, and gets
\* the mutex some time.  Nothing forces an object to die or a purge to start.
CatcherFairness ==
    \A t \in Thread :
        /\ WF_catcherVars(Running /\ Work(t))
        /\ SF_catcherVars(Running /\ Lock(t) /\ UNCHANGED catcher)

CatcherSpec == CatcherInit /\ [][CatcherNext]_catcherVars /\ CatcherFairness

-----------------------------------------------------------------------------
Queued == {Contents[i] : i \in 1 .. length}

\* What a thread is about to put, or has taken and not freed yet.
Putting == {t \in Thread : at[t] = "putting" /\ pc[t] # "idle"}
Taken == {t \in Thread : at[t] = "purgeGet" /\ pc[t] = "idle"}
Kept == Queued \cup {self[t] : t \in Putting} \cup {got[t] : t \in Taken}

CatcherTypeOK ==
    /\ TypeOK
    /\ mem \in [Item -> {"live", "caught", "free"}]
    /\ at \in [Thread -> {"out", "counting", "putting", "purgeCount", "purging", "purgeGet"}]
    /\ self \in [Thread -> Item \cup {NULL}]
    /\ left \in [Thread -> 0 .. Capacity]
    /\ unfreeSize \in Nat
    /\ reported \in BOOLEAN

\* Memory is given back to malloc once: every block the catcher keeps is
\* caught, and it is kept at one place only, so deallocAllObjs frees neither a
\* live object nor a block twice.
KeptOnce ==
    /\ \A o \in Kept : mem[o] = "caught"
    /\ Cardinality(Kept) = length + Cardinality(Putting) + Cardinality(Taken)

\* unfreeSize is the size of what is kept.  It is added before the put and
\* subtracted after the get, so it never falls below the truth and never goes
\* negative.
SizeIsKept == unfreeSize = SumFunctionOnSet(Size, Kept)

\* The limit of myDealloc lies below the capacity of the queue by enough for
\* every thread that passed the check on a stale length: a dealloc never
\* sleeps on a full queue, whoever else is in it.
DeallocNeverSleeps ==
    Capacity >= StealLimit - 1 + Cardinality(Thread) =>
        \A t \in Thread : ~(op[t] = "put" /\ pc[t] = "wait")

\* One purge at a time finds in the queue what it counted: it never sleeps on
\* an empty queue that nobody closes.
PurgeNeverSleeps ==
    (\A s, u \in Purger : s = u) => \A t \in Thread : ~(op[t] = "get" /\ pc[t] = "wait")

\* Neither sleeps on a length that was true when it was read.
NeverSleeps == DeallocNeverSleeps /\ PurgeNeverSleeps

\* Every dealloc and every deallocAllObjs comes back, unless a wild pointer
\* stops the process.  Only a purge that shares the queue with another one may
\* be robbed, again and again, of what it counted and stay inside its get.
CallsReturn ==
    \A t \in Thread :
        \/ []<>(at[t] = "out" \/ reported)
        \/ Purger # {t} /\ <>[](at[t] = "purgeGet" /\ pc[t] # "idle")

\* What a thread is still working on: the object of its dealloc, or what the
\* get of its purge brought it.
InHand ==
    {self[t] : t \in {u \in Thread : at[u] \in {"counting", "putting"}}}
    \cup {got[t] : t \in {u \in Thread : at[u] = "purgeGet"}}

\* The comment on MAX_STEAL_MEM_NUM: "keep at most this many pointers, beyond
\* that release some of them".  Of the overwritten memory no thread is working
\* on there would be at most that much, in the queue; over the limit myDealloc
\* leaves more of it, neither queued nor freed.
AtMostMaxKept ==
    Cardinality({o \in Item : mem[o] = "caught"} \ InHand) <= Capacity
=============================================================================
