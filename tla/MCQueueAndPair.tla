--------------------------- MODULE MCQueueAndPair ---------------------------
(* The queue of MCDSQueue, and the queue under two threads that both         *)
(* deallocate and purge and three objects, one at a time.                    *)
EXTENDS MCDSQueue

CONSTANTS t1, t2, b1, b2, b3

PairItem == {b1, b2, b3}
PairSize == [o \in PairItem |-> IF o = b3 THEN 3 ELSE 2]

VARIABLES part,     \* "free" or "pair"
    ringBuf, ringPos, ringLength, shut, mutex, standing, calls, args, returned, lens, stopped,
    mem, at, self, left, unfreeSize, reported

Pair == INSTANCE WildPointerCatcher WITH
    Thread <- {t1, t2}, Purger <- {t1, t2}, Item <- PairItem, Size <- PairSize,
    CatchSize <- 2, StealLimit <- 1,
    buf <- ringBuf, pos <- ringPos, length <- ringLength, closed <- shut, mutate <- mutex,
    pc <- standing, op <- calls, arg <- args, got <- returned, len <- lens, aborted <- stopped

pairQueue == <<ringBuf, ringPos, ringLength, shut, mutex, standing, calls, args, returned, lens, stopped>>
pairCatcher == <<mem, at, self, left, unfreeSize, reported>>
pairVars == <<pairQueue, pairCatcher>>

MCInit == part \in {"free", "pair"} /\ Init /\ Pair!CatcherInit

MCNext ==
    \/ part = "free" /\ Next /\ UNCHANGED <<part, pairVars>>
    \/ part = "pair" /\ Pair!CatcherNext /\ UNCHANGED <<part, vars>>

\* The fairness of the pair while it lives; nothing forces the free threads.
MCFairness ==
    \A t \in {t1, t2} :
        /\ WF_pairVars(part = "pair" /\ Pair!Running /\ Pair!Work(t))
        /\ SF_pairVars(part = "pair" /\ Pair!Running /\ Pair!Lock(t) /\ UNCHANGED pairCatcher)

MCSpec == MCInit /\ [][MCNext]_<<part, vars, pairVars>> /\ MCFairness

\* Every dealloc and every purge of the pair comes back, but one that the other
\* purge robs.
PairReturns == Pair!CallsReturn
=============================================================================
