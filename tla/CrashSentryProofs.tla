-------------------------- MODULE CrashSentryProofs --------------------------
(***************************************************************************)
(* Three properties of CrashSentry for every number of threads, in whatever  *)
(* order the kernel lists them: RecordsAlone, NobodyLeftSuspended and       *)
(* CrashReported.                                                          *)
(*                                                                         *)
(* A thread that has suspended the others holds the recording until it has  *)
(* removed the handlers: every other thread is suspended, or stopped by its *)
(* fault, or on its way out, where it meets no handler again.  One that     *)
(* finds the threads suspended already can only be a second one that was    *)
(* let go by the first on its way out.  What each step does to the threads  *)
(* is stated once (Effect), and each part of the invariant is kept by every *)
(* effect.  Reports by hand, and what is written about a crash, have        *)
(* sections of their own below.                                            *)
(***************************************************************************)
EXTENDS CrashSentry, TLAPS

USE ThreadsAssumption

Quiet == calls = 0 /\ crashes <= 2
InHandler(t) == place[t] = "handler"

(* The handlers of crashes, and the stages of each by number.              *)
Used == {"mach", "signal", "ns"}
Length(h) == IF h = "mach" THEN 11 ELSE IF h = "signal" THEN 10 ELSE 9
SuspendsAt(h, i) == i = IF h = "ns" THEN 4 ELSE 3
ResumesAt(h, i) == (h = "mach" /\ i = 10) \/ (h = "signal" /\ i = 9)
HoldsAt(h, i) ==
    \/ h = "mach" /\ i \in 4..9
    \/ h = "signal" /\ i \in 4..8
    \/ h = "ns" /\ i \in 5..8
LeavesAt(h, i) ==
    \/ h = "mach" /\ i \in 10..11
    \/ h = "signal" /\ i \in 9..10
    \/ h = "ns" /\ i = 9

Suspending(t) == InHandler(t) /\ SuspendsAt(handler[t], at[t])
Resuming(t) == InHandler(t) /\ ResumesAt(handler[t], at[t])
\* From when all others have been suspended until they are resumed, and after.
Holds(t) == InHandler(t) /\ HoldsAt(handler[t], at[t])
Leaving(t) == InHandler(t) /\ LeavesAt(handler[t], at[t])

Removed == installed \intersect AsyncSafe = {}

(* Threads that will never again touch the context, and those that cannot  *)
(* as long as they are suspended.                                          *)
Harmless(t) ==
    \/ place[t] \in {"gone", "faulted"}
    \/ Leaving(t)
    \/ place[t] = "signalled" /\ Removed
    \/ place[t] = "run" /\ crashes >= 2
Still(t) == suspended[t] > 0 \/ Harmless(t)
Stopped(t) == \A u \in Threads \ {t} : Still(u)
Begun(t) == place[t] # "wait" /\ ~(InHandler(t) /\ at[t] <= 3)

ThreadType ==
    /\ DOMAIN place = Threads /\ DOMAIN handler = Threads /\ DOMAIN at = Threads
    /\ DOMAIN loop = Threads /\ DOMAIN client = Threads
WorldType ==
    /\ running \in BOOLEAN /\ suspended \in [Threads -> Nat] /\ port \in Seq(Threads)
ContextType ==
    context = [handling |-> context.handling, recrash |-> context.recrash,
               thread |-> context.thread, kind |-> context.kind]
TypeOK == ThreadType /\ WorldType /\ ContextType

AppInv ==
    \A t \in App :
        /\ place[t] \in {"run", "handler", "faulted", "signalled"}
        /\ InHandler(t) => handler[t] \in {"signal", "ns"} \intersect chosen

PrimaryInv ==
    /\ place[Primary] \in {"wait", "handler", "faulted", "signalled", "gone"}
    /\ InHandler(Primary) =>
          /\ handler[Primary] = "mach"
          /\ client[Primary] \in App /\ place[client[Primary]] = "faulted"
    /\ place[Primary] # "gone" => "mach" \in chosen
    /\ place[Primary] = "signalled" => Removed

(* The secondary exception thread never gets to run.                       *)
SecondaryInv ==
    /\ place[Secondary] \in {"wait", "gone"}
    /\ place[Secondary] = "wait" =>
          /\ "mach" \in chosen /\ suspended[Secondary] >= 1
          /\ InHandler(Primary) /\ at[Primary] = 3
             /\ (\E i \in 1..loop[Primary] : Order[i] = Secondary) => suspended[Secondary] >= 2
          /\ InHandler(Primary) /\ at[Primary] = 4 => suspended[Secondary] >= 2

HandlerInv ==
    \A t \in Threads :
        InHandler(t) =>
            /\ handler[t] \in Used /\ at[t] \in 1..Length(handler[t])
            /\ loop[t] \in 0..Len(Order)
            /\ 2 < at[t] /\ at[t] < Length(handler[t]) => reserved = {} /\ context.handling
            /\ handler[t] = "ns" /\ at[t] <= 3 => loop[t] = 0
            /\ Leaving(t) => Removed

InstalledInv == installed \in {chosen, chosen \ AsyncSafe, {}} /\ chosen \subseteq Sentries
PortInv == place[Primary] = "wait" => \A i \in 1..Len(port) : place[port[i]] = "faulted"
MachInv ==
    /\ "mach" \in installed =>
          /\ ours /\ known = {Primary, Secondary}
          /\ place[Secondary] = "wait" /\ place[Primary] # "gone"
    /\ Removed => place[Primary] # "wait" /\ place[Secondary] = "gone"

LoopInv ==
    \A t \in Threads :
        Suspending(t) => \A i \in 1..loop[t] : Order[i] = t \/ Still(Order[i])
HoldsInv == \A t \in Threads : Holds(t) => Stopped(t)
AloneInv == \A t, u \in Threads : Holds(t) /\ Holds(u) => t = u
RunningInv ==
    ~running => \E v \in Threads : Resuming(v) \/ (Stopped(v) /\ (v = Primary => Begun(v)))

(* Each crash takes one thread of the program.                             *)
FewInv ==
    /\ crashes = 0 => \A t \in App : place[t] = "run"
    /\ \E a, b \in Threads :
          /\ crashes <= 1 => a = b
          /\ \A t \in App \ {a, b} : place[t] = "run"

ThreadInv == AppInv /\ PrimaryInv /\ SecondaryInv /\ HandlerInv
WorldInv == InstalledInv /\ PortInv /\ MachInv
OrderInv == LoopInv /\ HoldsInv /\ AloneInv /\ RunningInv
Inv == TypeOK /\ ThreadInv /\ WorldInv /\ OrderInv /\ FewInv
IInv == crashes \in Nat /\ calls \in Nat /\ (Quiet => Inv)

-----------------------------------------------------------------------------
USE DEF Quiet, bounds

LEMMA NextIsQuiet ==
    ASSUME crashes \in Nat, calls \in Nat, [Next]_vars
    PROVE  crashes' \in Nat /\ calls' \in Nat /\ (Quiet' => Quiet)
<1>1. CASE UNCHANGED vars
  BY <1>1 DEF vars
<1>2. ASSUME NEW t \in Threads, Crash(t) \/ ReportUserException(t) \/ Fault(t)
      PROVE  crashes' \in Nat /\ calls' \in Nat /\ (Quiet' => Quiet)
  BY <1>2 DEF Crash, ReportUserException, Fault
<1>3. ASSUME NEW t \in Threads, Step(t)
      PROVE  UNCHANGED bounds
  <2>1. CASE Receive(t)
    BY <2>1 DEF Receive
  <2>2. CASE TakeSignal(t)
    BY <2>2 DEF TakeSignal
  <2>3. CASE Read(t)
    BY <2>3 DEF Read
  <2>4. CASE Begin(t)
    BY <2>4 DEF Begin
  <2>5. CASE SuspendThreads(t)
    BY <2>5 DEF SuspendThreads
  <2>6. CASE ResumeThreads(t)
    BY <2>6 DEF ResumeThreads
  <2>7. CASE Activate(t)
    BY <2>7 DEF Activate
  <2>8. CASE Recrash(t)
    BY <2>8 DEF Recrash
  <2>9. CASE UninstallHandlers(t)
    BY <2>9 DEF UninstallHandlers
  <2>10. CASE Fill(t)
    BY <2>10 DEF Fill
  <2>11. CASE Open(t)
    BY <2>11 DEF Open
  <2>12. CASE Write(t)
    BY <2>12 DEF Write
  <2>13. CASE ClearContext(t)
    BY <2>13 DEF ClearContext
  <2>14. CASE Reinstall(t)
    BY <2>14 DEF Reinstall
  <2>15. CASE Reply(t)
    BY <2>15 DEF Reply
  <2>16. CASE Raise(t)
    BY <2>16 DEF Raise
  <2>17. CASE Abort(t)
    BY <2>17 DEF Abort
  <2> QED
    BY <1>3, <2>1, <2>2, <2>3, <2>4, <2>5, <2>6, <2>7, <2>8, <2>9, <2>10, <2>11, <2>12, <2>13, <2>14, <2>15, <2>16, <2>17 DEF Step
<1> QED
  BY <1>1, <1>2, <1>3 DEF Next

LEMMA OrderFacts ==
    /\ Len(Order) \in Nat
    /\ \A i \in 1..Len(Order) : Order[i] \in Threads
    /\ \A u \in Threads : \E i \in 1..Len(Order) : Order[i] = u
<1>1. Order \in Seq(Threads)
  OBVIOUS
<1>2. DOMAIN Order = 1..Len(Order) /\ Len(Order) \in Nat
  BY <1>1
<1>3. \A i \in 1..Len(Order) : Order[i] \in Threads
  BY <1>1, <1>2
<1>4. \A u \in Threads : \E i \in 1..Len(Order) : Order[i] = u
  BY <1>2 DEF Threads, Range
<1> QED
  BY <1>2, <1>3, <1>4

LEMMA NextInOrder ==
    ASSUME NEW i \in 0..Len(Order), i # Len(Order)
    PROVE  i + 1 \in 1..Len(Order) /\ i + 1 \in 0..Len(Order) /\ Order[i + 1] \in Threads
<1>1. Len(Order) \in Nat
  BY OrderFacts
<1>2. i + 1 \in 1..Len(Order) /\ i + 1 \in 0..Len(Order)
  BY <1>1
<1> QED
  BY <1>2, OrderFacts

LEMMA WithinOrder ==
    ASSUME NEW n \in 0..Len(Order), NEW i \in 1..n
    PROVE  Order[i] \in Threads
<1>1. Len(Order) \in Nat
  BY OrderFacts
<1>2. i \in 1..Len(Order)
  BY <1>1
<1> QED
  BY <1>2, OrderFacts

LEMMA ScriptLengths ==
    /\ Len(Script["mach"]) = 11 /\ Len(Script["signal"]) = 10 /\ Len(Script["ns"]) = 9
  BY DEF Script

(* The numbers of the stages.                                              *)
LEMMA Stages ==
    ASSUME NEW h \in Used, NEW i \in 1..Length(h)
    PROVE  /\ Len(Script[h]) = Length(h)
           /\ Script[h][i] = "read" <=> i = 1
           /\ Script[h][i] = "begin" <=> i = 2
           /\ Script[h][i] = "suspend" <=> SuspendsAt(h, i)
           /\ Script[h][i] = "activate" <=> h = "mach" /\ i = 4
           /\ Script[h][i] = "recrash"
                <=> (h = "mach" /\ i = 5) \/ (h = "signal" /\ i = 4) \/ (h = "ns" /\ i = 3)
           /\ Script[h][i] = "fill" <=> (h = "mach" /\ i = 6) \/ (h \in {"signal", "ns"} /\ i = 5)
           /\ Script[h][i] = "open" <=> (h = "mach" /\ i = 7) \/ (h \in {"signal", "ns"} /\ i = 6)
           /\ Script[h][i] = "write" <=> (h = "mach" /\ i = 8) \/ (h \in {"signal", "ns"} /\ i = 7)
           /\ Script[h][i] = "uninstall"
                <=> (h = "mach" /\ i = 9) \/ (h \in {"signal", "ns"} /\ i = 8)
           /\ Script[h][i] = "resume" <=> ResumesAt(h, i)
           /\ Script[h][i] = "reply" <=> h = "mach" /\ i = 11
           /\ Script[h][i] = "raise" <=> h = "signal" /\ i = 10
           /\ Script[h][i] = "abort" <=> h = "ns" /\ i = 9
           /\ Script[h][i] \notin {"clear", "reinstall"}
<1> USE ScriptLengths DEF Length, SuspendsAt, ResumesAt
<1>1. CASE h = "mach"
  <2> DEFINE s == Script["mach"]
  <2>1. i \in 1..11
    BY <1>1
  <2>2. /\ s[1] = "read" /\ s[2] = "begin" /\ s[3] = "suspend" /\ s[4] = "activate"
        /\ s[5] = "recrash" /\ s[6] = "fill" /\ s[7] = "open" /\ s[8] = "write"
        /\ s[9] = "uninstall" /\ s[10] = "resume" /\ s[11] = "reply"
    BY DEF Script
  <2> HIDE DEF s
  <2>3. Len(s) = 11 /\ s = Script[h] /\ h \in Used /\ h # "signal" /\ h # "ns"
    BY <1>1, ScriptLengths DEF s
  <2>4. CASE i = 1
    BY <1>1, <2>2, <2>3, <2>4
  <2>5. CASE i = 2
    BY <1>1, <2>2, <2>3, <2>5
  <2>6. CASE i = 3
    BY <1>1, <2>2, <2>3, <2>6
  <2>7. CASE i = 4
    BY <1>1, <2>2, <2>3, <2>7
  <2>8. CASE i = 5
    BY <1>1, <2>2, <2>3, <2>8
  <2>9. CASE i = 6
    BY <1>1, <2>2, <2>3, <2>9
  <2>10. CASE i = 7
    BY <1>1, <2>2, <2>3, <2>10
  <2>11. CASE i = 8
    BY <1>1, <2>2, <2>3, <2>11
  <2>12. CASE i = 9
    <3>1. Script[h][i] = "uninstall"
      BY <2>2, <2>3, <2>12
    <3> QED
      BY <1>1, <2>3, <2>12, <3>1
  <2>13. CASE i = 10
    BY <1>1, <2>2, <2>3, <2>13
  <2>14. CASE i = 11
    BY <1>1, <2>2, <2>3, <2>14
  <2>15. \/ i = 1 \/ i = 2 \/ i = 3 \/ i = 4 \/ i = 5 \/ i = 6 \/ i = 7 \/ i = 8 \/ i = 9
         \/ i = 10 \/ i = 11
    BY <2>1
  <2> QED
    BY <2>15, <2>4, <2>5, <2>6, <2>7, <2>8, <2>9, <2>10, <2>11, <2>12, <2>13, <2>14
<1>2. CASE h = "signal"
  <2>1. i \in 1..10
    BY <1>2
  <2> QED
    BY <1>2, <2>1, SMTT(60) DEF Script
<1>3. CASE h = "ns"
  <2>1. i \in 1..9
    BY <1>3
  <2> QED
    BY <1>3, <2>1, SMTT(60) DEF Script
<1> QED
  BY <1>1, <1>2, <1>3 DEF Used

LEMMA Update ==
    ASSUME NEW f \in [Threads -> Nat], NEW g, NEW u \in Threads,
           \/ g = f
           \/ g = [f EXCEPT ![u] = @ + 1]
           \/ f[u] # 0 /\ g = [f EXCEPT ![u] = @ - 1]
    PROVE  g \in [Threads -> Nat]
<1>1. CASE g = f
  BY <1>1
<1>2. CASE g = [f EXCEPT ![u] = @ + 1]
  <2>1. f[u] + 1 \in Nat
    OBVIOUS
  <2> QED
    BY <1>2, <2>1
<1>3. CASE f[u] # 0 /\ g = [f EXCEPT ![u] = @ - 1]
  <2>1. f[u] - 1 \in Nat
    BY <1>3
  <2> QED
    BY <1>3, <2>1
<1> QED
  BY <1>1, <1>2, <1>3

LEMMA RunsScript ==
    ASSUME Inv, NEW t \in Threads, NEW s, At(t, s)
    PROVE  /\ Can(t) /\ InHandler(t) /\ handler[t] \in Used /\ at[t] \in 1..Length(handler[t])
           /\ loop[t] \in 0..Len(Order) /\ Script[handler[t]][at[t]] = s
  BY DEF At, Inv, ThreadInv, HandlerInv, InHandler

LEMMA ThreadTypeKept ==
    ASSUME Inv, Quiet', NEW t \in Threads,
           Crash(t) \/ ReportUserException(t) \/ Fault(t) \/ Step(t)
    PROVE  ThreadType'
<1> USE DEF Inv, TypeOK, ThreadType, Enter, Leave, Advance
<1>1. CASE Crash(t)
  BY <1>1 DEF Crash, Trap
<1>2. CASE ReportUserException(t)
  BY <1>2 DEF ReportUserException
<1>3. CASE Fault(t)
  BY <1>3 DEF Fault, Trap
<1>4. CASE Receive(t)
  BY <1>4 DEF Receive
<1>5. CASE TakeSignal(t)
  BY <1>5 DEF TakeSignal
<1>6. CASE Read(t)
  BY <1>6 DEF Read
<1>7. CASE Begin(t)
  BY <1>7 DEF Begin
<1>8. CASE SuspendThreads(t)
  BY <1>8 DEF SuspendThreads
<1>9. CASE ResumeThreads(t)
  BY <1>9 DEF ResumeThreads
<1>10. CASE Activate(t)
  BY <1>10 DEF Activate
<1>11. CASE Recrash(t)
  BY <1>11 DEF Recrash, Uninstall
<1>12. CASE UninstallHandlers(t)
  BY <1>12 DEF UninstallHandlers, Uninstall
<1>13. CASE Fill(t)
  BY <1>13 DEF Fill
<1>14. CASE Open(t)
  BY <1>14 DEF Open
<1>15. CASE Write(t)
  BY <1>15 DEF Write
<1>16. CASE ClearContext(t)
  BY <1>16 DEF ClearContext
<1>17. CASE Reinstall(t)
  BY <1>17 DEF Reinstall
<1>18. CASE Reply(t)
  BY <1>18 DEF Reply
<1>19. CASE Raise(t)
  BY <1>19 DEF Raise
<1>20. CASE Abort(t)
  BY <1>20 DEF Abort
<1> QED
  BY <1>1, <1>2, <1>3, <1>4, <1>5, <1>6, <1>7, <1>8, <1>9, <1>10,
     <1>11, <1>12, <1>13, <1>14, <1>15, <1>16, <1>17, <1>18, <1>19, <1>20 DEF Step

LEMMA WorldTypeKept ==
    ASSUME Inv, Quiet', NEW t \in Threads,
           Crash(t) \/ ReportUserException(t) \/ Fault(t) \/ Step(t)
    PROVE  WorldType'
<1> USE DEF Inv, TypeOK, WorldType, Trap
<1>1. CASE Crash(t)
  <2>1. port' = port \/ port' = Append(port, t)
    BY <1>1 DEF Crash
  <2>2. port' \in Seq(Threads)
    <3> Append(port, t) \in Seq(Threads)
      BY DEF Threads
    <3> QED
      BY <2>1
  <2> QED
    BY <1>1, <2>2 DEF Crash
<1>2. CASE ReportUserException(t)
  BY <1>2 DEF ReportUserException
<1>3. CASE Fault(t)
  <2>1. port' = port \/ port' = Append(port, t)
    BY <1>3 DEF Fault
  <2>2. port' \in Seq(Threads)
    <3> Append(port, t) \in Seq(Threads)
      BY DEF Threads
    <3> QED
      BY <2>1
  <2> QED
    BY <1>3, <2>2 DEF Fault
<1>4. CASE Receive(t)
  BY <1>4 DEF Receive
<1>5. CASE TakeSignal(t)
  BY <1>5 DEF TakeSignal
<1>6. CASE Read(t)
  BY <1>6 DEF Read
<1>7. CASE Begin(t)
  BY <1>7 DEF Begin
<1>8. CASE SuspendThreads(t)
  <2>1. \/ suspended' = suspended
        \/ \E u \in Threads : suspended' = [suspended EXCEPT ![u] = @ + 1]
    <3>1. loop[t] \in 0..Len(Order)
      BY <1>8, RunsScript DEF SuspendThreads
    <3>3. loop[t] # Len(Order) => Order[loop[t] + 1] \in Threads
      BY <3>1, NextInOrder
    <3> QED
      BY <1>8, <3>3 DEF SuspendThreads
  <2>2. suspended' \in [Threads -> Nat]
    BY <2>1, Update
  <2> QED
    BY <1>8, <2>2 DEF SuspendThreads
<1>9. CASE ResumeThreads(t)
  <2>1. \/ suspended' = suspended
        \/ \E u \in Threads : suspended[u] # 0 /\ suspended' = [suspended EXCEPT ![u] = @ - 1]
    <3>1. loop[t] \in 0..Len(Order)
      BY <1>9, RunsScript DEF ResumeThreads
    <3>3. loop[t] # Len(Order) => Order[loop[t] + 1] \in Threads
      BY <3>1, NextInOrder
    <3> QED
      BY <1>9, <3>3 DEF ResumeThreads
  <2>2. suspended' \in [Threads -> Nat]
    BY <2>1, Update
  <2> QED
    BY <1>9, <2>2 DEF ResumeThreads
<1>10. CASE Activate(t)
  <2>1. \/ suspended' = suspended
        \/ suspended[Secondary] > 0 /\ suspended' = [suspended EXCEPT ![Secondary] = @ - 1]
    BY <1>10 DEF Activate
  <2>2. suspended' \in [Threads -> Nat]
    BY <2>1, Update
  <2> QED
    BY <1>10, <2>2 DEF Activate
<1>11. CASE Recrash(t)
  <2>1. suspended' \in [Threads -> Nat]
    BY <1>11 DEF Recrash, Uninstall
  <2> QED
    BY <1>11, <2>1 DEF Recrash
<1>12. CASE UninstallHandlers(t)
  <2>1. Uninstall(t, Uninstalled(t))
    BY <1>12 DEF UninstallHandlers
  <2>2. suspended' \in [Threads -> Nat]
    BY <2>1 DEF Uninstall
  <2> QED
    BY <1>12, <2>2 DEF UninstallHandlers
<1>13. CASE Fill(t)
  BY <1>13 DEF Fill
<1>14. CASE Open(t)
  BY <1>14 DEF Open
<1>15. CASE Write(t)
  BY <1>15 DEF Write
<1>16. CASE ClearContext(t)
  BY <1>16 DEF ClearContext
<1>17. CASE Reinstall(t)
  BY <1>17 DEF Reinstall
<1>18. CASE Reply(t)
  BY <1>18 DEF Reply
<1>19. CASE Raise(t)
  BY <1>19 DEF Raise
<1>20. CASE Abort(t)
  BY <1>20 DEF Abort
<1> QED
  BY <1>1, <1>2, <1>3, <1>4, <1>5, <1>6, <1>7, <1>8, <1>9, <1>10,
     <1>11, <1>12, <1>13, <1>14, <1>15, <1>16, <1>17, <1>18, <1>19, <1>20 DEF Step

LEMMA ContextTypeKept ==
    ASSUME Inv, Quiet', NEW t \in Threads,
           Crash(t) \/ ReportUserException(t) \/ Fault(t) \/ Step(t)
    PROVE  ContextType'
<1> USE DEF Inv, TypeOK, ContextType, Clear
<1>1. CASE Crash(t)
  BY <1>1 DEF Crash
<1>2. CASE ReportUserException(t)
  BY <1>2 DEF ReportUserException
<1>3. CASE Fault(t)
  BY <1>3 DEF Fault
<1>4. CASE Receive(t)
  BY <1>4 DEF Receive
<1>5. CASE TakeSignal(t)
  BY <1>5 DEF TakeSignal
<1>6. CASE Read(t)
  BY <1>6 DEF Read
<1>7. CASE Begin(t)
  BY <1>7 DEF Begin
<1>8. CASE SuspendThreads(t)
  BY <1>8 DEF SuspendThreads
<1>9. CASE ResumeThreads(t)
  BY <1>9 DEF ResumeThreads
<1>10. CASE Activate(t)
  BY <1>10 DEF Activate
<1>11. CASE Recrash(t)
  BY <1>11 DEF Recrash
<1>12. CASE UninstallHandlers(t)
  BY <1>12 DEF UninstallHandlers
<1>13. CASE Fill(t)
  BY <1>13 DEF Fill
<1>14. CASE Open(t)
  BY <1>14 DEF Open
<1>15. CASE Write(t)
  BY <1>15 DEF Write
<1>16. CASE ClearContext(t)
  BY <1>16 DEF ClearContext
<1>17. CASE Reinstall(t)
  BY <1>17 DEF Reinstall
<1>18. CASE Reply(t)
  BY <1>18 DEF Reply
<1>19. CASE Raise(t)
  BY <1>19 DEF Raise
<1>20. CASE Abort(t)
  BY <1>20 DEF Abort
<1> QED
  BY <1>1, <1>2, <1>3, <1>4, <1>5, <1>6, <1>7, <1>8, <1>9, <1>10,
     <1>11, <1>12, <1>13, <1>14, <1>15, <1>16, <1>17, <1>18, <1>19, <1>20 DEF Step

-----------------------------------------------------------------------------
(* What a step of t does to what the invariant speaks of.                  *)
OthersKept(t) ==
    \A u \in Threads \ {t} :
        handler'[u] = handler[u] /\ at'[u] = at[u] /\ loop'[u] = loop[u] /\ client'[u] = client[u]
PlacesKept(t) == \A u \in Threads \ {t} : place'[u] = place[u]
WorldKept == UNCHANGED <<installed, known, ours, running, suspended>>
GoesOn(t) == InHandler(t) /\ InHandler(t)' /\ handler'[t] = handler[t] /\ client'[t] = client[t]

Starts(t) ==
    /\ PlacesKept(t) /\ WorldKept
    /\ InHandler(t)' /\ at'[t] = 1 /\ loop'[t] = 0
    /\ \/ /\ place[t] = "run" /\ t \in App /\ handler'[t] = "ns" /\ "ns" \in installed
          /\ crashes' = crashes + 1 /\ port' = port
       \/ /\ place[t] = "signalled" /\ handler'[t] = "signal" /\ "signal" \in installed
          /\ crashes' = crashes /\ port' = port
       \/ /\ place[t] = "wait" /\ handler'[t] = "mach" /\ client'[t] = Head(port)
          /\ crashes' = crashes /\ port # <<>> /\ port' = Tail(port)
Stops(t) ==
    /\ PlacesKept(t) /\ WorldKept
    /\ \/ ours /\ place'[t] = "faulted" /\ port' = Append(port, t)
       \/ place'[t] = "signalled" /\ port' = port /\ (~ours \/ t \in App)
    /\ \/ place[t] = "run" /\ t \in App /\ crashes' = crashes + 1
       \/ Holds(t) /\ crashes' = crashes
       \/ Leaving(t) /\ ~Resuming(t) /\ t \in App /\ place'[t] = "signalled" /\ crashes' = crashes
Dies(t) ==
    /\ PlacesKept(t) /\ WorldKept /\ UNCHANGED <<crashes, port>>
    /\ place[t] = "signalled" /\ place'[t] = place[t]
Proceeds(t) ==
    /\ PlacesKept(t) /\ WorldKept /\ GoesOn(t) /\ UNCHANGED <<crashes, port>>
    /\ \/ at[t] = 1 /\ at'[t] = 2 /\ loop'[t] = 0
       \/ /\ at[t] = 1 /\ at'[t] = Length(handler[t]) /\ handler[t] \notin installed
          /\ loop'[t] = loop[t]
       \/ at[t] = 2 /\ at'[t] = 3 /\ loop'[t] = 0 /\ reserved' = {} /\ context'.handling
       \/ handler[t] = "ns" /\ at[t] = 3 /\ at'[t] = 4 /\ loop'[t] = loop[t]
       \/ /\ Holds(t) /\ Holds(t)' /\ (handler[t] = "mach" => at[t] > 4)
          /\ at'[t] > at[t] /\ loop'[t] \in {0, loop[t]}
Suspends(t) ==
    /\ PlacesKept(t) /\ GoesOn(t) /\ UNCHANGED <<installed, known, ours, crashes, port>>
    /\ Suspending(t)
    /\ \/ /\ ~running \/ loop[t] = Len(Order)
          /\ at'[t] = at[t] + 1 /\ loop'[t] = 0 /\ running' = FALSE /\ suspended' = suspended
       \/ /\ loop[t] # Len(Order) /\ loop'[t] = loop[t] + 1 /\ at'[t] = at[t]
          /\ running' = running
          /\ suspended' = IF Spared(t, Order[loop[t] + 1]) THEN suspended
                          ELSE [suspended EXCEPT ![Order[loop[t] + 1]] = @ + 1]
Resumes(t) ==
    /\ PlacesKept(t) /\ GoesOn(t) /\ UNCHANGED <<installed, known, ours, crashes, port>>
    /\ Resuming(t)
    /\ \/ at'[t] = at[t] + 1 /\ loop'[t] = 0 /\ running'
       \/ at'[t] = at[t] /\ loop'[t] \in 0..Len(Order) /\ running' = running
Activates(t) ==
    /\ PlacesKept(t) /\ GoesOn(t) /\ UNCHANGED <<installed, known, running, crashes, port>>
    /\ handler[t] = "mach" /\ at[t] = 4 /\ at'[t] = 5 /\ loop'[t] = 0
    /\ \/ /\ suspended[Secondary] > 0 /\ ours' = ours
          /\ suspended' = [suspended EXCEPT ![Secondary] = @ - 1]
       \/ /\ ~(t = Primary /\ t \in known /\ suspended[Secondary] > 0)
          /\ ours' = FALSE /\ suspended' = suspended
Removes(t) ==
    /\ GoesOn(t) /\ UNCHANGED <<running, crashes, port>>
    /\ (handler[t] = "ns" /\ at[t] = 3) \/ Holds(t)
    /\ at'[t] = at[t] + 1 /\ loop'[t] = loop[t]
    /\ installed' \in {installed \ AsyncSafe, installed \ Sentries}
    /\ IF "mach" \in installed
       THEN /\ \A u \in Threads \ {t} :
                 IF u \in known THEN place'[u] = "gone" /\ suspended'[u] = 0
                 ELSE place'[u] = place[u] /\ suspended'[u] = suspended[u]
            /\ suspended'[t] = suspended[t]
       ELSE PlacesKept(t) /\ UNCHANGED <<known, ours, suspended>>
Replies(t) ==
    /\ WorldKept /\ UNCHANGED <<crashes, port>>
    /\ Leaving(t) /\ ~Resuming(t) /\ handler[t] = "mach" /\ place'[t] = "gone"
    /\ \A u \in Threads \ {t} :
          place'[u] = place[u] \/ (u = client[t] /\ place[u] = "faulted" /\ place'[u] = "signalled")

Effect(t) ==
    /\ Can(t) /\ OthersKept(t) /\ UNCHANGED chosen
    /\ reserved = {} => reserved' = {}
    /\ context.handling => context'.handling
    /\ \/ Starts(t) \/ Stops(t) \/ Dies(t) \/ Proceeds(t) \/ Suspends(t)
       \/ Resumes(t) \/ Activates(t) \/ Removes(t) \/ Replies(t)

LEMMA Effects ==
    ASSUME Inv, calls \in Nat, Quiet', NEW t \in Threads,
           Crash(t) \/ ReportUserException(t) \/ Fault(t) \/ Step(t)
    PROVE  Effect(t)
<1> USE DEF At, InHandler, Enter, Leave, Advance, Trap, OthersKept, PlacesKept, WorldKept, GoesOn, Effect
<1>0. ThreadType /\ ContextType
  BY DEF Inv, TypeOK
<1> USE <1>0 DEF ThreadType
<1>1. CASE Crash(t)
  <2>1. CASE Enter(t, "ns")
    <3>1. Starts(t)
      BY <1>1, <2>1 DEF Crash, Starts
    <3> QED
      BY <1>1, <3>1 DEF Crash
  <2>2. CASE ~Enter(t, "ns")
    <3>1. Trap(t) \/ (place' = [place EXCEPT ![t] = "signalled"] /\ UNCHANGED <<handler, at, loop, port>>)
      BY <1>1, <2>2 DEF Crash
    <3>2. Stops(t)
      BY <1>1, <3>1 DEF Crash, Stops
    <3>3. OthersKept(t)
      BY <1>1, <3>1 DEF Crash
    <3> QED
      BY <1>1, <3>2, <3>3 DEF Crash
  <2> QED
    BY <2>1, <2>2
<1>2. CASE ReportUserException(t)
  BY <1>2 DEF ReportUserException, Inv
<1>3. CASE Fault(t)
  <2>1. CASE At(t, "open")
    <3>1. Holds(t)
      BY <2>1, RunsScript, Stages, SMTT(30) DEF Holds, HoldsAt, Used
    <3>2. Stops(t)
      BY <1>3, <3>1 DEF Fault, Stops
    <3> QED
      BY <1>3, <3>2 DEF Fault
  <2>2. CASE At(t, "write")
    <3>1. Holds(t)
      BY <2>2, RunsScript, Stages, SMTT(30) DEF Holds, HoldsAt, Used
    <3>2. Stops(t)
      BY <1>3, <3>1 DEF Fault, Stops
    <3> QED
      BY <1>3, <3>2 DEF Fault
  <2> QED
    BY <1>3, <2>1, <2>2 DEF Fault
<1>4. CASE Receive(t)
  BY <1>4 DEF Receive, Starts
<1>5. CASE TakeSignal(t)
  <2>1. CASE "signal" \in installed /\ signal[t] \notin masked[t]
    BY <1>5, <2>1 DEF TakeSignal, Starts
  <2>2. CASE ~("signal" \in installed /\ signal[t] \notin masked[t])
    BY <1>5, <2>2 DEF TakeSignal, Dies
  <2> QED
    BY <2>1, <2>2
<1>6. CASE Read(t)
  <2>1. At(t, "read")
    BY <1>6 DEF Read
  <2>2. InHandler(t) /\ handler[t] \in Used /\ at[t] \in 1..Length(handler[t]) /\ loop[t] \in 0..Len(Order)
        /\ Script[handler[t]][at[t]] = "read"
    BY <2>1, RunsScript
  <2>3. at[t] = 1
    BY <2>2, Stages, SMTT(30) DEF Suspending, Resuming, Holds, Leaving, Used, HoldsAt, LeavesAt, Length
  <2>4. Proceeds(t)
    BY <1>6, <2>2, <2>3, Stages, SMTT(30) DEF Read, Proceeds, Holds
  <2> QED
    BY <1>6, <2>4 DEF Read
<1>7. CASE Begin(t)
  <2>1. At(t, "begin")
    BY <1>7 DEF Begin
  <2>2. InHandler(t) /\ handler[t] \in Used /\ at[t] \in 1..Length(handler[t]) /\ loop[t] \in 0..Len(Order)
        /\ Script[handler[t]][at[t]] = "begin"
    BY <2>1, RunsScript
  <2>3. at[t] = 2
    BY <2>2, Stages, SMTT(30) DEF Suspending, Resuming, Holds, Leaving, Used, HoldsAt, LeavesAt, Length
  <2>4. Proceeds(t)
    BY <1>7, <2>2, <2>3 DEF Begin, Proceeds
  <2> QED
    BY <1>7, <2>4 DEF Begin
<1>8. CASE SuspendThreads(t)
  <2>1. At(t, "suspend")
    BY <1>8 DEF SuspendThreads
  <2>2. InHandler(t) /\ handler[t] \in Used /\ at[t] \in 1..Length(handler[t]) /\ loop[t] \in 0..Len(Order)
        /\ Script[handler[t]][at[t]] = "suspend"
    BY <2>1, RunsScript
  <2>3. Suspending(t)
    BY <2>2, Stages, SMTT(30) DEF Suspending, Resuming, Holds, Leaving, Used, HoldsAt, LeavesAt, Length
  <2>4. Suspends(t)
    <3>1. CASE AlreadySuspended(t) \/ loop[t] = Len(Order)
      BY <1>8, <2>2, <2>3, <3>1 DEF SuspendThreads, Suspends, AlreadySuspended
    <3>2. CASE ~(AlreadySuspended(t) \/ loop[t] = Len(Order))
      BY <1>8, <2>2, <2>3, <3>2 DEF SuspendThreads, Suspends
    <3> QED
      BY <3>1, <3>2
  <2> QED
    BY <1>8, <2>4 DEF SuspendThreads
<1>9. CASE ResumeThreads(t)
  <2>1. At(t, "resume")
    BY <1>9 DEF ResumeThreads
  <2>2. InHandler(t) /\ handler[t] \in Used /\ at[t] \in 1..Length(handler[t]) /\ loop[t] \in 0..Len(Order)
        /\ Script[handler[t]][at[t]] = "resume"
    BY <2>1, RunsScript
  <2>3. Resuming(t)
    BY <2>2, Stages, SMTT(30) DEF Suspending, Resuming, Holds, Leaving, Used, HoldsAt, LeavesAt, Length
  <2>4. Resumes(t)
    BY <1>9, <2>2, <2>3 DEF ResumeThreads, Resumes
  <2> QED
    BY <1>9, <2>4 DEF ResumeThreads
<1>10. CASE Activate(t)
  <2>1. At(t, "activate")
    BY <1>10 DEF Activate
  <2>2. InHandler(t) /\ handler[t] \in Used /\ at[t] \in 1..Length(handler[t]) /\ loop[t] \in 0..Len(Order)
        /\ Script[handler[t]][at[t]] = "activate"
    BY <2>1, RunsScript
  <2>3. handler[t] = "mach" /\ at[t] = 4
    BY <2>2, Stages, SMTT(30) DEF Suspending, Resuming, Holds, Leaving, Used, HoldsAt, LeavesAt, Length
  <2>4. Activates(t)
    BY <1>10, <2>2, <2>3 DEF Activate, Activates
  <2> QED
    BY <1>10, <2>4 DEF Activate
<1>11. CASE Recrash(t)
  <2>1. At(t, "recrash")
    BY <1>11 DEF Recrash
  <2>2. InHandler(t) /\ handler[t] \in Used /\ at[t] \in 1..Length(handler[t]) /\ loop[t] \in 0..Len(Order)
        /\ Script[handler[t]][at[t]] = "recrash"
    BY <2>1, RunsScript
  <2>3. \/ handler[t] = "ns" /\ at[t] = 3
        \/ Holds(t) /\ HoldsAt(handler[t], at[t] + 1) /\ (handler[t] = "mach" => at[t] > 4)
    <3>1. \/ handler[t] = "mach" /\ at[t] = 5
          \/ handler[t] = "signal" /\ at[t] = 4
          \/ handler[t] = "ns" /\ at[t] = 3
      BY <2>2, Stages, SMTT(60)
    <3> QED
      BY <2>2, <3>1 DEF Holds, HoldsAt
  <2>4. CASE was[t]
    <3>1. Removes(t)
      <4>1. context.handling
        BY <2>2, <2>3 DEF Inv, ThreadInv, HandlerInv, Holds, HoldsAt, Length
      <4>2. Uninstall(t, Uninstalled(t)) /\ AsyncSafe \subseteq Uninstalled(t)
        BY <1>11, <2>4 DEF Recrash, Uninstalled, AsyncSafe, Sentries
      <4>3. GoesOn(t) /\ UNCHANGED <<running, crashes, port>> /\ at'[t] = at[t] + 1 /\ loop'[t] = loop[t]
        BY <1>11, <2>2, <2>4, <4>2 DEF Recrash, Uninstall
      <4>4. CASE "mach" \in installed
        BY <2>3, <4>1, <4>2, <4>3, <4>4 DEF Removes, Uninstall, Uninstalled, AsyncSafe, Inv, TypeOK, WorldType
      <4>5. CASE "mach" \notin installed
        BY <2>3, <4>1, <4>2, <4>3, <4>5 DEF Removes, Uninstall, Uninstalled
      <4> QED
        BY <4>4, <4>5
    <3> QED
      BY <1>11, <2>4, <3>1 DEF Recrash, ContextType
  <2>5. CASE ~was[t]
    <3>1. Proceeds(t)
      <4>1. (handler[t] = "ns" /\ at[t] = 3) \/ Holds(t)'
        BY <1>11, <2>2, <2>3, <2>5 DEF Recrash, Holds
      <4> QED
        BY <1>11, <2>2, <2>3, <2>5, <4>1 DEF Recrash, Proceeds
    <3> QED
      BY <1>11, <2>5, <3>1 DEF Recrash
  <2> QED
    BY <2>4, <2>5
<1>12. CASE UninstallHandlers(t)
  <2>1. At(t, "uninstall")
    BY <1>12 DEF UninstallHandlers
  <2>2. InHandler(t) /\ handler[t] \in Used /\ at[t] \in 1..Length(handler[t]) /\ loop[t] \in 0..Len(Order)
        /\ Script[handler[t]][at[t]] = "uninstall"
    BY <2>1, RunsScript
  <2>3. Holds(t)
    BY <2>2, Stages, SMTT(30) DEF Suspending, Resuming, Holds, Leaving, Used, HoldsAt, LeavesAt, Length
  <2>4. Removes(t)
    <3>1. context.handling
      BY <2>2, <2>3 DEF Inv, ThreadInv, HandlerInv, Holds, HoldsAt, Length
    <3>2. Uninstall(t, Uninstalled(t)) /\ AsyncSafe \subseteq Uninstalled(t)
      BY <1>12 DEF UninstallHandlers, Uninstalled, AsyncSafe, Sentries
    <3>3. GoesOn(t) /\ UNCHANGED <<running, crashes, port>> /\ at'[t] = at[t] + 1 /\ loop'[t] = loop[t]
      BY <1>12, <2>2, <3>2 DEF UninstallHandlers, Uninstall
    <3>4. CASE "mach" \in installed
      BY <2>3, <3>1, <3>2, <3>3, <3>4 DEF Removes, Uninstall, Uninstalled, AsyncSafe, Inv, TypeOK, WorldType
    <3>5. CASE "mach" \notin installed
      BY <2>3, <3>1, <3>2, <3>3, <3>5 DEF Removes, Uninstall, Uninstalled
    <3> QED
      BY <3>4, <3>5
  <2> QED
    BY <1>12, <2>4 DEF UninstallHandlers
<1>13. CASE Fill(t)
  <2>1. At(t, "fill")
    BY <1>13 DEF Fill
  <2>2. InHandler(t) /\ handler[t] \in Used /\ at[t] \in 1..Length(handler[t]) /\ loop[t] \in 0..Len(Order)
        /\ Script[handler[t]][at[t]] = "fill"
    BY <2>1, RunsScript
  <2>3. Holds(t) /\ HoldsAt(handler[t], at[t] + 1) /\ (handler[t] = "mach" => at[t] > 4)
    BY <2>2, Stages, SMTT(30) DEF Suspending, Resuming, Holds, Leaving, Used, HoldsAt, LeavesAt, Length
  <2>4. Proceeds(t)
    BY <1>13, <2>2, <2>3, Stages, SMTT(30) DEF Fill, Proceeds, Holds
  <2> QED
    BY <1>13, <2>4 DEF Fill
<1>14. CASE Open(t)
  <2>1. At(t, "open")
    BY <1>14 DEF Open
  <2>2. InHandler(t) /\ handler[t] \in Used /\ at[t] \in 1..Length(handler[t]) /\ loop[t] \in 0..Len(Order)
        /\ Script[handler[t]][at[t]] = "open"
    BY <2>1, RunsScript
  <2>3. Holds(t) /\ HoldsAt(handler[t], at[t] + 1) /\ HoldsAt(handler[t], at[t] + 2) /\ (handler[t] = "mach" => at[t] > 4)
    <3>1. (handler[t] = "mach" /\ at[t] = 7) \/ (handler[t] \in {"signal", "ns"} /\ at[t] = 6)
      BY <2>2, Stages, SMTT(60)
    <3> QED
      BY <2>2, <3>1 DEF Holds, HoldsAt
  <2>4. Proceeds(t)
    BY <1>14, <2>2, <2>3, Stages, SMTT(30) DEF Open, Proceeds, Holds
  <2> QED
    BY <1>14, <2>4 DEF Open
<1>15. CASE Write(t)
  <2>1. At(t, "write")
    BY <1>15 DEF Write
  <2>2. InHandler(t) /\ handler[t] \in Used /\ at[t] \in 1..Length(handler[t]) /\ loop[t] \in 0..Len(Order)
        /\ Script[handler[t]][at[t]] = "write"
    BY <2>1, RunsScript
  <2>3. Holds(t) /\ HoldsAt(handler[t], at[t] + 1) /\ (handler[t] = "mach" => at[t] > 4)
    BY <2>2, Stages, SMTT(30) DEF Suspending, Resuming, Holds, Leaving, Used, HoldsAt, LeavesAt, Length
  <2>4. Proceeds(t)
    BY <1>15, <2>2, <2>3, Stages, SMTT(30) DEF Write, Proceeds, Holds
  <2> QED
    BY <1>15, <2>4 DEF Write
<1>16. CASE ClearContext(t)
  BY <1>16, RunsScript, Stages DEF ClearContext
<1>17. CASE Reinstall(t)
  BY <1>17, RunsScript, Stages DEF Reinstall
<1>18. CASE Reply(t)
  <2>1. At(t, "reply")
    BY <1>18 DEF Reply
  <2>2. InHandler(t) /\ handler[t] \in Used /\ at[t] \in 1..Length(handler[t]) /\ loop[t] \in 0..Len(Order)
        /\ Script[handler[t]][at[t]] = "reply"
    BY <2>1, RunsScript
  <2>3. Leaving(t) /\ ~Resuming(t) /\ handler[t] = "mach"
    BY <2>2, Stages, SMTT(30) DEF Suspending, Resuming, Holds, Leaving, Used, HoldsAt, LeavesAt, Length
  <2>4. Replies(t)
    BY <1>18, <2>2, <2>3 DEF Reply, Replies
  <2> QED
    BY <1>18, <2>4 DEF Reply
<1>19. CASE Raise(t)
  <2>1. At(t, "raise")
    BY <1>19 DEF Raise
  <2>2. InHandler(t) /\ handler[t] \in Used /\ at[t] \in 1..Length(handler[t]) /\ loop[t] \in 0..Len(Order)
        /\ Script[handler[t]][at[t]] = "raise"
    BY <2>1, RunsScript
  <2>3. Leaving(t) /\ ~Resuming(t) /\ handler[t] # "mach"
    BY <2>2, Stages, SMTT(30) DEF Suspending, Resuming, Holds, Leaving, Used, HoldsAt, LeavesAt, Length
  <2>4. Stops(t)
    <3>1. t \in App
      BY <2>2, <2>3 DEF Inv, ThreadInv, PrimaryInv, SecondaryInv, App
    <3> QED
      BY <1>19, <2>3, <3>1 DEF Raise, Stops
  <2> QED
    BY <1>19, <2>4 DEF Raise
<1>20. CASE Abort(t)
  <2>1. At(t, "abort")
    BY <1>20 DEF Abort
  <2>2. InHandler(t) /\ handler[t] \in Used /\ at[t] \in 1..Length(handler[t]) /\ loop[t] \in 0..Len(Order)
        /\ Script[handler[t]][at[t]] = "abort"
    BY <2>1, RunsScript
  <2>3. Leaving(t) /\ ~Resuming(t) /\ handler[t] # "mach"
    BY <2>2, Stages, SMTT(30) DEF Suspending, Resuming, Holds, Leaving, Used, HoldsAt, LeavesAt, Length
  <2>4. Stops(t)
    <3>1. t \in App
      BY <2>2, <2>3 DEF Inv, ThreadInv, PrimaryInv, SecondaryInv, App
    <3> QED
      BY <1>20, <2>3, <3>1 DEF Abort, Stops
  <2> QED
    BY <1>20, <2>4 DEF Abort
<1> QED
  BY <1>1, <1>2, <1>3, <1>4, <1>5, <1>6, <1>7, <1>8, <1>9, <1>10,
     <1>11, <1>12, <1>13, <1>14, <1>15, <1>16, <1>17, <1>18, <1>19, <1>20 DEF Step

-----------------------------------------------------------------------------
(* Which threads are in which handler, and how the stages exclude each      *)
(* other.                                                                  *)
LEMMA InHandlers ==
    ASSUME Inv, NEW t \in Threads
    PROVE  /\ t = Primary \/ t = Secondary \/ t \in App
           /\ InHandler(t) => t # Secondary /\ handler[t] \in Used /\ at[t] \in 1..Length(handler[t])
           /\ InHandler(t) /\ handler[t] = "mach" => t = Primary
           /\ InHandler(t) /\ t = Primary => handler[t] = "mach"
           /\ Leaving(t) => Removed
           /\ Suspending(t) => ~Leaving(t)
           /\ Resuming(t) => Leaving(t)
           /\ Holds(t) => ~Leaving(t)
<1> USE DEF Inv, ThreadInv
<1>1. t = Primary \/ t = Secondary \/ t \in App
  BY DEF App
<1>2. InHandler(t) => t # Secondary /\ handler[t] \in Used /\ at[t] \in 1..Length(handler[t])
  BY DEF SecondaryInv, HandlerInv, InHandler
<1>3. InHandler(t) /\ handler[t] = "mach" => t = Primary
  BY <1>1, <1>2 DEF AppInv
<1>4. InHandler(t) /\ t = Primary => handler[t] = "mach"
  BY DEF PrimaryInv
<1>5. Leaving(t) => Removed
  BY DEF HandlerInv, Leaving
<1>6. /\ Suspending(t) => ~Leaving(t)
      /\ Resuming(t) => Leaving(t)
      /\ Holds(t) => ~Leaving(t)
  BY DEF Suspending, Resuming, Holds, Leaving, SuspendsAt, ResumesAt, HoldsAt, LeavesAt
<1> QED
  BY <1>1, <1>2, <1>3, <1>4, <1>5, <1>6

(* What has been removed is not installed again.                           *)
LEMMA RemovedKept ==
    ASSUME Removed, NEW t \in Threads, Effect(t)
    PROVE  Removed'
<1>1. installed' \subseteq installed
  BY DEF Effect, Starts, Stops, Dies, Proceeds, Suspends, Resumes, Activates, Removes, Replies, WorldKept
<1> QED
  BY <1>1 DEF Removed

(* A thread that is harmless stays so.                                     *)
LEMMA HarmlessKept ==
    ASSUME Inv, crashes \in Nat, Quiet', NEW t \in Threads, Effect(t),
           NEW u \in Threads, Harmless(u)
    PROVE  Harmless(u)'
<1> USE DEF Effect
<1>0. Removed => Removed'
  BY RemovedKept
<1>1. crashes' \in Nat /\ crashes' >= crashes /\ OthersKept(t)
  BY DEF Starts, Stops, Dies, Proceeds, Suspends, Resumes, Activates, Removes, Replies
<1>2. CASE u # t
  <2>1. handler'[u] = handler[u] /\ at'[u] = at[u]
    BY <1>1, <1>2 DEF OthersKept
  <2>2. CASE place'[u] = place[u]
    BY <1>0, <1>1, <2>1, <2>2 DEF Harmless, Leaving, InHandler
  <2>3. CASE place'[u] = "gone"
    BY <2>3 DEF Harmless
  <2>4. CASE Replies(t)
    <3>1. Removed'
      BY <1>0, <2>4, InHandlers DEF Replies
    <3>2. place'[u] = place[u] \/ place'[u] = "signalled"
      BY <1>2, <2>4 DEF Replies
    <3> QED
      BY <2>2, <3>1, <3>2 DEF Harmless
  <2> QED
    BY <1>2, <2>2, <2>3, <2>4
       DEF Starts, Stops, Dies, Proceeds, Suspends, Resumes, Activates, Removes, PlacesKept
<1>3. CASE u = t
  <2> USE <1>3
  <2>1. CASE Starts(t)
    <3>1. place[t] = "signalled" /\ Removed
      BY <2>1, <1>1 DEF Starts, Harmless, Leaving, InHandler
    <3> QED
      BY <2>1, <3>1 DEF Starts, Removed, AsyncSafe
  <2>2. CASE Stops(t)
    <3>1. place[t] # "run"
      BY <2>2, <1>1 DEF Stops, Harmless, Leaving, Holds, InHandler
    <3>2. Leaving(t) /\ place'[t] = "signalled"
      BY <2>2, <3>1, InHandlers DEF Stops, Harmless, Holds, InHandler
    <3> QED
      BY <3>2, <1>0, InHandlers DEF Harmless
  <2>3. CASE Dies(t)
    <3>1. Removed
      BY <2>3 DEF Dies, Harmless, Leaving, InHandler
    <3> QED
      BY <2>3, <3>1, <1>0 DEF Dies, Harmless
  <2>4. CASE Resumes(t)
    <3>1. Leaving(t)'
      BY <2>4 DEF Resumes, GoesOn, Resuming, ResumesAt, Leaving, LeavesAt, InHandler
    <3> QED
      BY <3>1 DEF Harmless
  <2>5. CASE Replies(t)
    BY <2>5 DEF Replies, Harmless
  <2>6. CASE Proceeds(t) \/ Suspends(t) \/ Activates(t) \/ Removes(t)
    <3>1. InHandler(t) /\ Leaving(t)
      BY <2>6 DEF Proceeds, Suspends, Activates, Removes, GoesOn, Harmless, InHandler
    <3>2. handler[t] \in Used /\ at[t] \in 1..Length(handler[t])
      BY <3>1, InHandlers
    <3> QED
      BY <2>6, <3>1, <3>2, InHandlers
         DEF Proceeds, Suspends, Activates, Removes, Leaving, LeavesAt, Holds, HoldsAt, Suspending, SuspendsAt, Used
  <2> QED
    BY <2>1, <2>2, <2>3, <2>4, <2>5, <2>6
<1> QED
  BY <1>2, <1>3

(* A thread stays stopped, unless the threads are being resumed.           *)
LEMMA StillKept ==
    ASSUME Inv, crashes \in Nat, Quiet', NEW t \in Threads, Effect(t), ~Resumes(t),
           NEW u \in Threads, Still(u)
    PROVE  Still(u)'
<1>1. CASE Harmless(u)
  BY <1>1, HarmlessKept DEF Still
<1>2. CASE ~Harmless(u)
  <2>0. suspended[u] > 0 /\ u # t /\ suspended \in [Threads -> Nat]
    BY <1>2 DEF Still, Can, Effect, Inv, TypeOK, WorldType
  <2>1. CASE Suspends(t)
    <3>1. suspended'[u] \in {suspended[u], suspended[u] + 1}
      BY <2>0, <2>1 DEF Suspends
    <3> QED
      BY <2>0, <3>1 DEF Still
  <2>2. CASE Activates(t)
    <3>1. CASE u = Secondary /\ place[Secondary] = "wait"
      <4>1. InHandler(Primary) /\ at[Primary] = 4
        BY <2>2, InHandlers DEF Activates, GoesOn
      <4>2. suspended[Secondary] >= 2
        BY <3>1, <4>1 DEF Inv, ThreadInv, SecondaryInv
      <4>3. suspended'[Secondary] \in {suspended[Secondary], suspended[Secondary] - 1}
        BY <2>0, <2>2 DEF Activates
      <4> QED
        BY <2>0, <3>1, <4>2, <4>3 DEF Still
    <3>2. CASE u = Secondary /\ place[Secondary] # "wait"
      BY <1>2, <3>2 DEF Inv, ThreadInv, SecondaryInv, Harmless
    <3>3. CASE u # Secondary
      BY <2>0, <2>2, <3>3 DEF Activates, Still
    <3> QED
      BY <3>1, <3>2, <3>3
  <2>3. CASE Removes(t)
    BY <2>0, <2>3 DEF Removes, Still, Harmless
  <2>4. CASE suspended' = suspended
    BY <2>0, <2>4 DEF Still
  <2> QED
    BY <2>1, <2>2, <2>3, <2>4 DEF Effect, Starts, Stops, Dies, Proceeds, Replies, WorldKept
<1> QED
  BY <1>1, <1>2

(* With two threads in handlers, of which one is on its way out, all others *)
(* are harmless: only two have crashed.                                    *)
LEMMA OthersHarmless ==
    ASSUME Inv, Quiet, crashes \in Nat, Removed, NEW t \in Threads, NEW v \in Threads, t # v,
           InHandler(t), InHandler(v), NEW u \in Threads \ {t, v}
    PROVE  Harmless(u)
<1>1. PICK a \in Threads, b \in Threads :
          /\ crashes <= 1 => a = b
          /\ \A w \in App \ {a, b} : place[w] = "run"
  BY DEF Inv, FewInv
<1>2. t # Secondary /\ v # Secondary
  BY InHandlers
<1>3. InHandler(Primary) => client[Primary] \in App /\ place[client[Primary]] = "faulted"
  BY DEF Inv, ThreadInv, PrimaryInv
<1>4. CASE u = Secondary
  BY <1>4 DEF Inv, WorldInv, MachInv, Harmless
<1>5. CASE u = Primary
  <2>1. t \in App /\ v \in App /\ t \in {a, b} /\ v \in {a, b}
    BY <1>1, <1>2, <1>5 DEF App, InHandler
  <2>2. ~InHandler(Primary)
    BY <1>1, <1>3, <2>1 DEF InHandler
  <2> QED
    BY <1>5, <2>2 DEF Inv, ThreadInv, WorldInv, PrimaryInv, MachInv, InHandler, Harmless, TypeOK, ThreadType
<1>6. CASE u \in App /\ place[u] = "run"
  <2>1. t \in App \/ v \in App
    BY <1>2 DEF App
  <2>2. crashes >= 2
    <3>1. SUFFICES ASSUME crashes < 2 PROVE FALSE
      OBVIOUS
    <3>2. a = b
      BY <1>1, <3>1
    <3> QED
      BY <1>1, <1>2, <1>3, <2>1, <3>2 DEF InHandler, App
  <2> QED
    BY <1>6, <2>2 DEF Harmless
<1>7. CASE u \in App /\ place[u] # "run"
  <2>1. CASE t \in App /\ v \in App
    BY <1>1, <1>7, <2>1 DEF InHandler
  <2>2. CASE t = Primary \/ v = Primary
    BY <1>1, <1>2, <1>3, <1>7, <2>2 DEF InHandler, App, Harmless
  <2> QED
    BY <1>2, <2>1, <2>2 DEF App
<1> QED
  BY <1>4, <1>5, <1>6, <1>7 DEF App

(* What was stopped stays so as long as another thread than the one that    *)
(* acts is in a handler: if threads are resumed, these are harmless.       *)
LEMMA StillWhileHandled ==
    ASSUME Inv, crashes \in Nat, Quiet, Quiet', NEW t \in Threads, Effect(t),
           NEW v \in Threads \ {t}, InHandler(v), NEW u \in Threads \ {v}, Still(u)
    PROVE  Still(u)'
<1>1. CASE ~Resumes(t)
  BY <1>1, StillKept
<1>2. CASE Resumes(t)
  <2>1. InHandler(t) /\ Leaving(t) /\ Removed
    BY <1>2, InHandlers DEF Resumes, GoesOn
  <2>2. Harmless(u)
    BY <2>1, OthersHarmless DEF Harmless
  <2> QED
    BY <2>2, HarmlessKept DEF Still
<1> QED
  BY <1>1, <1>2

(* A thread other than t is in a handler only if it was, and at the same   *)
(* step.                                                                   *)
LEMMA OthersInHandlers ==
    ASSUME NEW t \in Threads, Effect(t), NEW v \in Threads \ {t}
    PROVE  /\ InHandler(v)' => InHandler(v)
           /\ InHandler(v) /\ ~Removes(t) => InHandler(v)'
           /\ handler'[v] = handler[v] /\ at'[v] = at[v] /\ loop'[v] = loop[v] /\ client'[v] = client[v]
<1>1. InHandler(v)' => InHandler(v)
  BY DEF Effect, InHandler, PlacesKept, Starts, Stops, Dies, Proceeds, Suspends, Resumes, Activates, Removes, Replies
<1>2. InHandler(v) /\ ~Removes(t) => InHandler(v)'
  BY DEF Effect, InHandler, PlacesKept, Starts, Stops, Dies, Proceeds, Suspends, Resumes, Activates, Replies
<1> QED
  BY <1>1, <1>2 DEF Effect, OthersKept

LEMMA HandlerKept ==
    ASSUME Inv, crashes \in Nat, Quiet, Quiet', NEW t \in Threads, Effect(t)
    PROVE  HandlerInv'
<1> SUFFICES ASSUME NEW v \in Threads, InHandler(v)'
             PROVE  /\ handler'[v] \in Used /\ at'[v] \in 1..Length(handler'[v])
                    /\ loop'[v] \in 0..Len(Order)
                    /\ 2 < at'[v] /\ at'[v] < Length(handler'[v]) => reserved' = {} /\ context'.handling
                    /\ handler'[v] = "ns" /\ at'[v] <= 3 => loop'[v] = 0
                    /\ Leaving(v)' => Removed'
  BY DEF HandlerInv
<1>0. Removed => Removed'
  BY RemovedKept
<1>1. /\ reserved = {} => reserved' = {}
      /\ context.handling => context'.handling
  BY DEF Effect
<1>5. 0 \in 0..Len(Order)
  BY OrderFacts
<1>2. HandlerInv
  BY DEF Inv, ThreadInv
<1>3. CASE v # t
  <2>1. InHandler(v) /\ handler'[v] = handler[v] /\ at'[v] = at[v] /\ loop'[v] = loop[v]
    BY <1>3, OthersInHandlers
  <2>2. Leaving(v)' <=> Leaving(v)
    BY <2>1 DEF Leaving
  <2> QED
    BY <1>0, <1>1, <1>2, <2>1, <2>2 DEF HandlerInv
<1>4. CASE v = t
  <2> USE <1>4
  <2>1. CASE Starts(t)
    BY <2>1, <1>5 DEF Starts, Used, Length, Leaving, LeavesAt
  <2>2. CASE Stops(t) \/ Dies(t) \/ Replies(t)
    BY <2>2 DEF Stops, Dies, Replies, InHandler
  <2>3. CASE Proceeds(t) \/ Suspends(t) \/ Resumes(t) \/ Activates(t) \/ Removes(t)
    <3>1. /\ InHandler(t) /\ handler[t] \in Used /\ at[t] \in 1..Length(handler[t]) /\ handler'[t] = handler[t]
          /\ loop[t] \in 0..Len(Order)
      BY <1>2, <2>3 DEF Proceeds, Suspends, Resumes, Activates, Removes, GoesOn, HandlerInv
    <3>2. /\ 2 < at[t] /\ at[t] < Length(handler[t]) => reserved = {} /\ context.handling
          /\ handler[t] = "ns" /\ at[t] <= 3 => loop[t] = 0
          /\ Leaving(t) => Removed
      BY <1>2, <3>1 DEF HandlerInv
    <3>3. CASE Proceeds(t)
      <4>1. CASE at[t] = 1 /\ at'[t] = 2 /\ loop'[t] = 0
        BY <3>1, <4>1, <1>5 DEF Used, Length, Leaving, LeavesAt
      <4>2. CASE /\ at[t] = 1 /\ at'[t] = Length(handler[t]) /\ handler[t] \notin installed
                 /\ loop'[t] = loop[t]
        <5>1. handler[t] \in chosen
          BY <3>1, InHandlers DEF Inv, ThreadInv, AppInv, PrimaryInv, InHandler
        <5>2. Removed /\ installed' = installed
          BY <3>1, <3>3, <4>2, <5>1 DEF Inv, WorldInv, InstalledInv, Used, AsyncSafe, Removed, Proceeds, WorldKept
        <5> QED
          BY <1>0, <3>1, <4>2, <5>2 DEF Used, Length
      <4>3. CASE at[t] = 2 /\ at'[t] = 3 /\ loop'[t] = 0 /\ reserved' = {} /\ context'.handling
        BY <3>1, <4>3, <1>5 DEF Used, Length, Leaving, LeavesAt
      <4>4. CASE handler[t] = "ns" /\ at[t] = 3 /\ at'[t] = 4 /\ loop'[t] = loop[t]
        BY <1>1, <3>1, <3>2, <4>4 DEF Used, Length, Leaving, LeavesAt
      <4>5. CASE Holds(t) /\ Holds(t)' /\ at'[t] > at[t] /\ loop'[t] \in {0, loop[t]}
        <5>1. loop'[t] \in 0..Len(Order)
          BY <1>5, <3>1, <4>5
        <5>2. 2 < at[t] /\ at[t] < Length(handler[t])
          BY <3>1, <4>5 DEF Length, Holds, HoldsAt
        <5>3. HoldsAt(handler[t], at'[t])
          BY <3>1, <4>5 DEF Holds
        <5>4. /\ ~Leaving(t)' /\ ~(handler'[t] = "ns" /\ at'[t] <= 3)
              /\ at'[t] \in 1..Length(handler[t])
          BY <3>1, <5>3 DEF Length, Leaving, LeavesAt, HoldsAt
        <5> QED
          BY <1>1, <3>1, <3>2, <5>1, <5>2, <5>4
      <4> QED
        BY <3>3, <4>1, <4>2, <4>3, <4>4, <4>5 DEF Proceeds
    <3>4. CASE Suspends(t)
      <4>1. loop'[t] \in 0..Len(Order)
        <5>1. loop'[t] = 0 \/ (loop[t] # Len(Order) /\ loop'[t] = loop[t] + 1)
          BY <3>4 DEF Suspends
        <5> QED
          BY <1>5, <3>1, <5>1, NextInOrder
      <4>2. Suspending(t) /\ at'[t] \in {at[t], at[t] + 1}
        BY <3>4 DEF Suspends
      <4> QED
        BY <1>1, <3>1, <3>2, <4>1, <4>2 DEF Used, Length, Leaving, LeavesAt, Suspending, SuspendsAt
    <3>5. CASE Resumes(t)
      <4>1. loop'[t] \in 0..Len(Order)
        <5>1. loop'[t] = 0 \/ loop'[t] \in 0..Len(Order)
          BY <3>5 DEF Resumes
        <5> QED
          BY <1>5, <5>1
      <4>2. Resuming(t) /\ at'[t] \in {at[t], at[t] + 1}
        BY <3>5 DEF Resumes
      <4> QED
        <5>1. Removed' /\ 2 < at[t] /\ at[t] < Length(handler[t]) /\ handler[t] # "ns"
          BY <1>0, <3>1, <4>2, InHandlers DEF Used, Length, Resuming, ResumesAt
        <5>2. at'[t] \in 1..Length(handler[t])
          BY <3>1, <4>2, <5>1 DEF Length
        <5> QED
          BY <1>1, <3>1, <3>2, <4>1, <5>1, <5>2
    <3>6. CASE Activates(t)
      BY <1>1, <3>1, <3>2, <3>6, <1>5 DEF Activates, Used, Length, Leaving, LeavesAt
    <3>7. CASE Removes(t)
      <4>1. Removed'
        BY <3>7 DEF Removes, Removed, AsyncSafe, Sentries
      <4> QED
        BY <1>1, <3>1, <3>2, <3>7, <4>1 DEF Removes, Used, Length, Holds, HoldsAt
    <3> QED
      BY <2>3, <3>3, <3>4, <3>5, <3>6, <3>7
  <2> QED
    BY <2>1, <2>2, <2>3 DEF Effect
<1> QED
  BY <1>3, <1>4

(* Where t goes when it starts to suspend threads, and comes to hold.      *)
LEMMA OwnStage ==
    ASSUME Inv, NEW t \in Threads, Effect(t), HandlerInv'
    PROVE  /\ Suspending(t)' =>
                loop'[t] = 0 \/ (Suspends(t) /\ at'[t] = at[t] /\ loop'[t] = loop[t] + 1)
           /\ Holds(t)' => Holds(t) \/ (Suspends(t) /\ at'[t] = at[t] + 1)
           /\ Holds(t)' => ~Resumes(t)
<1> SUFFICES ASSUME InHandler(t)'
             PROVE  /\ Suspending(t)' =>
                         loop'[t] = 0 \/ (Suspends(t) /\ at'[t] = at[t] /\ loop'[t] = loop[t] + 1)
                    /\ Holds(t)' => Holds(t) \/ (Suspends(t) /\ at'[t] = at[t] + 1)
                    /\ Holds(t)' => ~Resumes(t)
  BY DEF Suspending, Holds
<1>1. handler'[t] \in Used /\ at'[t] \in 1..Length(handler'[t])
  BY DEF HandlerInv
<1>2. CASE Starts(t)
  <2>1. ~Suspending(t)' /\ ~Holds(t)'
    BY <1>2 DEF Starts, Suspending, SuspendsAt, Holds, HoldsAt
  <2> QED
    BY <2>1
<1>3. CASE Stops(t) \/ Dies(t) \/ Replies(t)
  BY <1>3 DEF Stops, Dies, Replies, InHandler
<1>4. CASE Proceeds(t) \/ Suspends(t) \/ Resumes(t) \/ Activates(t) \/ Removes(t)
  <2>1. /\ InHandler(t) /\ handler[t] \in Used /\ at[t] \in 1..Length(handler[t]) /\ handler'[t] = handler[t]
        /\ handler[t] = "ns" /\ at[t] <= 3 => loop[t] = 0
    BY <1>4 DEF Proceeds, Suspends, Resumes, Activates, Removes, GoesOn, Inv, ThreadInv, HandlerInv
  <2>2. CASE Proceeds(t)
    <3>1. CASE at[t] = 1 /\ at'[t] = Length(handler[t])
      <4>1. ~Suspending(t)' /\ ~Holds(t)'
        BY <2>1, <3>1 DEF Suspending, SuspendsAt, Holds, HoldsAt, Used, Length
      <4> QED
        BY <4>1
    <3>2. CASE loop'[t] = 0 /\ at'[t] \in 2..3
      <4>1. ~Holds(t)'
        BY <2>1, <3>2 DEF Holds, HoldsAt
      <4> QED
        BY <4>1, <3>2
    <3>3. CASE handler[t] = "ns" /\ at[t] = 3 /\ at'[t] = 4 /\ loop'[t] = loop[t]
      <4>1. ~Holds(t)' /\ loop'[t] = 0
        BY <2>1, <3>3 DEF Holds, HoldsAt
      <4> QED
        BY <4>1
    <3>4. CASE Holds(t) /\ Holds(t)'
      <4>1. ~Suspending(t)' /\ ~Resumes(t)
        BY <2>1, <3>4 DEF Holds, HoldsAt, Suspending, SuspendsAt, Resumes, Resuming, ResumesAt
      <4> QED
        BY <3>4, <4>1
    <3> QED
      BY <2>2, <3>1, <3>2, <3>3, <3>4 DEF Proceeds
  <2>3. CASE Suspends(t)
    <3>1. ~Resumes(t)
      BY <2>1, <2>3 DEF Suspends, Suspending, SuspendsAt, Resumes, Resuming, ResumesAt
    <3>2. CASE at'[t] = at[t] + 1
      <4>1. ~Suspending(t)'
        BY <2>1, <2>3, <3>2 DEF Suspends, Suspending, SuspendsAt
      <4> QED
        BY <2>3, <3>1, <3>2, <4>1
    <3>3. CASE at'[t] = at[t] /\ loop'[t] = loop[t] + 1
      <4>1. ~Holds(t)'
        BY <2>1, <2>3, <3>3 DEF Suspends, Suspending, SuspendsAt, Holds, HoldsAt
      <4> QED
        BY <2>3, <3>3, <4>1
    <3> QED
      BY <2>3, <3>2, <3>3 DEF Suspends
  <2>4. CASE Resumes(t)
    <3>1. ~Suspending(t)' /\ ~Holds(t)'
      BY <2>1, <2>4 DEF Resumes, Resuming, ResumesAt, Suspending, SuspendsAt, Holds, HoldsAt
    <3> QED
      BY <3>1
  <2>5. CASE Activates(t)
    <3>1. Holds(t) /\ loop'[t] = 0 /\ ~Resumes(t)
      BY <2>1, <2>5 DEF Activates, Holds, HoldsAt, Resumes, Resuming, ResumesAt
    <3> QED
      BY <3>1
  <2>6. CASE Removes(t)
    <3>1. CASE handler[t] = "ns" /\ at[t] = 3
      <4>1. ~Holds(t)' /\ loop'[t] = 0
        BY <2>1, <2>6, <3>1 DEF Removes, Holds, HoldsAt
      <4> QED
        BY <4>1
    <3>2. CASE Holds(t)
      <4>1. ~Suspending(t)' /\ ~Resumes(t)
        BY <2>1, <2>6, <3>2 DEF Removes, Holds, HoldsAt, Suspending, SuspendsAt, Resumes, Resuming, ResumesAt
      <4> QED
        BY <3>2, <4>1
    <3> QED
      BY <2>6, <3>1, <3>2 DEF Removes
  <2> QED
    BY <1>4, <2>2, <2>3, <2>4, <2>5, <2>6
<1> QED
  BY <1>2, <1>3, <1>4 DEF Effect

LEMMA LoopKept ==
    ASSUME Inv, crashes \in Nat, Quiet, Quiet', NEW t \in Threads, Effect(t), HandlerInv'
    PROVE  LoopInv'
<1> SUFFICES ASSUME NEW v \in Threads, Suspending(v)', NEW i \in 1..loop'[v]
             PROVE  Order[i] = v \/ Still(Order[i])'
  BY DEF LoopInv
<1>1. loop'[v] \in 0..Len(Order)
  BY DEF HandlerInv, Suspending
<1>2. Order[i] \in Threads
  BY <1>1, WithinOrder
<1>3. CASE v # t
  <2>1. InHandler(v) /\ Suspending(v) /\ loop'[v] = loop[v]
    BY <1>3, OthersInHandlers DEF Suspending
  <2>2. Order[i] = v \/ Still(Order[i])
    BY <2>1 DEF Inv, OrderInv, LoopInv
  <2> QED
    BY <1>2, <1>3, <2>1, <2>2, StillWhileHandled
<1>4. CASE v = t
  <2>1. Suspends(t) /\ loop'[t] = loop[t] + 1
    BY <1>4, OwnStage
  <2>2. Suspending(t) /\ InHandler(t) /\ loop[t] \in Nat
    BY <2>1 DEF Suspends, Suspending, Inv, ThreadInv, HandlerInv
  <2>3. ~Resumes(t)
    BY <2>2, InHandlers DEF Resumes
  <2>4. CASE i \in 1..loop[t]
    BY <1>2, <1>4, <2>2, <2>3, <2>4, StillKept DEF Inv, OrderInv, LoopInv
  <2>5. CASE i = loop[t] + 1
    <3>1. suspended' = IF Spared(t, Order[i]) THEN suspended
                       ELSE [suspended EXCEPT ![Order[i]] = @ + 1]
      BY <2>1, <2>2, <2>5 DEF Suspends
    <3>2. suspended \in [Threads -> Nat]
      BY DEF Inv, TypeOK, WorldType
    <3>3. reserved = {}
      <4>1. 2 < at[t] /\ at[t] < Length(handler[t]) /\ handler[t] \in Used
        BY <2>2, InHandlers DEF Suspending, SuspendsAt, Used, Length
      <4> QED
        BY <2>2, <4>1 DEF Inv, ThreadInv, HandlerInv
    <3>4. CASE Order[i] = t \/ place[Order[i]] = "gone"
      <4>1. Order[i] = t \/ Still(Order[i])
        BY <3>4 DEF Still, Harmless
      <4> QED
        BY <1>2, <1>4, <2>3, <4>1, StillKept
    <3>5. CASE ~(Order[i] = t \/ place[Order[i]] = "gone")
      BY <1>2, <3>1, <3>2, <3>3, <3>5 DEF Spared, Still
    <3> QED
      BY <3>4, <3>5
  <2> QED
    BY <1>4, <2>1, <2>2, <2>4, <2>5
<1> QED
  BY <1>3, <1>4

(* When t finds that it has suspended the threads, or that they are        *)
(* suspended already, no other thread will do anything.                    *)
LEMMA AllStopped ==
    ASSUME Inv, crashes \in Nat, Quiet, NEW t \in Threads, Can(t), Suspending(t),
           ~running \/ loop[t] = Len(Order)
    PROVE  Stopped(t) /\ (~running /\ t = Primary => place[Secondary] = "gone")
<1>0. InHandler(t) /\ ~Leaving(t)
  BY InHandlers DEF Suspending
<1>1. ~Still(t)
  <2>1. ~Harmless(t)
    BY <1>0 DEF Harmless, InHandler
  <2> QED
    BY <2>1 DEF Still, Can
<1>2. CASE ~running
  <2>1. PICK v \in Threads : Resuming(v) \/ (Stopped(v) /\ (v = Primary => Begun(v)))
    BY <1>2 DEF Inv, OrderInv, RunningInv
  <2>2. CASE Resuming(v)
    <3>1. InHandler(v) /\ Leaving(v) /\ Removed /\ v # t
      BY <1>0, <2>2, InHandlers DEF Resuming
    <3>2. Stopped(t)
      BY <1>0, <3>1, OthersHarmless DEF Stopped, Still, Harmless
    <3> QED
      BY <3>1, <3>2 DEF Inv, WorldInv, MachInv
  <2>3. CASE Stopped(v) /\ (v = Primary => Begun(v))
    <3>1. v = t
      BY <1>1, <2>3 DEF Stopped
    <3>2. t # Primary
      <4>1. t = Primary => at[t] = 3
        BY <1>0, InHandlers DEF Suspending, SuspendsAt
      <4> QED
        BY <1>0, <2>3, <3>1, <4>1 DEF Begun
    <3> QED
      BY <2>3, <3>1, <3>2
  <2> QED
    BY <2>1, <2>2, <2>3
<1>3. CASE running /\ loop[t] = Len(Order)
  <2>1. SUFFICES ASSUME NEW u \in Threads \ {t} PROVE Still(u)
    BY <1>3 DEF Stopped
  <2>2. PICK i \in 1..Len(Order) : Order[i] = u
    BY OrderFacts
  <2> QED
    BY <1>3, <2>2 DEF Inv, OrderInv, LoopInv
<1> QED
  BY <1>2, <1>3, InHandlers DEF Inv, TypeOK, WorldType

LEMMA HoldsKept ==
    ASSUME Inv, crashes \in Nat, Quiet, Quiet', NEW t \in Threads, Effect(t), HandlerInv'
    PROVE  HoldsInv' /\ AloneInv'
<1>1. ASSUME NEW v \in Threads, v # t, Holds(v)'
      PROVE  Holds(v) /\ Stopped(v)'
  <2>1. InHandler(v) /\ Holds(v)
    BY <1>1, OthersInHandlers DEF Holds
  <2>2. Stopped(v)
    BY <2>1 DEF Inv, OrderInv, HoldsInv
  <2> QED
    BY <1>1, <2>1, <2>2, StillWhileHandled DEF Stopped
<1>2. ASSUME Holds(t)'
      PROVE  Stopped(t)'
  <2>1. ~Resumes(t) /\ (Holds(t) \/ (Suspends(t) /\ at'[t] = at[t] + 1))
    BY <1>2, OwnStage
  <2>2. Stopped(t)
    <3>1. CASE Holds(t)
      BY <3>1 DEF Inv, OrderInv, HoldsInv
    <3>2. CASE Suspends(t) /\ at'[t] = at[t] + 1
      <4>1. InHandler(t) /\ at[t] \in Nat
        BY <3>2, InHandlers DEF Suspends, GoesOn
      <4>2. Suspending(t) /\ (~running \/ loop[t] = Len(Order))
        BY <3>2, <4>1 DEF Suspends
      <4> QED
        BY <4>2, AllStopped DEF Effect
    <3> QED
      BY <2>1, <3>1, <3>2
  <2> QED
    BY <2>1, <2>2, StillKept DEF Stopped
<1>3. ASSUME NEW v \in Threads, v # t, Holds(v)', Holds(t)'
      PROVE  FALSE
  <2>1. Still(t)
    BY <1>1, <1>3 DEF Inv, OrderInv, HoldsInv, Stopped
  <2>2. Harmless(t)
    BY <2>1 DEF Still, Effect, Can
  <2>3. Harmless(t)'
    BY <2>2, HarmlessKept
  <2>4. ~Leaving(t)'
    BY <1>3 DEF Holds, HoldsAt, Leaving, LeavesAt
  <2> QED
    BY <1>3, <2>3, <2>4 DEF Harmless, Holds, InHandler
<1>4. HoldsInv'
  BY <1>1, <1>2 DEF HoldsInv
<1>5. ASSUME NEW v \in Threads, NEW u \in Threads, Holds(v)', Holds(u)'
      PROVE  v = u
  <2>1. CASE v = t \/ u = t
    BY <1>3, <1>5, <2>1
  <2>2. CASE v # t /\ u # t
    BY <1>1, <1>5, <2>2 DEF Inv, OrderInv, AloneInv
  <2> QED
    BY <2>1, <2>2
<1> QED
  BY <1>4, <1>5 DEF AloneInv

LEMMA BegunKept ==
    ASSUME Inv, crashes \in Nat, Quiet, Quiet', NEW t \in Threads, Effect(t), Begun(Primary)
    PROVE  Begun(Primary)'
<1>1. CASE t # Primary
  <2>1. at'[Primary] = at[Primary] /\ (InHandler(Primary)' => InHandler(Primary))
    BY <1>1, OthersInHandlers
  <2>2. place'[Primary] # "wait"
    BY <1>1 DEF Effect, Starts, Stops, Dies, Proceeds, Suspends, Resumes, Activates, Removes, Replies,
                PlacesKept, Begun
  <2> QED
    BY <2>1, <2>2 DEF Begun
<1>2. CASE t = Primary
  <2>1. CASE Starts(t)
    <3>1. place[t] # "run" /\ place[t] # "wait" /\ (place[t] = "signalled" => Removed)
      BY <1>2 DEF Inv, ThreadInv, PrimaryInv, Begun
    <3> QED
      BY <2>1, <3>1 DEF Starts, Removed, AsyncSafe
  <2>2. CASE Stops(t) \/ Dies(t) \/ Replies(t)
    BY <1>2, <2>2 DEF Stops, Dies, Replies, Begun, InHandler
  <2>3. CASE Proceeds(t) \/ Suspends(t) \/ Resumes(t) \/ Activates(t) \/ Removes(t)
    <3>1. InHandler(t) /\ InHandler(t)' /\ at[t] \in 4..11 /\ handler[t] = "mach"
      <4>1. InHandler(t) /\ InHandler(t)'
        BY <2>3 DEF Proceeds, Suspends, Resumes, Activates, Removes, GoesOn
      <4> QED
        BY <1>2, <4>1, InHandlers DEF Begun, Length
    <3>2. ASSUME Proceeds(t) PROVE at'[t] \in 4..12
      <4>1. Holds(t)'
        BY <3>1, <3>2 DEF Proceeds
      <4> QED
        BY <4>1 DEF Holds, HoldsAt
    <3>3. ASSUME Suspends(t) \/ Resumes(t) \/ Activates(t) \/ Removes(t)
          PROVE  at'[t] \in 4..12
      <4>1. at'[t] \in {at[t], at[t] + 1}
        BY <3>1, <3>3 DEF Suspends, Resumes, Activates, Removes
      <4> QED
        BY <3>1, <4>1
    <3>4. at'[t] \in 4..12
      BY <2>3, <3>2, <3>3
    <3> QED
      BY <1>2, <3>1, <3>4 DEF Begun, InHandler
  <2> QED
    BY <2>1, <2>2, <2>3 DEF Effect
<1> QED
  BY <1>1, <1>2

LEMMA RunningKept ==
    ASSUME Inv, crashes \in Nat, Quiet, Quiet', NEW t \in Threads, Effect(t)
    PROVE  RunningInv'
<1> SUFFICES ASSUME ~running'
             PROVE  \E v \in Threads : Resuming(v)' \/ (Stopped(v)' /\ (v = Primary => Begun(v)'))
  BY DEF RunningInv
<1>1. CASE Suspends(t) /\ at'[t] = at[t] + 1
  <2>1. InHandler(t) /\ at[t] \in Nat /\ Suspending(t) /\ ~Resumes(t)
    BY <1>1, InHandlers DEF Suspends, GoesOn, Resumes
  <2>2. ~running \/ loop[t] = Len(Order)
    BY <1>1, <2>1 DEF Suspends
  <2>3. Stopped(t)'
    BY <2>1, <2>2, AllStopped, StillKept DEF Effect, Stopped
  <2>4. Begun(t)'
    <3>1. at[t] \in 3..4 /\ at'[t] = at[t] + 1 /\ place'[t] = "handler"
      BY <1>1, <2>1 DEF Suspending, SuspendsAt, Suspends, GoesOn, InHandler
    <3> QED
      BY <3>1 DEF Begun
  <2> QED
    BY <2>3, <2>4
<1>2. CASE ~(Suspends(t) /\ at'[t] = at[t] + 1)
  <2>0. ~running
    BY <1>2 DEF Effect, Starts, Stops, Dies, Proceeds, Suspends, Resumes, Activates, Removes, Replies, WorldKept
  <2>1. PICK v \in Threads : Resuming(v) \/ (Stopped(v) /\ (v = Primary => Begun(v)))
    BY <2>0 DEF Inv, OrderInv, RunningInv
  <2>2. CASE Resumes(t)
    <3>1. at'[t] = at[t] /\ GoesOn(t) /\ Resuming(t)
      BY <2>2 DEF Resumes
    <3>2. Resuming(t)'
      BY <3>1 DEF Resuming, GoesOn
    <3> QED
      BY <3>2
  <2>3. CASE Resuming(v) /\ v # t
    <3>1. Removed /\ InHandler(v)
      BY <2>3, InHandlers DEF Resuming
    <3>2. place'[v] = "handler"
      <4>1. CASE Removes(t)
        BY <2>3, <3>1, <4>1 DEF Removes, Removed, AsyncSafe, PlacesKept, InHandler
      <4> QED
        BY <2>3, <3>1, <4>1, OthersInHandlers DEF InHandler
    <3>3. Resuming(v)'
      BY <2>3, <3>2, OthersInHandlers DEF Resuming, InHandler
    <3> QED
      BY <3>3
  <2>4. CASE Resuming(v) /\ v = t /\ ~Resumes(t)
    <3>1. InHandler(t) /\ Resuming(t) /\ ~Holds(t) /\ ~Suspending(t) /\ at[t] > 4
      BY <2>4, InHandlers DEF Resuming, ResumesAt
    <3>2. ~(Starts(t) \/ Stops(t) \/ Dies(t) \/ Proceeds(t) \/ Suspends(t) \/ Activates(t)
            \/ Removes(t) \/ Replies(t))
      BY <3>1 DEF Starts, Stops, Dies, Proceeds, Suspends, Activates, Removes, Replies, InHandler
    <3> QED
      BY <2>4, <3>2 DEF Effect
  <2>5. CASE Stopped(v) /\ (v = Primary => Begun(v)) /\ ~Resumes(t)
    <3>1. Stopped(v)'
      BY <2>5, StillKept DEF Stopped
    <3>2. v = Primary => Begun(v)'
      BY <2>5, BegunKept
    <3> QED
      BY <3>1, <3>2
  <2> QED
    BY <2>1, <2>2, <2>3, <2>4, <2>5
<1> QED
  BY <1>1, <1>2

LEMMA AppKept ==
    ASSUME Inv, crashes \in Nat, Quiet, Quiet', NEW t \in Threads, Effect(t)
    PROVE  AppInv'
<1> SUFFICES ASSUME NEW v \in App
             PROVE  /\ place'[v] \in {"run", "handler", "faulted", "signalled"}
                    /\ InHandler(v)' => handler'[v] \in {"signal", "ns"} \intersect chosen
  BY DEF AppInv, Effect
<1>1. /\ v \in Threads /\ v # Primary /\ v # Secondary
      /\ place[v] \in {"run", "handler", "faulted", "signalled"}
      /\ InHandler(v) => handler[v] \in {"signal", "ns"} \intersect chosen
  BY DEF App, Inv, ThreadInv, AppInv
<1>2. CASE v # t
  <2>1. "mach" \in installed => known = {Primary, Secondary}
    BY DEF Inv, WorldInv, MachInv
  <2>2. place'[v] \in {place[v], "signalled"}
    BY <1>1, <1>2, <2>1
       DEF Effect, Starts, Stops, Dies, Proceeds, Suspends, Resumes, Activates, Removes, Replies, PlacesKept
  <2> QED
    BY <1>1, <1>2, <2>2, OthersInHandlers
<1>3. CASE v = t
  <2>1. CASE Starts(t)
    BY <1>1, <1>3, <2>1 DEF Starts, InHandler, Inv, WorldInv, InstalledInv
  <2>2. CASE Stops(t) \/ Dies(t)
    BY <1>3, <2>2 DEF Stops, Dies, InHandler
  <2>3. CASE Proceeds(t) \/ Suspends(t) \/ Resumes(t) \/ Activates(t) \/ Removes(t)
    BY <1>1, <1>3, <2>3 DEF Proceeds, Suspends, Resumes, Activates, Removes, GoesOn, InHandler
  <2>4. ~Replies(t)
    BY <1>1, <1>3, InHandlers DEF Replies, Leaving
  <2> QED
    BY <2>1, <2>2, <2>3, <2>4 DEF Effect
<1> QED
  BY <1>2, <1>3

LEMMA InstalledKept ==
    ASSUME Inv, NEW t \in Threads, Effect(t)
    PROVE  InstalledInv'
<1>1. installed' \in {installed, installed \ AsyncSafe, installed \ Sentries} /\ chosen' = chosen
  BY DEF Effect, Starts, Stops, Dies, Proceeds, Suspends, Resumes, Activates, Removes, Replies, WorldKept
<1>2. installed \in {chosen, chosen \ AsyncSafe, {}} /\ chosen \subseteq Sentries
  BY DEF Inv, WorldInv, InstalledInv
<1> QED
  BY <1>1, <1>2 DEF InstalledInv

(* The message that the primary thread takes is about a thread of the      *)
(* program that waits for the reply.                                       *)
LEMMA PortKept ==
    ASSUME Inv, crashes \in Nat, Quiet, Quiet', NEW t \in Threads, Effect(t)
    PROVE  PortInv'
<1> SUFFICES ASSUME place'[Primary] = "wait", NEW i \in 1..Len(port')
             PROVE  place'[port'[i]] = "faulted"
  BY DEF PortInv
<1>0. port \in Seq(Threads)
  BY DEF Inv, TypeOK, WorldType
<1>1. place[Primary] = "wait"
  <2>1. CASE t = Primary
    BY <2>1 DEF Effect, Starts, Stops, Dies, Proceeds, Suspends, Resumes, Activates, Removes, Replies,
                GoesOn, InHandler
  <2>2. CASE t # Primary
    BY <2>2 DEF Effect, Starts, Stops, Dies, Proceeds, Suspends, Resumes, Activates, Removes, Replies,
                PlacesKept
  <2> QED
    BY <2>1, <2>2
<1>2. \A j \in 1..Len(port) : port[j] \in Threads /\ place[port[j]] = "faulted"
  BY <1>0, <1>1 DEF Inv, WorldInv, PortInv
<1>3. t # Primary \/ Dies(t)
  BY <1>1 DEF Effect, Starts, Stops, Dies, Proceeds, Suspends, Resumes, Activates, Removes, Replies,
              GoesOn, InHandler, Holds, Leaving
<1>4. place[t] # "faulted"
  BY DEF Effect, Starts, Stops, Dies, Proceeds, Suspends, Resumes, Activates, Removes, Replies,
              GoesOn, InHandler, Holds, Leaving
<1>5. ASSUME NEW u \in Threads, place[u] = "faulted"
      PROVE  place'[u] = "faulted"
  <2>1. ~Replies(t)
    BY <1>3, InHandlers DEF Replies, Leaving, Dies, InHandler
  <2>2. ASSUME Removes(t) PROVE "mach" \notin installed
    <3>1. t # Primary
      BY <1>3, <2>2 DEF Dies, Removes, GoesOn, InHandler
    <3> QED
      BY <2>2, <3>1 DEF Removes, Inv, WorldInv, MachInv
  <2> QED
    BY <1>4, <1>5, <2>1, <2>2
       DEF Effect, Starts, Stops, Dies, Proceeds, Suspends, Resumes, Activates, Removes, PlacesKept
<1>6. port' = port \/ (port' = Append(port, t) /\ place'[t] = "faulted")
  <2>1. ASSUME place[t] = "wait" PROVE FALSE
    <3>1. t = Secondary
      BY <1>3, <2>1 DEF Dies, Inv, ThreadInv, AppInv, App
    <3> QED
      BY <2>1, <3>1 DEF Effect, Can, Inv, ThreadInv, SecondaryInv
  <2> QED
    BY <2>1 DEF Effect, Starts, Stops, Dies, Proceeds, Suspends, Resumes, Activates, Removes, Replies
<1>7. CASE port' = port
  BY <1>2, <1>5, <1>7
<1>8. CASE port' = Append(port, t) /\ place'[t] = "faulted"
  <2>1. port'[i] = t \/ (i \in 1..Len(port) /\ port'[i] = port[i])
    BY <1>0, <1>8
  <2> QED
    BY <1>2, <1>5, <1>8, <2>1
<1> QED
  BY <1>6, <1>7, <1>8

LEMMA FewKept ==
    ASSUME Inv, crashes \in Nat, Quiet, Quiet', NEW t \in Threads, Effect(t)
    PROVE  FewInv'
<1> DEFINE Stays(w) == place'[w] = place[w] \/ place[w] # "run"
<1>1. PICK a \in Threads, b \in Threads :
          /\ crashes <= 1 => a = b
          /\ \A w \in App \ {a, b} : place[w] = "run"
  BY DEF Inv, FewInv
<1>2. \A w \in App \ {t} : place[w] = "run" => place'[w] = "run"
  <2>1. "mach" \in installed => known = {Primary, Secondary}
    BY DEF Inv, WorldInv, MachInv
  <2> QED
    BY <2>1 DEF App, Effect, Starts, Stops, Dies, Proceeds, Suspends, Resumes, Activates, Removes, Replies,
                PlacesKept
<1>3. CASE crashes' = crashes
  <2>1. t \in App => place[t] # "run"
    BY <1>3 DEF Effect, Starts, Stops, Dies, Proceeds, Suspends, Resumes, Activates, Removes, Replies,
                GoesOn, InHandler, Holds, Leaving
  <2>2. \A w \in App : place[w] = "run" => place'[w] = "run"
    BY <1>2, <2>1
  <2> QED
    BY <1>1, <1>3, <2>2 DEF Inv, FewInv
<1>4. CASE crashes' = crashes + 1
  <2>1. CASE crashes = 0
    <3>1. \A w \in App \ {t} : place'[w] = "run"
      BY <1>2, <2>1 DEF Inv, FewInv
    <3> QED
      BY <1>4, <2>1, <3>1 DEF FewInv
  <2>2. CASE crashes = 1
    <3>1. \A w \in App \ {a, t} : place'[w] = "run"
      BY <1>1, <1>2, <2>2
    <3> QED
      BY <1>4, <2>2, <3>1 DEF FewInv
  <2> QED
    BY <1>4, <2>1, <2>2
<1> QED
  BY <1>3, <1>4 DEF Effect, Starts, Stops, Dies, Proceeds, Suspends, Resumes, Activates, Removes, Replies

LEMMA PrimaryKept ==
    ASSUME Inv, crashes \in Nat, Quiet, Quiet', NEW t \in Threads, Effect(t)
    PROVE  PrimaryInv'
<1> DEFINE c == client[Primary]
<1>0. /\ place[Primary] \in {"wait", "handler", "faulted", "signalled", "gone"}
      /\ InHandler(Primary) => handler[Primary] = "mach" /\ c \in App /\ place[c] = "faulted"
      /\ place[Primary] # "gone" => "mach" \in chosen
      /\ place[Primary] = "signalled" => Removed
  BY DEF Inv, ThreadInv, PrimaryInv
<1>1. Removed => Removed'
  BY RemovedKept
<1>2. CASE t # Primary
  <2>1. ~Replies(t)
    BY <1>2, InHandlers DEF Replies, Leaving
  <2>2. /\ place'[Primary] \in {place[Primary], "gone"}
        /\ handler'[Primary] = handler[Primary] /\ client'[Primary] = client[Primary] /\ chosen' = chosen
    BY <1>2, <2>1 DEF Effect, OthersKept, Starts, Stops, Dies, Proceeds, Suspends, Resumes, Activates, Removes, PlacesKept
  <2>3. ASSUME InHandler(Primary)' PROVE place'[c] = "faulted"
    <3>1. InHandler(Primary) /\ c \in App /\ place[c] = "faulted"
      BY <1>0, <1>2, <2>3, OthersInHandlers
    <3>2. t # c
      BY <3>1 DEF Effect, Starts, Stops, Dies, Proceeds, Suspends, Resumes, Activates, Removes, Replies,
                  GoesOn, InHandler, Holds, Leaving
    <3>3. "mach" \in installed => known = {Primary, Secondary}
      BY DEF Inv, WorldInv, MachInv
    <3> QED
      BY <2>1, <3>1, <3>2, <3>3 DEF App, Effect, Starts, Stops, Dies, Proceeds, Suspends, Resumes, Activates, Removes, PlacesKept
  <2> QED
    BY <1>0, <1>1, <2>2, <2>3, OthersInHandlers, <1>2 DEF PrimaryInv, InHandler
<1>3. CASE t = Primary
  <2>0. chosen' = chosen /\ place[t] # "gone"
    BY DEF Effect, Starts, Stops, Dies, Proceeds, Suspends, Resumes, Activates, Removes, Replies,
           GoesOn, InHandler, Holds, Leaving
  <2>1. CASE Starts(t)
    <3>1. place[t] = "wait"
      BY <1>0, <1>3, <2>1 DEF Starts, Removed, AsyncSafe
    <3>2. handler'[t] = "mach" /\ client'[t] = Head(port) /\ port # <<>>
      BY <2>1, <3>1 DEF Starts
    <3>3. Head(port) \in Threads /\ place[Head(port)] = "faulted"
      <4>1. port \in Seq(Threads)
        BY DEF Inv, TypeOK, WorldType
      <4>2. 1 \in 1..Len(port) /\ Head(port) = port[1]
        BY <3>2, <4>1
      <4> QED
        BY <1>3, <3>1, <4>1, <4>2 DEF Inv, WorldInv, PortInv
    <3>4. Head(port) \in App
      BY <1>3, <3>1, <3>3 DEF App, Inv, ThreadInv, SecondaryInv
    <3>5. place'[Head(port)] = "faulted"
      BY <1>3, <2>1, <3>3, <3>4 DEF App, Starts, PlacesKept
    <3> QED
      BY <1>0, <1>3, <2>0, <2>1, <3>2, <3>4, <3>5 DEF PrimaryInv, Starts, InHandler
  <2>2. CASE Stops(t)
    <3>1. place'[t] = "faulted" \/ (place'[t] = "signalled" /\ ~ours)
      BY <1>3, <2>2 DEF Stops, App
    <3>2. ~ours => Removed
      BY <1>0, <1>3, <2>0 DEF Inv, WorldInv, MachInv, InstalledInv, Removed, AsyncSafe
    <3> QED
      BY <1>0, <1>1, <1>3, <2>0, <3>1, <3>2 DEF PrimaryInv, InHandler
  <2>3. CASE Dies(t)
    BY <1>0, <1>1, <1>3, <2>0, <2>3 DEF Dies, PrimaryInv, InHandler
  <2>4. CASE Replies(t)
    BY <1>3, <2>4 DEF Replies, PrimaryInv, InHandler
  <2>5. CASE Proceeds(t) \/ Suspends(t) \/ Resumes(t) \/ Activates(t) \/ Removes(t)
    <3>1. GoesOn(t)
      BY <2>5 DEF Proceeds, Suspends, Resumes, Activates, Removes
    <3>2. c \in App /\ c # t /\ place[c] = "faulted"
      BY <1>0, <1>3, <3>1 DEF GoesOn, App
    <3>3. "mach" \in installed => known = {Primary, Secondary}
      BY DEF Inv, WorldInv, MachInv
    <3>4. place'[c] = "faulted"
      BY <2>5, <3>2, <3>3 DEF App, Proceeds, Suspends, Resumes, Activates, Removes, PlacesKept
    <3> QED
      BY <1>0, <1>3, <2>0, <3>1, <3>2, <3>4 DEF PrimaryInv, GoesOn, InHandler
  <2> QED
    BY <2>1, <2>2, <2>3, <2>4, <2>5 DEF Effect
<1> QED
  BY <1>2, <1>3

LEMMA MachKept ==
    ASSUME Inv, crashes \in Nat, Quiet, Quiet', NEW t \in Threads, Effect(t)
    PROVE  MachInv'
<1>0. /\ "mach" \in installed =>
            /\ ours /\ known = {Primary, Secondary}
            /\ place[Secondary] = "wait" /\ place[Primary] # "gone"
      /\ Removed => place[Primary] # "wait" /\ place[Secondary] = "gone"
      /\ place[Primary] # "gone" => "mach" \in chosen
      /\ place[Secondary] \in {"wait", "gone"}
      /\ place[Secondary] = "wait" => "mach" \in chosen /\ suspended[Secondary] >= 1
  BY DEF Inv, ThreadInv, WorldInv, MachInv, PrimaryInv, SecondaryInv
<1>1. t # Secondary /\ place[t] # "gone"
  BY <1>0 DEF Effect, Can, Starts, Stops, Dies, Proceeds, Suspends, Resumes, Activates, Removes, Replies,
           GoesOn, InHandler, Holds, Leaving
<1>2. CASE Removes(t)
  <2>1. Removed' /\ "mach" \notin installed'
    BY <1>2 DEF Removes, Removed, AsyncSafe, Sentries
  <2>2. InHandler(t)'
    BY <1>2 DEF Removes, GoesOn
  <2>3. CASE "mach" \in installed
    BY <1>0, <1>1, <1>2, <2>1, <2>2, <2>3 DEF Removes, MachInv, InHandler
  <2>4. CASE "mach" \notin installed
    <3>1. Removed \/ "mach" \notin chosen
      BY <2>4 DEF Inv, WorldInv, InstalledInv, Removed, AsyncSafe
    <3> QED
      BY <1>0, <1>1, <1>2, <2>1, <2>2, <2>4, <3>1 DEF Removes, MachInv, InHandler, PlacesKept
  <2> QED
    BY <2>3, <2>4
<1>3. CASE Replies(t)
  <2>1. Removed /\ installed' = installed
    BY <1>3, InHandlers DEF Replies, WorldKept
  <2>2. Removed' /\ "mach" \notin installed'
    BY <2>1 DEF Removed, AsyncSafe
  <2>3. place'[Primary] # "wait" /\ place'[Secondary] = "gone"
    BY <1>0, <1>1, <1>3, <2>1 DEF Replies
  <2> QED
    BY <2>2, <2>3 DEF MachInv
<1>4. CASE Starts(t) \/ Stops(t) \/ Dies(t) \/ Proceeds(t) \/ Suspends(t) \/ Resumes(t) \/ Activates(t)
  <2>1. installed' = installed /\ known' = known /\ place'[Secondary] = place[Secondary]
    BY <1>1, <1>4 DEF Starts, Stops, Dies, Proceeds, Suspends, Resumes, Activates, WorldKept, PlacesKept
  <2>2. "mach" \in installed => ours'
    <3>1. CASE Activates(t)
      <4>1. t = Primary
        BY <3>1, InHandlers DEF Activates, GoesOn
      <4> QED
        <5> SUFFICES ASSUME "mach" \in installed PROVE ours'
          OBVIOUS
        <5>1. Primary \in known /\ ours /\ suspended[Secondary] >= 1
          BY <1>0
        <5>2. suspended[Secondary] > 0
          BY <5>1 DEF Inv, TypeOK, WorldType
        <5>3. ours' = ours
          BY <3>1, <4>1, <5>1, <5>2 DEF Activates
        <5> QED
          BY <5>1, <5>3
    <3>2. CASE ~Activates(t)
      BY <1>0, <1>4, <3>2 DEF Starts, Stops, Dies, Proceeds, Suspends, Resumes, WorldKept
    <3> QED
      BY <3>1, <3>2
  <2>3. place'[Primary] # "gone" \/ place'[Primary] = place[Primary]
    BY <1>4 DEF Starts, Stops, Dies, Proceeds, Suspends, Resumes, Activates, PlacesKept, GoesOn, InHandler
  <2>4. place'[Primary] = "wait" => place[Primary] = "wait"
    BY <1>4 DEF Starts, Stops, Dies, Proceeds, Suspends, Resumes, Activates, PlacesKept, GoesOn, InHandler
  <2> QED
    BY <1>0, <2>1, <2>2, <2>3, <2>4 DEF MachInv, Removed
<1> QED
  BY <1>2, <1>3, <1>4 DEF Effect

LEMMA SecondaryKept ==
    ASSUME Inv, crashes \in Nat, Quiet, Quiet', NEW t \in Threads, Effect(t), HandlerInv'
    PROVE  SecondaryInv'
<1>0. /\ place[Secondary] \in {"wait", "gone"}
      /\ place[Secondary] = "wait" =>
            /\ "mach" \in chosen /\ suspended[Secondary] >= 1
            /\ InHandler(Primary) /\ at[Primary] = 3
               /\ (\E i \in 1..loop[Primary] : Order[i] = Secondary) => suspended[Secondary] >= 2
            /\ InHandler(Primary) /\ at[Primary] = 4 => suspended[Secondary] >= 2
      /\ chosen' = chosen /\ suspended \in [Threads -> Nat]
  BY DEF Inv, ThreadInv, SecondaryInv, Effect, TypeOK, WorldType
<1>1. t # Secondary
  BY <1>0 DEF Effect, Can, Starts, Stops, Dies, Proceeds, Suspends, Resumes, Activates, Removes, Replies,
           GoesOn, InHandler, Holds, Leaving
<1>2. place'[Secondary] \in {place[Secondary], "gone"}
  BY <1>0, <1>1 DEF Effect, Starts, Stops, Dies, Proceeds, Suspends, Resumes, Activates, Removes, Replies, PlacesKept
<1> SUFFICES ASSUME place'[Secondary] = "wait"
             PROVE  /\ suspended'[Secondary] >= 1
                    /\ InHandler(Primary)' /\ at'[Primary] = 3
                       /\ (\E i \in 1..loop'[Primary] : Order[i] = Secondary) => suspended'[Secondary] >= 2
                    /\ InHandler(Primary)' /\ at'[Primary] = 4 => suspended'[Secondary] >= 2
  BY <1>0, <1>2 DEF SecondaryInv
<1>3. place[Secondary] = "wait" /\ ~Removed
  BY <1>0, <1>2 DEF Inv, WorldInv, MachInv
<1>4. ~Resumes(t) /\ ~Replies(t)
  BY <1>3, InHandlers DEF Resumes, Replies
<1>5. suspended'[Secondary] >= 1
  <2>1. Still(Secondary)'
    BY <1>0, <1>3, <1>4, StillKept DEF Still
  <2>2. ~Harmless(Secondary)'
    BY DEF Harmless, Leaving, InHandler
  <2>3. suspended'[Secondary] > 0
    BY <2>1, <2>2 DEF Still
  <2>4. suspended'[Secondary] \in Nat
    <3>1. suspended'[Secondary] \in {suspended[Secondary], suspended[Secondary] + 1, suspended[Secondary] - 1, 0}
      BY <1>0, <1>1, <1>4
         DEF Effect, Starts, Stops, Dies, Proceeds, Suspends, Activates, Removes, WorldKept
    <3> QED
      BY <1>0, <1>3, <3>1
  <2> QED
    BY <2>3, <2>4
<1>6. ASSUME ~Activates(t)
      PROVE  suspended'[Secondary] \in {suspended[Secondary], suspended[Secondary] + 1}
  BY <1>0, <1>1, <1>4, <1>6
     DEF Effect, Starts, Stops, Dies, Proceeds, Suspends, Removes, WorldKept
<1>7. CASE t # Primary
  <2>1. ~Activates(t)
    BY <1>7, InHandlers DEF Activates, GoesOn
  <2>2. at'[Primary] = at[Primary] /\ loop'[Primary] = loop[Primary] /\ (InHandler(Primary)' => InHandler(Primary))
    BY <1>7, OthersInHandlers
  <2>3. suspended[Secondary] >= 2 => suspended'[Secondary] >= 2
    BY <1>0, <1>6, <2>1
  <2> QED
    BY <1>0, <1>3, <1>5, <2>2, <2>3
<1>8. CASE t = Primary /\ InHandler(t)'
  <2>1. CASE Starts(t)
    BY <1>5, <1>8, <2>1 DEF Starts
  <2>2. CASE Stops(t) \/ Dies(t)
    BY <1>8, <2>2 DEF Stops, Dies, InHandler
  <2>3. CASE Proceeds(t) \/ Suspends(t) \/ Activates(t) \/ Removes(t)
    <3>1. InHandler(t) /\ handler[t] = "mach" /\ at[t] \in 1..11 /\ handler'[t] = "mach" /\ loop[t] \in 0..Len(Order)
      <4>1. GoesOn(t)
        BY <2>3 DEF Proceeds, Suspends, Activates, Removes
      <4> QED
        BY <1>8, <4>1, InHandlers DEF GoesOn, Length, Inv, ThreadInv, HandlerInv
    <3>2. CASE Proceeds(t)
      <4>1. CASE Holds(t) /\ Holds(t)' /\ at[t] > 4 /\ at'[t] > at[t]
        <5>1. at'[t] \in 4..9
          BY <3>1, <4>1 DEF Holds, HoldsAt
        <5> QED
          BY <1>5, <1>8, <3>1, <4>1, <5>1
      <4>2. CASE at'[t] \in {2, 11} \/ (at'[t] = 3 /\ loop'[t] = 0)
        BY <1>5, <1>8, <4>2
      <4> QED
        BY <3>1, <3>2, <4>1, <4>2 DEF Proceeds, Length
    <3>3. CASE Suspends(t)
      <4>1. Suspending(t) /\ at[t] = 3 /\ ~Activates(t)
        BY <3>1, <3>3 DEF Suspends, Suspending, SuspendsAt, Activates
      <4>2. CASE at'[t] = at[t] + 1
        <5>1. ~running \/ loop[t] = Len(Order)
          BY <3>1, <3>3, <4>2 DEF Suspends
        <5>2. running /\ loop[t] = Len(Order)
          BY <1>3, <1>8, <4>1, <5>1, AllStopped DEF Effect
        <5>3. \E i \in 1..loop[t] : Order[i] = Secondary
          BY <5>2, OrderFacts
        <5>4. suspended[Secondary] >= 2
          BY <1>0, <1>3, <1>8, <3>1, <4>1, <5>3
        <5> QED
          BY <1>0, <1>5, <1>6, <1>8, <4>1, <4>2, <5>4
      <4>3. CASE at'[t] = at[t] /\ loop[t] # Len(Order) /\ loop'[t] = loop[t] + 1
        <5> SUFFICES ASSUME NEW i \in 1..loop'[t], Order[i] = Secondary
                     PROVE  suspended'[Secondary] >= 2
          BY <1>5, <1>8, <4>1, <4>3
        <5>1. CASE i \in 1..loop[t]
          BY <1>0, <1>3, <1>6, <1>8, <3>1, <4>1, <5>1
        <5>2. CASE i = loop[t] + 1
          <6>1. reserved = {}
            BY <1>8, <3>1, <4>1 DEF Inv, ThreadInv, HandlerInv, Length
          <6>2. ~Spared(t, Secondary)
            BY <1>1, <1>3, <6>1 DEF Spared
          <6>3. suspended' = [suspended EXCEPT ![Secondary] = @ + 1]
            BY <3>1, <3>3, <4>3, <5>2, <6>2 DEF Suspends
          <6> QED
            BY <1>0, <1>3, <6>3
        <5> QED
          BY <3>1, <4>3, <5>1, <5>2
      <4> QED
        BY <3>3, <4>2, <4>3 DEF Suspends
    <3>4. CASE Activates(t)
      BY <1>5, <1>8, <3>4 DEF Activates
    <3>5. CASE Removes(t)
      <4>1. at[t] \in 4..9 /\ at'[t] = at[t] + 1
        BY <3>1, <3>5 DEF Removes, Holds, HoldsAt
      <4> QED
        BY <1>5, <1>8, <4>1
    <3> QED
      BY <2>3, <3>2, <3>3, <3>4, <3>5
  <2> QED
    BY <1>4, <2>1, <2>2, <2>3 DEF Effect
<1>9. CASE t = Primary /\ ~InHandler(t)'
  BY <1>5, <1>9
<1> QED
  BY <1>7, <1>8, <1>9

-----------------------------------------------------------------------------
LEMMA InitOK == Init => IInv
<1> SUFFICES ASSUME Init PROVE IInv
  OBVIOUS
<1> USE DEF Init
<1>0. ours <=> "mach" \in chosen
  OBVIOUS
<1>1. chosen \subseteq Sentries
  BY DEF Installations, Sentries
<1>2. \A t \in Threads : /\ place[t] \in {"run", "wait", "gone"} /\ ~InHandler(t)
                         /\ t \in App => place[t] = "run"
  BY DEF InHandler
<1>3. place[Primary] = IF ours THEN "wait" ELSE "gone"
  BY DEF App
<1>4. place[Secondary] = (IF ours THEN "wait" ELSE "gone") /\ suspended[Secondary] = IF ours THEN 1 ELSE 0
  BY DEF App
<1>5. TypeOK
  BY DEF TypeOK, ThreadType, WorldType, ContextType, Clear
<1>6. ThreadInv
  <2>1. AppInv
    BY <1>2 DEF AppInv, App
  <2>2. PrimaryInv
    BY <1>0, <1>2, <1>3 DEF PrimaryInv
  <2>3. SecondaryInv
    BY <1>0, <1>2, <1>4 DEF SecondaryInv
  <2>4. HandlerInv
    BY <1>2 DEF HandlerInv
  <2> QED
    BY <2>1, <2>2, <2>3, <2>4 DEF ThreadInv
<1>7. WorldInv
  <2>1. InstalledInv
    BY <1>1 DEF InstalledInv
  <2>2. PortInv
    BY DEF PortInv
  <2>3. MachInv
    <3>1. "mach" \in installed => ours /\ known = {Primary, Secondary}
      BY <1>0 DEF ExceptionThreads
    <3>2. Removed => ~ours
      BY <1>0 DEF Removed, AsyncSafe
    <3> QED
      BY <1>3, <1>4, <3>1, <3>2 DEF MachInv
  <2> QED
    BY <2>1, <2>2, <2>3 DEF WorldInv
<1>8. OrderInv
  BY <1>2 DEF OrderInv, LoopInv, HoldsInv, AloneInv, RunningInv, Suspending, Holds
<1>9. FewInv
  BY <1>2 DEF FewInv, App
<1> QED
  BY <1>5, <1>6, <1>7, <1>8, <1>9 DEF IInv, Inv

LEMMA NextOK == IInv /\ [Next]_vars => IInv'
<1> SUFFICES ASSUME IInv, [Next]_vars PROVE IInv'
  OBVIOUS
<1>1. crashes \in Nat /\ calls \in Nat /\ crashes' \in Nat /\ calls' \in Nat /\ (Quiet' => Quiet)
  BY NextIsQuiet DEF IInv
<1> SUFFICES ASSUME Quiet' PROVE Inv'
  BY <1>1 DEF IInv
<1>2. Inv
  BY <1>1 DEF IInv
<1>3. CASE UNCHANGED vars
  <2> USE <1>2, <1>3 DEF vars, thread, Inv, InHandler
  <2>1. TypeOK'
    BY DEF TypeOK, ThreadType, WorldType, ContextType
  <2>2. Removed' <=> Removed
    BY DEF Removed
  <2>3. \A t \in Threads : /\ Suspending(t)' <=> Suspending(t)
                           /\ Resuming(t)' <=> Resuming(t)
                           /\ Holds(t)' <=> Holds(t)
                           /\ Leaving(t)' <=> Leaving(t)
                           /\ Begun(t)' <=> Begun(t)
    BY DEF Suspending, Resuming, Holds, Leaving, Begun
  <2>4. \A t \in Threads : Harmless(t)' <=> Harmless(t)
    BY <2>2, <2>3 DEF Harmless
  <2>5. \A t \in Threads : Still(t)' <=> Still(t)
    BY <2>4 DEF Still
  <2>6. \A t \in Threads : Stopped(t)' <=> Stopped(t)
    BY <2>5 DEF Stopped
  <2>7. AppInv' /\ PrimaryInv' /\ SecondaryInv'
    BY <2>2 DEF ThreadInv, AppInv, PrimaryInv, SecondaryInv
  <2>8. HandlerInv'
    BY <2>2, <2>3 DEF ThreadInv, HandlerInv
  <2>9. WorldInv'
    BY <2>2 DEF WorldInv, InstalledInv, PortInv, MachInv
  <2>10. LoopInv'
    <3> SUFFICES ASSUME NEW t \in Threads, Suspending(t), NEW i \in 1..loop[t]
                 PROVE  Order[i] = t \/ Still(Order[i])'
      BY <2>3 DEF LoopInv
    <3>1. loop[t] \in 0..Len(Order)
      BY DEF ThreadInv, HandlerInv, Suspending
    <3>2. Order[i] \in Threads
      BY <3>1, WithinOrder
    <3> QED
      BY <2>5, <3>2 DEF OrderInv, LoopInv
  <2>11. HoldsInv' /\ AloneInv' /\ RunningInv'
    BY <2>3, <2>6 DEF OrderInv, HoldsInv, AloneInv, RunningInv
  <2>12. FewInv'
    BY DEF FewInv
  <2> QED
    BY <2>1, <2>7, <2>8, <2>9, <2>10, <2>11, <2>12 DEF ThreadInv, OrderInv
<1>4. ASSUME NEW t \in Threads, Crash(t) \/ ReportUserException(t) \/ Fault(t) \/ Step(t)
      PROVE  Inv'
  <2>1. Effect(t)
    BY <1>1, <1>2, <1>4, Effects
  <2>2. TypeOK'
    BY <1>2, <1>4, ThreadTypeKept, WorldTypeKept, ContextTypeKept DEF TypeOK
  <2>3. HandlerInv'
    BY <1>1, <1>2, <2>1, HandlerKept
  <2>4. ThreadInv'
    BY <1>1, <1>2, <2>1, <2>3, AppKept, PrimaryKept, SecondaryKept DEF ThreadInv
  <2>5. WorldInv'
    BY <1>1, <1>2, <2>1, InstalledKept, PortKept, MachKept DEF WorldInv
  <2>6. OrderInv'
    BY <1>1, <1>2, <2>1, <2>3, LoopKept, HoldsKept, RunningKept DEF OrderInv
  <2>7. FewInv'
    BY <1>1, <1>2, <2>1, FewKept
  <2> QED
    BY <2>2, <2>4, <2>5, <2>6, <2>7 DEF Inv
<1> QED
  BY <1>3, <1>4 DEF Next

LEMMA InvariantHolds == Spec => []IInv
<1>1. IInv /\ [Next]_vars => IInv'
  BY NextOK
<1> QED
  BY InitOK, <1>1, PTL DEF Spec

(* However many threads there are and in whatever order they are listed,   *)
(* and wherever the handlers are interrupted or fault themselves: as long   *)
(* as nobody reports by hand and at most two threads crash, one at a time   *)
(* fills the context and writes from it (ksmachexc_i_handleExceptions,     *)
(* kssighndl_i_handleSignal, ksnsexc_i_handleException).                   *)
THEOREM OneRecordsAtATime == Spec => []RecordsAlone
<1>1. IInv => RecordsAlone
  <2> SUFFICES ASSUME IInv, Quiet, NEW t \in Threads, NEW u \in Threads, Recording(t), Recording(u)
               PROVE  t = u
    BY DEF RecordsAlone
  <2>1. Inv
    BY DEF IInv
  <2>2. ASSUME NEW v \in Threads, Recording(v)
        PROVE  Holds(v)
    <3>1. InHandler(v) /\ handler[v] \in Used /\ at[v] \in 1..Length(handler[v])
      BY <2>1, <2>2, InHandlers DEF Recording, InHandler
    <3> QED
      BY <2>2, <3>1, Stages, SMTT(30) DEF Recording, Holds, HoldsAt
  <2> QED
    BY <2>1, <2>2 DEF Inv, OrderInv, AloneInv
<1> QED
  BY InvariantHolds, <1>1, PTL

-----------------------------------------------------------------------------
(***************************************************************************)
(* NobodyLeftSuspended.  A thread that crashes never comes back, so that a  *)
(* program at rest has only seen reports by hand.  Of these each owes every *)
(* thread at most one resume, from when it may have suspended it until it   *)
(* has passed it again (Owes), and no thread is suspended more often than   *)
(* that.  What must be ruled out is that the later of two finds the threads *)
(* resumed that it has suspended itself: then the other one would have had  *)
(* to run while it was suspended.                                          *)
(***************************************************************************)
Exceptional == {Primary, Secondary}
Reporting(t) == InHandler(t) /\ handler[t] = "user"
Returning(t) == place[t] = "run" \/ Reporting(t)
SomeCrashed == \E t \in App : ~Returning(t)

CountsType ==
    /\ suspended \in [Threads -> Nat] /\ crashes \in Nat /\ calls \in Nat /\ faults \in Nat
    /\ known \subseteq Exceptional /\ reserved \subseteq Exceptional /\ running \in BOOLEAN
ScriptInv ==
    \A t \in Threads : InHandler(t) =>
        /\ handler[t] \in DOMAIN Script /\ at[t] \in 1..Len(Script[handler[t]])
        /\ loop[t] \in 0..Len(Order)
RolesInv ==
    /\ \A t \in App : /\ place[t] \in {"run", "handler", "faulted", "signalled"}
                      /\ InHandler(t) => handler[t] # "mach"
    /\ \A t \in Exceptional : /\ place[t] # "run"
                              /\ InHandler(t) => handler[t] \in AsyncSafe
AnyInv == ThreadType /\ CountsType /\ ScriptInv /\ RolesInv

\* Between its last suspension and its first resume.
Keeps(t) == Reporting(t) /\ (at[t] \in 3..6 \/ (at[t] = 7 /\ loop[t] = 0))
Passed(t, u) == \E i \in 1..loop[t] : Order[i] = u
HasSuspended(t, u) == Reporting(t) /\ at[t] = 2 /\ Passed(t, u)
Owes(t, u) ==
    /\ u # t /\ Reporting(t)
    /\ \/ at[t] = 2 /\ Passed(t, u)
       \/ at[t] \in 3..6
       \/ at[t] = 7 /\ ~Passed(t, u)
Debt(t, u) == IF Owes(t, u) THEN 1 ELSE 0
OwesAll(t) == \A u \in App : suspended[u] <= Debt(t, u)

(* No report, the reports of one thread, and those of two.                 *)
Nobody ==
    /\ calls = 0 /\ running
    /\ \A t \in App : place[t] = "run" /\ suspended[t] = 0
One(a) ==
    /\ calls > 0 /\ \A t \in App \ {a} : place[t] = "run"
    /\ running <=> ~(Reporting(a) /\ at[a] \in 3..7)
    /\ OwesAll(a)
    /\ \A u \in App \ {a} : Keeps(a) \/ HasSuspended(a, u) => suspended[u] >= 1
Beside(t, o) ==
    /\ Keeps(t) => /\ suspended[o] >= 1 \/ OwesAll(o)
                   /\ running => OwesAll(o)
                   /\ Keeps(o) => ~running
    /\ HasSuspended(t, o) => suspended[o] >= 1
Two(a, b) ==
    /\ calls = 2 /\ a # b
    /\ \A t \in App \ {a, b} : place[t] = "run"
    /\ \A u \in App : suspended[u] <= Debt(a, u) + Debt(b, u)
    /\ Beside(a, b) /\ Beside(b, a)
Unharmed ==
    /\ crashes = 0 /\ faults = 0 /\ port = <<>>
    /\ \A t \in Exceptional : place[t] \in {"wait", "gone"}
    /\ \A t \in App : Returning(t)
OnlyReports ==
    Unharmed /\ (Nobody \/ (\E a \in App : One(a)) \/ (\E a, b \in App : Two(a, b)))
ReportsInv == AnyInv /\ (calls <= 2 => SomeCrashed \/ OnlyReports)

LEMMA ScriptSteps ==
    ASSUME NEW h \in DOMAIN Script, NEW i \in 1..Len(Script[h])
    PROVE  /\ Script[h][i] \notin {"reply", "raise", "abort", "reinstall"} => i + 1 \in 1..Len(Script[h])
           /\ Script[h][i] = "open" => i + 2 \in 1..Len(Script[h])
           /\ Len(Script[h]) \in 1..Len(Script[h])
           /\ Script[h][i] = "reinstall" => h = "user"
           /\ Script[h][i] = "reply" => h = "mach"
<1>1. CASE h = "mach"
  <2> DEFINE s == Script["mach"]
  <2>2. /\ s[1] = "read" /\ s[2] = "begin" /\ s[3] = "suspend" /\ s[4] = "activate"
        /\ s[5] = "recrash" /\ s[6] = "fill" /\ s[7] = "open" /\ s[8] = "write"
        /\ s[9] = "uninstall" /\ s[10] = "resume" /\ s[11] = "reply"
    BY DEF Script
  <2>3. Len(s) = 11
    BY DEF Script
  <2> HIDE DEF s
  <2>4. i \in 1..11 /\ Script[h] = s /\ Len(Script[h]) = 11
    BY <1>1, <2>3 DEF s
  <2>5. i # 11 => i + 1 \in 1..11
    BY <2>4
  <2>6. i = 7 => i + 2 \in 1..11
    OBVIOUS
  <2>7. s[i] = "reply" <=> i = 11
    BY <2>2, <2>4
  <2>8. s[i] = "open" => i = 7
    BY <2>2, <2>4
  <2>9. s[i] # "reinstall"
    BY <2>2, <2>4
  <2>10. 11 \in 1..11
    OBVIOUS
  <2>11. /\ s[i] \notin {"reply", "raise", "abort", "reinstall"} => i + 1 \in 1..11
         /\ s[i] = "open" => i + 2 \in 1..11
    BY <2>5, <2>6, <2>7, <2>8
  <2> QED
    BY <1>1, <2>4, <2>9, <2>10, <2>11
<1>2. CASE h = "signal"
  <2>1. Len(Script["signal"]) = 10
    BY DEF Script
  <2>2. i \in 1..10
    BY <1>2, <2>1
  <2> QED
    BY <1>2, <2>1, <2>2, SMTT(60) DEF Script
<1>3. CASE h = "ns"
  <2>1. Len(Script["ns"]) = 9
    BY DEF Script
  <2>2. i \in 1..9
    BY <1>3, <2>1
  <2> QED
    BY <1>3, <2>1, <2>2, SMTT(60) DEF Script
<1>4. CASE h = "user"
  <2>1. Len(Script["user"]) = 8
    BY DEF Script
  <2>2. i \in 1..8
    BY <1>4, <2>1
  <2> QED
    BY <1>4, <2>1, <2>2, SMTT(60) DEF Script
<1>5. CASE h = "fatal"
  <2>1. Len(Script["fatal"]) = 8
    BY DEF Script
  <2>2. i \in 1..8
    BY <1>5, <2>1
  <2> QED
    BY <1>5, <2>1, <2>2, SMTT(60) DEF Script
<1> QED
  BY <1>1, <1>2, <1>3, <1>4, <1>5 DEF Script

(* The stages of a report by hand.                                         *)
LEMMA UserStages ==
    ASSUME NEW i \in 1..8
    PROVE  /\ Script["user"][i] = "begin" <=> i = 1
           /\ Script["user"][i] = "suspend" <=> i = 2
           /\ Script["user"][i] = "fill" <=> i = 3
           /\ Script["user"][i] = "open" <=> i = 4
           /\ Script["user"][i] = "write" <=> i = 5
           /\ Script["user"][i] = "clear" <=> i = 6
           /\ Script["user"][i] = "resume" <=> i = 7
           /\ Script["user"][i] = "reinstall" <=> i = 8
           /\ Script["user"][i] \notin {"read", "activate", "recrash", "uninstall", "reply", "raise", "abort"}
  BY SMTT(60) DEF Script

LEMMA UserScript == Len(Script["user"]) = 8 /\ "user" \in DOMAIN Script
  BY DEF Script

(* What a step of t does to where the threads are.                         *)
Others(t) ==
    \A u \in Threads \ {t} :
        /\ handler'[u] = handler[u] /\ at'[u] = at[u] /\ loop'[u] = loop[u]
        /\ \/ place'[u] = place[u]
           \/ u \in known /\ place'[u] = "gone"
           \/ place[u] = "faulted" /\ place'[u] = "signalled"
Comes(t) ==
    /\ InHandler(t)' /\ at'[t] = 1 /\ loop'[t] = 0
    /\ \/ t \in App /\ place[t] = "run" /\ handler'[t] \in {"ns", "user", "fatal"}
       \/ place[t] = "wait" /\ handler'[t] = "mach"
       \/ place[t] = "signalled" /\ handler'[t] = "signal"
Moves(t) ==
    /\ InHandler(t) /\ InHandler(t)' /\ handler'[t] = handler[t]
    /\ at'[t] \in 1..Len(Script[handler[t]]) /\ loop'[t] \in 0..Len(Order)
Goes(t) ==
    \/ place'[t] \in {"faulted", "signalled"} /\ (place[t] = "run" => t \in App)
    \/ InHandler(t) /\ handler[t] = "user" /\ place'[t] = "run"
    \/ InHandler(t) /\ handler[t] = "mach" /\ place'[t] = "gone"
    \/ ~InHandler(t) /\ UNCHANGED <<place, handler>>
Threading(t) == Others(t) /\ (Comes(t) \/ Moves(t) \/ Goes(t))

LEMMA AtStep ==
    ASSUME AnyInv, NEW t \in Threads, NEW s, At(t, s)
    PROVE  /\ Can(t) /\ InHandler(t) /\ handler[t] \in DOMAIN Script
           /\ at[t] \in 1..Len(Script[handler[t]]) /\ loop[t] \in 0..Len(Order)
           /\ Script[handler[t]][at[t]] = s
           /\ s \notin {"reply", "raise", "abort", "reinstall"} => at[t] + 1 \in 1..Len(Script[handler[t]])
           /\ s = "open" => at[t] + 2 \in 1..Len(Script[handler[t]])
           /\ Len(Script[handler[t]]) \in 1..Len(Script[handler[t]])
           /\ s = "reinstall" => handler[t] = "user"
           /\ s = "reply" => handler[t] = "mach"
<1>1. /\ Can(t) /\ InHandler(t) /\ handler[t] \in DOMAIN Script
      /\ at[t] \in 1..Len(Script[handler[t]]) /\ loop[t] \in 0..Len(Order)
      /\ Script[handler[t]][at[t]] = s
  BY DEF At, AnyInv, ScriptInv, InHandler
<1> QED
  BY <1>1, ScriptSteps

LEMMA StepThreading ==
    ASSUME AnyInv, NEW t \in Threads,
           Crash(t) \/ ReportUserException(t) \/ Fault(t) \/ Step(t)
    PROVE  Threading(t)
<1>0. ThreadType
  BY DEF AnyInv
<1> USE <1>0 DEF ThreadType, Threading, Others, Enter, Leave, Advance, InHandler
<1>1. CASE Crash(t)
  BY <1>1 DEF Crash, Trap, Comes, Goes
<1>2. CASE ReportUserException(t)
  BY <1>2 DEF ReportUserException, Comes
<1>3. CASE Fault(t)
  BY <1>3 DEF Fault, Trap, Goes, At
<1>4. CASE Receive(t)
  BY <1>4 DEF Receive, Comes
<1>5. CASE TakeSignal(t)
  BY <1>5 DEF TakeSignal, Comes, Goes
<1>6. CASE Read(t)
  <2>1. At(t, "read")
    BY <1>6 DEF Read
  <2>2. /\ InHandler(t) /\ at[t] \in 1..Len(Script[handler[t]]) /\ loop[t] \in 0..Len(Order)
        /\ at[t] + 1 \in 1..Len(Script[handler[t]])
        /\ Len(Script[handler[t]]) \in 1..Len(Script[handler[t]])
    BY <2>1, AtStep
  <2>3. 0 \in 0..Len(Order)
    BY OrderFacts
  <2>4. Others(t)
    BY <1>6, <2>2 DEF Read
  <2>5. Moves(t)
    BY <1>6, <2>2, <2>3 DEF Read, Moves
  <2> QED
    BY <2>4, <2>5
<1>7. CASE Begin(t)
  <2>1. At(t, "begin")
    BY <1>7 DEF Begin
  <2>2. /\ InHandler(t) /\ at[t] \in 1..Len(Script[handler[t]]) /\ loop[t] \in 0..Len(Order)
        /\ at[t] + 1 \in 1..Len(Script[handler[t]])
    BY <2>1, AtStep
  <2>3. 0 \in 0..Len(Order)
    BY OrderFacts
  <2>4. Others(t)
    BY <1>7, <2>2 DEF Begin
  <2>5. Moves(t)
    BY <1>7, <2>2, <2>3 DEF Begin, Moves
  <2> QED
    BY <2>4, <2>5
<1>8. CASE SuspendThreads(t)
  <2>1. At(t, "suspend")
    BY <1>8 DEF SuspendThreads
  <2>2. /\ InHandler(t) /\ at[t] \in 1..Len(Script[handler[t]]) /\ loop[t] \in 0..Len(Order)
        /\ at[t] + 1 \in 1..Len(Script[handler[t]])
    BY <2>1, AtStep
  <2>3. loop[t] # Len(Order) => loop[t] + 1 \in 0..Len(Order)
    BY <2>2, NextInOrder
  <2>4. 0 \in 0..Len(Order)
    BY OrderFacts
  <2>5. Others(t)
    BY <1>8 DEF SuspendThreads
  <2>6. Moves(t)
    BY <1>8, <2>2, <2>3, <2>4 DEF SuspendThreads, Moves
  <2> QED
    BY <2>5, <2>6
<1>9. CASE ResumeThreads(t)
  <2>1. At(t, "resume")
    BY <1>9 DEF ResumeThreads
  <2>2. /\ InHandler(t) /\ at[t] \in 1..Len(Script[handler[t]]) /\ loop[t] \in 0..Len(Order)
        /\ at[t] + 1 \in 1..Len(Script[handler[t]])
    BY <2>1, AtStep
  <2>3. loop[t] # Len(Order) => loop[t] + 1 \in 0..Len(Order)
    BY <2>2, NextInOrder
  <2>4. 0 \in 0..Len(Order)
    BY OrderFacts
  <2>5. Others(t)
    BY <1>9 DEF ResumeThreads
  <2>6. Moves(t)
    BY <1>9, <2>2, <2>3, <2>4 DEF ResumeThreads, Moves
  <2> QED
    BY <2>5, <2>6
<1>10. CASE Activate(t)
  <2>1. At(t, "activate")
    BY <1>10 DEF Activate
  <2>2. /\ InHandler(t) /\ at[t] \in 1..Len(Script[handler[t]]) /\ loop[t] \in 0..Len(Order)
        /\ at[t] + 1 \in 1..Len(Script[handler[t]])
    BY <2>1, AtStep
  <2>3. 0 \in 0..Len(Order)
    BY OrderFacts
  <2>4. Others(t)
    BY <1>10, <2>2 DEF Activate
  <2>5. Moves(t)
    BY <1>10, <2>2, <2>3 DEF Activate, Moves
  <2> QED
    BY <2>4, <2>5
<1>11. CASE Recrash(t)
  <2>1. At(t, "recrash")
    BY <1>11 DEF Recrash
  <2>2. /\ InHandler(t) /\ at[t] \in 1..Len(Script[handler[t]]) /\ loop[t] \in 0..Len(Order)
        /\ at[t] + 1 \in 1..Len(Script[handler[t]])
    BY <2>1, AtStep
  <2>3. 0 \in 0..Len(Order)
    BY OrderFacts
  <2>4. Others(t)
    BY <1>11, <2>2 DEF Recrash, Uninstall
  <2>5. Moves(t)
    BY <1>11, <2>2, <2>3 DEF Recrash, Uninstall, Moves, AnyInv, CountsType
  <2> QED
    BY <2>4, <2>5
<1>12. CASE UninstallHandlers(t)
  <2>1. At(t, "uninstall")
    BY <1>12 DEF UninstallHandlers
  <2>2. /\ InHandler(t) /\ at[t] \in 1..Len(Script[handler[t]]) /\ loop[t] \in 0..Len(Order)
        /\ at[t] + 1 \in 1..Len(Script[handler[t]])
    BY <2>1, AtStep
  <2>3. 0 \in 0..Len(Order)
    BY OrderFacts
  <2>4. Others(t)
    BY <1>12, <2>2 DEF UninstallHandlers, Uninstall
  <2>5. Moves(t)
    BY <1>12, <2>2, <2>3 DEF UninstallHandlers, Uninstall, Moves, AnyInv, CountsType
  <2> QED
    BY <2>4, <2>5
<1>13. CASE Fill(t)
  <2>1. At(t, "fill")
    BY <1>13 DEF Fill
  <2>2. /\ InHandler(t) /\ at[t] \in 1..Len(Script[handler[t]]) /\ loop[t] \in 0..Len(Order)
        /\ at[t] + 1 \in 1..Len(Script[handler[t]])
    BY <2>1, AtStep
  <2>3. 0 \in 0..Len(Order)
    BY OrderFacts
  <2>4. Others(t)
    BY <1>13, <2>2 DEF Fill
  <2>5. Moves(t)
    BY <1>13, <2>2, <2>3 DEF Fill, Moves
  <2> QED
    BY <2>4, <2>5
<1>14. CASE Open(t)
  <2>1. At(t, "open")
    BY <1>14 DEF Open
  <2>2. /\ InHandler(t) /\ at[t] \in 1..Len(Script[handler[t]]) /\ loop[t] \in 0..Len(Order)
        /\ at[t] + 1 \in 1..Len(Script[handler[t]])
        /\ at[t] + 2 \in 1..Len(Script[handler[t]])
    BY <2>1, AtStep
  <2>3. 0 \in 0..Len(Order)
    BY OrderFacts
  <2>4. Others(t)
    BY <1>14, <2>2 DEF Open
  <2>5. Moves(t)
    BY <1>14, <2>2, <2>3 DEF Open, Moves
  <2> QED
    BY <2>4, <2>5
<1>15. CASE Write(t)
  <2>1. At(t, "write")
    BY <1>15 DEF Write
  <2>2. /\ InHandler(t) /\ at[t] \in 1..Len(Script[handler[t]]) /\ loop[t] \in 0..Len(Order)
        /\ at[t] + 1 \in 1..Len(Script[handler[t]])
    BY <2>1, AtStep
  <2>3. 0 \in 0..Len(Order)
    BY OrderFacts
  <2>4. Others(t)
    BY <1>15, <2>2 DEF Write
  <2>5. Moves(t)
    BY <1>15, <2>2, <2>3 DEF Write, Moves
  <2> QED
    BY <2>4, <2>5
<1>16. CASE ClearContext(t)
  <2>1. At(t, "clear")
    BY <1>16 DEF ClearContext
  <2>2. /\ InHandler(t) /\ at[t] \in 1..Len(Script[handler[t]]) /\ loop[t] \in 0..Len(Order)
        /\ at[t] + 1 \in 1..Len(Script[handler[t]])
    BY <2>1, AtStep
  <2>3. 0 \in 0..Len(Order)
    BY OrderFacts
  <2>4. Others(t)
    BY <1>16, <2>2 DEF ClearContext
  <2>5. Moves(t)
    BY <1>16, <2>2, <2>3 DEF ClearContext, Moves
  <2> QED
    BY <2>4, <2>5
<1>17. CASE Reinstall(t)
  <2>1. At(t, "reinstall")
    BY <1>17 DEF Reinstall
  <2>2. /\ InHandler(t) /\ at[t] \in 1..Len(Script[handler[t]]) /\ loop[t] \in 0..Len(Order)
        /\ handler[t] = "user"
    BY <2>1, AtStep
  <2>3. 0 \in 0..Len(Order)
    BY OrderFacts
  <2>4. Others(t)
    BY <1>17, <2>2 DEF Reinstall
  <2>5. Goes(t)
    BY <1>17, <2>2, <2>3 DEF Reinstall, Goes
  <2> QED
    BY <2>4, <2>5
<1>18. CASE Reply(t)
  <2>1. At(t, "reply")
    BY <1>18 DEF Reply
  <2>2. /\ InHandler(t) /\ at[t] \in 1..Len(Script[handler[t]]) /\ loop[t] \in 0..Len(Order)
        /\ handler[t] = "mach"
    BY <2>1, AtStep
  <2>3. 0 \in 0..Len(Order)
    BY OrderFacts
  <2>4. Others(t)
    BY <1>18, <2>2 DEF Reply
  <2>5. Goes(t)
    BY <1>18, <2>2, <2>3 DEF Reply, Goes
  <2> QED
    BY <2>4, <2>5
<1>19. CASE Raise(t)
  <2>1. At(t, "raise")
    BY <1>19 DEF Raise
  <2>2. /\ InHandler(t) /\ at[t] \in 1..Len(Script[handler[t]]) /\ loop[t] \in 0..Len(Order)
    BY <2>1, AtStep
  <2>3. 0 \in 0..Len(Order)
    BY OrderFacts
  <2>4. Others(t)
    BY <1>19, <2>2 DEF Raise
  <2>5. Goes(t)
    BY <1>19, <2>2, <2>3 DEF Raise, Goes
  <2> QED
    BY <2>4, <2>5
<1>20. CASE Abort(t)
  <2>1. At(t, "abort")
    BY <1>20 DEF Abort
  <2>2. /\ InHandler(t) /\ at[t] \in 1..Len(Script[handler[t]]) /\ loop[t] \in 0..Len(Order)
    BY <2>1, AtStep
  <2>3. 0 \in 0..Len(Order)
    BY OrderFacts
  <2>4. Others(t)
    BY <1>20, <2>2 DEF Abort
  <2>5. Goes(t)
    BY <1>20, <2>2, <2>3 DEF Abort, Goes
  <2> QED
    BY <2>4, <2>5
<1> QED
  BY <1>1, <1>2, <1>3, <1>4, <1>5, <1>6, <1>7, <1>8, <1>9, <1>10, <1>11, <1>12, <1>13, <1>14, <1>15, <1>16, <1>17, <1>18, <1>19, <1>20 DEF Step

LEMMA TypesKept ==
    ASSUME AnyInv, NEW t \in Threads,
           Crash(t) \/ ReportUserException(t) \/ Fault(t) \/ Step(t)
    PROVE  ThreadType'
<1>0. ThreadType
  BY DEF AnyInv
<1> USE <1>0 DEF ThreadType, Enter, Leave, Advance
<1>1. CASE Crash(t)
  BY <1>1 DEF Crash, Trap
<1>2. CASE ReportUserException(t)
  BY <1>2 DEF ReportUserException
<1>3. CASE Fault(t)
  BY <1>3 DEF Fault, Trap
<1>4. CASE Receive(t)
  BY <1>4 DEF Receive
<1>5. CASE TakeSignal(t)
  BY <1>5 DEF TakeSignal
<1>6. CASE Read(t)
  BY <1>6 DEF Read
<1>7. CASE Begin(t)
  BY <1>7 DEF Begin
<1>8. CASE SuspendThreads(t)
  BY <1>8 DEF SuspendThreads
<1>9. CASE ResumeThreads(t)
  BY <1>9 DEF ResumeThreads
<1>10. CASE Activate(t)
  BY <1>10 DEF Activate
<1>11. CASE Recrash(t)
  BY <1>11 DEF Recrash, Uninstall
<1>12. CASE UninstallHandlers(t)
  BY <1>12 DEF UninstallHandlers, Uninstall
<1>13. CASE Fill(t)
  BY <1>13 DEF Fill
<1>14. CASE Open(t)
  BY <1>14 DEF Open
<1>15. CASE Write(t)
  BY <1>15 DEF Write
<1>16. CASE ClearContext(t)
  BY <1>16 DEF ClearContext
<1>17. CASE Reinstall(t)
  BY <1>17 DEF Reinstall
<1>18. CASE Reply(t)
  BY <1>18 DEF Reply
<1>19. CASE Raise(t)
  BY <1>19 DEF Raise
<1>20. CASE Abort(t)
  BY <1>20 DEF Abort
<1> QED
  BY <1>1, <1>2, <1>3, <1>4, <1>5, <1>6, <1>7, <1>8, <1>9, <1>10, <1>11, <1>12, <1>13, <1>14, <1>15, <1>16, <1>17, <1>18, <1>19, <1>20 DEF Step

LEMMA CountsKept ==
    ASSUME AnyInv, NEW t \in Threads,
           Crash(t) \/ ReportUserException(t) \/ Fault(t) \/ Step(t)
    PROVE  CountsType'
<1>0. CountsType
  BY DEF AnyInv
<1> USE <1>0 DEF CountsType
<1>1. CASE Crash(t)
  BY <1>1 DEF Crash
<1>2. CASE ReportUserException(t)
  BY <1>2 DEF ReportUserException
<1>3. CASE Fault(t)
  BY <1>3 DEF Fault
<1>4. CASE Receive(t)
  BY <1>4 DEF Receive
<1>5. CASE TakeSignal(t)
  BY <1>5 DEF TakeSignal
<1>6. CASE Read(t)
  BY <1>6 DEF Read
<1>7. CASE Begin(t)
  BY <1>7 DEF Begin
<1>8. CASE SuspendThreads(t)
  <2>1. loop[t] \in 0..Len(Order)
    BY <1>8, AtStep DEF SuspendThreads
  <2>2. loop[t] # Len(Order) => Order[loop[t] + 1] \in Threads
    BY <2>1, NextInOrder
  <2>3. \/ suspended' = suspended
        \/ \E u \in Threads : suspended' = [suspended EXCEPT ![u] = @ + 1]
    BY <1>8, <2>2 DEF SuspendThreads
  <2>4. suspended' \in [Threads -> Nat]
    BY <2>3, Update
  <2> QED
    BY <1>8, <2>4 DEF SuspendThreads
<1>9. CASE ResumeThreads(t)
  <2>1. loop[t] \in 0..Len(Order)
    BY <1>9, AtStep DEF ResumeThreads
  <2>2. loop[t] # Len(Order) => Order[loop[t] + 1] \in Threads
    BY <2>1, NextInOrder
  <2>3. \/ suspended' = suspended
        \/ \E u \in Threads : suspended[u] # 0 /\ suspended' = [suspended EXCEPT ![u] = @ - 1]
    BY <1>9, <2>2 DEF ResumeThreads
  <2>4. suspended' \in [Threads -> Nat]
    BY <2>3, Update
  <2> QED
    BY <1>9, <2>4 DEF ResumeThreads
<1>10. CASE Activate(t)
  <2>1. \/ suspended' = suspended
        \/ suspended[Secondary] # 0 /\ suspended' = [suspended EXCEPT ![Secondary] = @ - 1]
    BY <1>10 DEF Activate
  <2>2. suspended' \in [Threads -> Nat]
    BY <2>1, Update
  <2> QED
    BY <1>10, <2>2 DEF Activate
<1>11. CASE Recrash(t)
  <2>1. suspended' \in [Threads -> Nat] /\ known' \subseteq known
    BY <1>11 DEF Recrash, Uninstall
  <2> QED
    BY <1>11, <2>1 DEF Recrash
<1>12. CASE UninstallHandlers(t)
  <2>1. suspended' \in [Threads -> Nat] /\ known' \subseteq known
    BY <1>12 DEF UninstallHandlers, Uninstall
  <2> QED
    BY <1>12, <2>1 DEF UninstallHandlers
<1>13. CASE Fill(t)
  BY <1>13 DEF Fill
<1>14. CASE Open(t)
  BY <1>14 DEF Open
<1>15. CASE Write(t)
  BY <1>15 DEF Write
<1>16. CASE ClearContext(t)
  BY <1>16 DEF ClearContext
<1>17. CASE Reinstall(t)
  BY <1>17 DEF Reinstall
<1>18. CASE Reply(t)
  BY <1>18 DEF Reply
<1>19. CASE Raise(t)
  BY <1>19 DEF Raise
<1>20. CASE Abort(t)
  BY <1>20 DEF Abort
<1> QED
  BY <1>1, <1>2, <1>3, <1>4, <1>5, <1>6, <1>7, <1>8, <1>9, <1>10, <1>11, <1>12, <1>13, <1>14, <1>15, <1>16, <1>17, <1>18, <1>19, <1>20 DEF Step

LEMMA ScriptLasts == \A h \in DOMAIN Script : Len(Script[h]) \in Nat /\ 1 \in 1..Len(Script[h])
<1>1. /\ Len(Script["mach"]) = 11 /\ Len(Script["signal"]) = 10 /\ Len(Script["ns"]) = 9
      /\ Len(Script["user"]) = 8 /\ Len(Script["fatal"]) = 8
  BY DEF Script
<1>2. DOMAIN Script = {"mach", "signal", "ns", "user", "fatal"}
  BY DEF Script
<1>3. ASSUME NEW h \in DOMAIN Script
      PROVE  Len(Script[h]) \in Nat /\ 1 \in 1..Len(Script[h])
  <2>1. h \in {"mach", "signal", "ns", "user", "fatal"}
    BY <1>2
  <2> DEFINE n == Len(Script[h])
  <2>2. n \in {8, 9, 10, 11}
    BY <1>1, <2>1
  <2> HIDE DEF n
  <2>3. n \in Nat /\ 1 \in 1..n
    BY <2>2
  <2> QED
    BY <2>3 DEF n
<1> QED
  BY <1>3

LEMMA RolesKept ==
    ASSUME AnyInv, NEW t \in Threads, Threading(t)
    PROVE  ScriptInv' /\ RolesInv'
<1>1. ScriptInv'
  <2> SUFFICES ASSUME NEW u \in Threads, InHandler(u)'
               PROVE  (/\ handler[u] \in DOMAIN Script /\ at[u] \in 1..Len(Script[handler[u]])
                       /\ loop[u] \in 0..Len(Order))'
    BY DEF ScriptInv
  <2>1. CASE u # t
    BY <2>1 DEF Threading, Others, InHandler, AnyInv, ScriptInv
  <2>2. CASE u = t /\ Comes(t)
    <3>1. handler'[t] \in DOMAIN Script /\ at'[t] = 1 /\ loop'[t] = 0
      BY <2>2 DEF Comes, Script
    <3>2. 1 \in 1..Len(Script[handler'[t]])
      BY <3>1, ScriptLasts
    <3>3. 0 \in 0..Len(Order)
      BY OrderFacts
    <3> QED
      BY <2>2, <3>1, <3>2, <3>3
  <2>3. CASE u = t /\ Moves(t)
    BY <2>3 DEF Moves, AnyInv, ScriptInv
  <2>4. CASE u = t /\ Goes(t)
    BY <2>4 DEF Goes, InHandler
  <2> QED
    BY <2>1, <2>2, <2>3, <2>4 DEF Threading
<1>2. ASSUME NEW u \in App
      PROVE  (/\ place[u] \in {"run", "handler", "faulted", "signalled"}
              /\ InHandler(u) => handler[u] # "mach")'
  <2>0. u \in Threads /\ u \notin Exceptional /\ u \notin known
    BY <1>2 DEF App, Exceptional, AnyInv, CountsType
  <2>1. CASE u # t
    BY <2>0, <2>1 DEF Threading, Others, InHandler, AnyInv, RolesInv
  <2>2. CASE u = t
    BY <2>0, <2>2 DEF Threading, Comes, Moves, Goes, InHandler, AnyInv, RolesInv
  <2> QED
    BY <2>1, <2>2
<1>3. ASSUME NEW u \in Exceptional
      PROVE  (/\ place[u] # "run"
              /\ InHandler(u) => handler[u] \in AsyncSafe)'
  <2>0. u \in Threads /\ u \notin App
    BY <1>3 DEF App, Exceptional
  <2>1. CASE u # t
    BY <2>0, <2>1 DEF Threading, Others, InHandler, AnyInv, RolesInv
  <2>2. CASE u = t
    BY <2>0, <2>2 DEF Threading, Comes, Moves, Goes, InHandler, AnyInv, RolesInv, AsyncSafe
  <2> QED
    BY <2>1, <2>2
<1> QED
  BY <1>1, <1>2, <1>3 DEF RolesInv

(* A thread that crashed does not come back.                               *)
LEMMA CrashStays ==
    ASSUME AnyInv, SomeCrashed, NEW t \in Threads, Threading(t)
    PROVE  SomeCrashed'
<1> PICK u \in App : ~Returning(u)
  BY DEF SomeCrashed
<1>0. u \in Threads /\ u \notin Exceptional /\ u \notin known
  BY DEF App, Exceptional, AnyInv, CountsType
<1>1. place[u] \in {"handler", "faulted", "signalled"} /\ (InHandler(u) => handler[u] \notin {"user", "mach"})
  BY <1>0 DEF Returning, Reporting, AnyInv, RolesInv, InHandler
<1>2. ~Returning(u)'
  <2>1. CASE u # t
    BY <1>0, <1>1, <2>1 DEF Threading, Others, InHandler, Returning, Reporting
  <2>2. CASE u = t
    BY <1>0, <1>1, <2>2 DEF Threading, Comes, Moves, Goes, InHandler, Returning, Reporting
  <2> QED
    BY <2>1, <2>2
<1> QED
  BY <1>2 DEF SomeCrashed

(* What a step does while there are only reports by hand.                  *)
OnlyThread(t) ==
    \A u \in Threads \ {t} :
        place'[u] = place[u] /\ handler'[u] = handler[u] /\ at'[u] = at[u] /\ loop'[u] = loop[u]
Calls(t) ==
    /\ place[t] = "run" /\ Reporting(t)' /\ at'[t] = 1 /\ loop'[t] = 0
    /\ calls' = calls + 1 /\ UNCHANGED <<suspended, running>>
Prepares(t) ==
    /\ Reporting(t) /\ Reporting(t)' /\ at[t] = 1 /\ at'[t] = 2 /\ loop'[t] = 0
    /\ UNCHANGED <<calls, suspended, running>>
Records(t) ==
    /\ Reporting(t) /\ Reporting(t)' /\ at[t] \in 3..6 /\ at'[t] \in 4..7 /\ (at'[t] = 7 => loop'[t] = 0)
    /\ UNCHANGED <<calls, suspended, running>>
Returns(t) ==
    /\ Reporting(t) /\ at[t] = 8 /\ place'[t] = "run"
    /\ UNCHANGED <<calls, suspended, running>>
SuspendsOne(t) ==
    /\ Reporting(t) /\ Reporting(t)' /\ at[t] = 2 /\ at'[t] = 2
    /\ loop[t] # Len(Order) /\ loop'[t] = loop[t] + 1 /\ ~AlreadySuspended(t)
    /\ LET u == Order[loop[t] + 1] IN
       suspended' = IF u = t \/ u \in reserved \/ place[u] = "gone" THEN suspended
                    ELSE [suspended EXCEPT ![u] = @ + 1]
    /\ UNCHANGED <<calls, running>>
SuspendsNoMore(t) ==
    /\ Reporting(t) /\ Reporting(t)' /\ at[t] = 2 /\ at'[t] = 3 /\ loop'[t] = 0
    /\ AlreadySuspended(t) \/ loop[t] = Len(Order)
    /\ running' = FALSE /\ UNCHANGED <<calls, suspended>>
ResumesOne(t) ==
    /\ Reporting(t) /\ Reporting(t)' /\ at[t] = 7 /\ at'[t] = 7
    /\ loop[t] # Len(Order) /\ loop'[t] = loop[t] + 1 /\ ~AlreadyResumed(t)
    /\ LET u == Order[loop[t] + 1] IN
       suspended' = IF u = t \/ u \in reserved \/ place[u] = "gone" \/ suspended[u] = 0 THEN suspended
                    ELSE [suspended EXCEPT ![u] = @ - 1]
    /\ UNCHANGED <<calls, running>>
ResumesNoMore(t) ==
    /\ Reporting(t) /\ Reporting(t)' /\ at[t] = 7 /\ at'[t] = 8 /\ loop'[t] = 0
    /\ AlreadyResumed(t) \/ loop[t] = Len(Order)
    /\ running' = TRUE /\ UNCHANGED <<calls, suspended>>
Effortless(t) == Prepares(t) \/ Records(t) \/ Returns(t)
Reports(t) ==
    /\ t \in App /\ Can(t) /\ OnlyThread(t)
    /\ \/ Calls(t) \/ Effortless(t) \/ SuspendsOne(t) \/ SuspendsNoMore(t)
       \/ ResumesOne(t) \/ ResumesNoMore(t)

LEMMA UserAt ==
    ASSUME AnyInv, Unharmed, NEW t \in Threads, NEW s, At(t, s)
    PROVE  /\ t \in App /\ Can(t) /\ Reporting(t) /\ InHandler(t)
           /\ at[t] \in 1..8 /\ loop[t] \in 0..Len(Order) /\ Script["user"][at[t]] = s
<1>1. Can(t) /\ InHandler(t) /\ at[t] \in 1..Len(Script[handler[t]]) /\ loop[t] \in 0..Len(Order)
      /\ Script[handler[t]][at[t]] = s
  BY AtStep
<1>2. t \in App
  BY <1>1 DEF Unharmed, App, Exceptional, InHandler
<1>3. handler[t] = "user"
  BY <1>1, <1>2 DEF Unharmed, Returning, Reporting, InHandler
<1> QED
  BY <1>1, <1>2, <1>3, UserScript DEF Reporting

LEMMA ReportSteps ==
    ASSUME AnyInv, Unharmed, NEW t \in Threads,
           Crash(t) \/ ReportUserException(t) \/ Fault(t) \/ Step(t)
    PROVE  SomeCrashed' \/ (Unharmed' /\ Reports(t))
<1>0. ThreadType
  BY DEF AnyInv
<1> USE <1>0 DEF ThreadType, OnlyThread, Enter, Leave, Advance
<1>1. CASE Crash(t)
  <2>1. t \in App /\ t \in Threads /\ ~Returning(t)'
    BY <1>1 DEF Crash, Trap, Returning, Reporting, InHandler
  <2> QED
    BY <2>1 DEF SomeCrashed
<1>2. CASE ReportUserException(t)
  <2>1. CASE Enter(t, "fatal")
    <3>1. t \in App /\ ~Returning(t)'
      BY <1>2, <2>1 DEF ReportUserException, Returning, Reporting, InHandler
    <3> QED
      BY <3>1 DEF SomeCrashed
  <2>2. CASE Enter(t, "user")
    <3>1. Calls(t) /\ t \in App /\ Can(t)
      BY <1>2, <2>2 DEF ReportUserException, Calls, Reporting, InHandler
    <3>2. OnlyThread(t) /\ UNCHANGED <<crashes, faults, port>>
      BY <1>2, <2>2 DEF ReportUserException
    <3>3. Unharmed'
      <4>1. \A u \in Exceptional : u \in Threads \ {t}
        BY <3>1 DEF App, Exceptional
      <4>2. \A u \in App : u \in Threads
        BY DEF App
      <4> QED
        BY <3>1, <3>2, <4>1, <4>2 DEF Unharmed, Returning, Reporting, InHandler, Calls
    <3> QED
      BY <3>1, <3>2, <3>3 DEF Reports
  <2> QED
    BY <1>2, <2>1, <2>2 DEF ReportUserException
<1>3. CASE Fault(t)
  <2>1. t \in App
    BY <1>3, UserAt DEF Fault
  <2>2. ~Returning(t)'
    BY <1>3 DEF Fault, Trap, Returning, Reporting, InHandler
  <2> QED
    BY <2>1, <2>2 DEF SomeCrashed
<1>4. CASE Receive(t)
  BY <1>4 DEF Receive, Unharmed, Returning, Reporting, InHandler, App, Exceptional
<1>5. CASE TakeSignal(t)
  BY <1>5 DEF TakeSignal, Unharmed, Returning, Reporting, InHandler, App, Exceptional
<1>6. CASE Read(t)
  <2>1. At(t, "read")
    BY <1>6 DEF Read
  <2> QED
    BY <2>1, UserAt, UserStages
<1>7. CASE Begin(t)
  <2>1. At(t, "begin")
    BY <1>7 DEF Begin
  <2>2. /\ t \in App /\ Can(t) /\ Reporting(t) /\ InHandler(t) /\ at[t] \in 1..8
        /\ Script["user"][at[t]] = "begin"
    BY <2>1, UserAt
  <2>3. at[t] = 1
    BY <2>2, UserStages
  <2>4. Prepares(t)
    BY <1>7, <2>2, <2>3 DEF Begin, Prepares, Reporting, InHandler
  <2>5. Effortless(t) /\ Returning(t)'
    BY <2>4 DEF Effortless, Returning, Prepares
  <2>6. OnlyThread(t) /\ UNCHANGED <<crashes, faults, port>>
    BY <1>7 DEF Begin
  <2>7. Unharmed'
    <3>1. \A u \in Exceptional : u \in Threads \ {t}
      BY <2>2 DEF App, Exceptional
    <3>2. \A u \in App : u \in Threads
      BY DEF App
    <3> QED
      BY <2>5, <2>6, <3>1, <3>2 DEF Unharmed, Returning, Reporting, InHandler
  <2> QED
    BY <2>2, <2>4, <2>5, <2>6, <2>7 DEF Reports
<1>8. CASE SuspendThreads(t)
  <2>1. At(t, "suspend")
    BY <1>8 DEF SuspendThreads
  <2>2. /\ t \in App /\ Can(t) /\ Reporting(t) /\ InHandler(t) /\ at[t] \in 1..8
        /\ Script["user"][at[t]] = "suspend"
    BY <2>1, UserAt
  <2>3. at[t] = 2
    BY <2>2, UserStages
  <2>4. SuspendsOne(t) \/ SuspendsNoMore(t)
    <3>1. CASE AlreadySuspended(t) \/ loop[t] = Len(Order)
      BY <1>8, <2>2, <2>3, <3>1 DEF SuspendThreads, SuspendsNoMore, Reporting, InHandler
    <3>2. CASE ~(AlreadySuspended(t) \/ loop[t] = Len(Order))
      BY <1>8, <2>2, <2>3, <3>2 DEF SuspendThreads, SuspendsOne, Reporting, InHandler, Spared
    <3> QED
      BY <3>1, <3>2
  <2>5. Returning(t)'
    BY <2>4 DEF Returning, SuspendsOne, SuspendsNoMore
  <2>6. OnlyThread(t) /\ UNCHANGED <<crashes, faults, port>>
    BY <1>8 DEF SuspendThreads
  <2>7. Unharmed'
    <3>1. \A u \in Exceptional : u \in Threads \ {t}
      BY <2>2 DEF App, Exceptional
    <3>2. \A u \in App : u \in Threads
      BY DEF App
    <3> QED
      BY <2>5, <2>6, <3>1, <3>2 DEF Unharmed, Returning, Reporting, InHandler
  <2> QED
    BY <2>2, <2>4, <2>5, <2>6, <2>7 DEF Reports
<1>9. CASE ResumeThreads(t)
  <2>1. At(t, "resume")
    BY <1>9 DEF ResumeThreads
  <2>2. /\ t \in App /\ Can(t) /\ Reporting(t) /\ InHandler(t) /\ at[t] \in 1..8
        /\ Script["user"][at[t]] = "resume"
    BY <2>1, UserAt
  <2>3. at[t] = 7
    BY <2>2, UserStages
  <2>4. ResumesOne(t) \/ ResumesNoMore(t)
    <3>1. CASE AlreadyResumed(t) \/ loop[t] = Len(Order)
      BY <1>9, <2>2, <2>3, <3>1 DEF ResumeThreads, ResumesNoMore, Reporting, InHandler
    <3>2. CASE ~(AlreadyResumed(t) \/ loop[t] = Len(Order))
      BY <1>9, <2>2, <2>3, <3>2 DEF ResumeThreads, ResumesOne, Reporting, InHandler, Spared
    <3> QED
      BY <3>1, <3>2
  <2>5. Returning(t)'
    BY <2>4 DEF Returning, ResumesOne, ResumesNoMore
  <2>6. OnlyThread(t) /\ UNCHANGED <<crashes, faults, port>>
    BY <1>9 DEF ResumeThreads
  <2>7. Unharmed'
    <3>1. \A u \in Exceptional : u \in Threads \ {t}
      BY <2>2 DEF App, Exceptional
    <3>2. \A u \in App : u \in Threads
      BY DEF App
    <3> QED
      BY <2>5, <2>6, <3>1, <3>2 DEF Unharmed, Returning, Reporting, InHandler
  <2> QED
    BY <2>2, <2>4, <2>5, <2>6, <2>7 DEF Reports
<1>10. CASE Activate(t)
  <2>1. At(t, "activate")
    BY <1>10 DEF Activate
  <2> QED
    BY <2>1, UserAt, UserStages
<1>11. CASE Recrash(t)
  <2>1. At(t, "recrash")
    BY <1>11 DEF Recrash
  <2> QED
    BY <2>1, UserAt, UserStages
<1>12. CASE UninstallHandlers(t)
  <2>1. At(t, "uninstall")
    BY <1>12 DEF UninstallHandlers
  <2> QED
    BY <2>1, UserAt, UserStages
<1>13. CASE Fill(t)
  <2>1. At(t, "fill")
    BY <1>13 DEF Fill
  <2>2. /\ t \in App /\ Can(t) /\ Reporting(t) /\ InHandler(t) /\ at[t] \in 1..8
        /\ Script["user"][at[t]] = "fill"
    BY <2>1, UserAt
  <2>3. at[t] = 3
    BY <2>2, UserStages
  <2>4. Records(t)
    BY <1>13, <2>2, <2>3 DEF Fill, Records, Reporting, InHandler
  <2>5. Effortless(t) /\ Returning(t)'
    BY <2>4 DEF Effortless, Returning, Records
  <2>6. OnlyThread(t) /\ UNCHANGED <<crashes, faults, port>>
    BY <1>13 DEF Fill
  <2>7. Unharmed'
    <3>1. \A u \in Exceptional : u \in Threads \ {t}
      BY <2>2 DEF App, Exceptional
    <3>2. \A u \in App : u \in Threads
      BY DEF App
    <3> QED
      BY <2>5, <2>6, <3>1, <3>2 DEF Unharmed, Returning, Reporting, InHandler
  <2> QED
    BY <2>2, <2>4, <2>5, <2>6, <2>7 DEF Reports
<1>14. CASE Open(t)
  <2>1. At(t, "open")
    BY <1>14 DEF Open
  <2>2. /\ t \in App /\ Can(t) /\ Reporting(t) /\ InHandler(t) /\ at[t] \in 1..8
        /\ Script["user"][at[t]] = "open"
    BY <2>1, UserAt
  <2>3. at[t] = 4
    BY <2>2, UserStages
  <2>4. Records(t)
    <3>1. /\ place' = place /\ handler' = handler /\ at'[t] \in {5, 6}
          /\ UNCHANGED <<calls, suspended, running>>
      BY <1>14, <2>2, <2>3 DEF Open
    <3> QED
      BY <2>2, <2>3, <3>1 DEF Records, Reporting, InHandler
  <2>5. Effortless(t) /\ Returning(t)'
    BY <2>4 DEF Effortless, Returning, Records
  <2>6. OnlyThread(t) /\ UNCHANGED <<crashes, faults, port>>
    BY <1>14 DEF Open
  <2>7. Unharmed'
    <3>1. \A u \in Exceptional : u \in Threads \ {t}
      BY <2>2 DEF App, Exceptional
    <3>2. \A u \in App : u \in Threads
      BY DEF App
    <3> QED
      BY <2>5, <2>6, <3>1, <3>2 DEF Unharmed, Returning, Reporting, InHandler
  <2> QED
    BY <2>2, <2>4, <2>5, <2>6, <2>7 DEF Reports
<1>15. CASE Write(t)
  <2>1. At(t, "write")
    BY <1>15 DEF Write
  <2>2. /\ t \in App /\ Can(t) /\ Reporting(t) /\ InHandler(t) /\ at[t] \in 1..8
        /\ Script["user"][at[t]] = "write"
    BY <2>1, UserAt
  <2>3. at[t] = 5
    BY <2>2, UserStages
  <2>4. Records(t)
    BY <1>15, <2>2, <2>3 DEF Write, Records, Reporting, InHandler
  <2>5. Effortless(t) /\ Returning(t)'
    BY <2>4 DEF Effortless, Returning, Records
  <2>6. OnlyThread(t) /\ UNCHANGED <<crashes, faults, port>>
    BY <1>15 DEF Write
  <2>7. Unharmed'
    <3>1. \A u \in Exceptional : u \in Threads \ {t}
      BY <2>2 DEF App, Exceptional
    <3>2. \A u \in App : u \in Threads
      BY DEF App
    <3> QED
      BY <2>5, <2>6, <3>1, <3>2 DEF Unharmed, Returning, Reporting, InHandler
  <2> QED
    BY <2>2, <2>4, <2>5, <2>6, <2>7 DEF Reports
<1>16. CASE ClearContext(t)
  <2>1. At(t, "clear")
    BY <1>16 DEF ClearContext
  <2>2. /\ t \in App /\ Can(t) /\ Reporting(t) /\ InHandler(t) /\ at[t] \in 1..8
        /\ Script["user"][at[t]] = "clear"
    BY <2>1, UserAt
  <2>3. at[t] = 6
    BY <2>2, UserStages
  <2>4. Records(t)
    BY <1>16, <2>2, <2>3 DEF ClearContext, Records, Reporting, InHandler
  <2>5. Effortless(t) /\ Returning(t)'
    BY <2>4 DEF Effortless, Returning, Records
  <2>6. OnlyThread(t) /\ UNCHANGED <<crashes, faults, port>>
    BY <1>16 DEF ClearContext
  <2>7. Unharmed'
    <3>1. \A u \in Exceptional : u \in Threads \ {t}
      BY <2>2 DEF App, Exceptional
    <3>2. \A u \in App : u \in Threads
      BY DEF App
    <3> QED
      BY <2>5, <2>6, <3>1, <3>2 DEF Unharmed, Returning, Reporting, InHandler
  <2> QED
    BY <2>2, <2>4, <2>5, <2>6, <2>7 DEF Reports
<1>17. CASE Reinstall(t)
  <2>1. At(t, "reinstall")
    BY <1>17 DEF Reinstall
  <2>2. /\ t \in App /\ Can(t) /\ Reporting(t) /\ InHandler(t) /\ at[t] \in 1..8
        /\ Script["user"][at[t]] = "reinstall"
    BY <2>1, UserAt
  <2>3. at[t] = 8
    BY <2>2, UserStages
  <2>4. Returns(t)
    BY <1>17, <2>2, <2>3 DEF Reinstall, Returns, Reporting, InHandler
  <2>5. Effortless(t) /\ Returning(t)'
    BY <2>4 DEF Effortless, Returning, Returns
  <2>6. OnlyThread(t) /\ UNCHANGED <<crashes, faults, port>>
    BY <1>17 DEF Reinstall
  <2>7. Unharmed'
    <3>1. \A u \in Exceptional : u \in Threads \ {t}
      BY <2>2 DEF App, Exceptional
    <3>2. \A u \in App : u \in Threads
      BY DEF App
    <3> QED
      BY <2>5, <2>6, <3>1, <3>2 DEF Unharmed, Returning, Reporting, InHandler
  <2> QED
    BY <2>2, <2>4, <2>5, <2>6, <2>7 DEF Reports
<1>18. CASE Reply(t)
  <2>1. At(t, "reply")
    BY <1>18 DEF Reply
  <2> QED
    BY <2>1, UserAt, UserStages
<1>19. CASE Raise(t)
  <2>1. At(t, "raise")
    BY <1>19 DEF Raise
  <2> QED
    BY <2>1, UserAt, UserStages
<1>20. CASE Abort(t)
  <2>1. At(t, "abort")
    BY <1>20 DEF Abort
  <2> QED
    BY <2>1, UserAt, UserStages
<1> QED
  BY <1>1, <1>2, <1>3, <1>4, <1>5, <1>6, <1>7, <1>8, <1>9, <1>10, <1>11, <1>12, <1>13, <1>14, <1>15, <1>16, <1>17, <1>18, <1>19, <1>20 DEF Step

LEMMA PassedFacts ==
    ASSUME NEW t \in Threads, loop[t] \in 0..Len(Order)
    PROVE  /\ loop[t] = 0 => \A x : ~Passed(t, x)
           /\ loop[t] = Len(Order) => \A x \in Threads : Passed(t, x)
           /\ loop[t] # Len(Order) => ~Passed(t, Order[loop[t] + 1])
           /\ loop[t] # Len(Order) /\ loop'[t] = loop[t] + 1 =>
                 \A x : Passed(t, x)' <=> Passed(t, x) \/ x = Order[loop[t] + 1]
           /\ loop'[t] = 0 => \A x : ~Passed(t, x)'
<1> DEFINE l == loop[t]
<1>0. Len(Order) \in Nat /\ l \in 0..Len(Order)
  BY OrderFacts
<1>1. l = 0 => \A x : ~Passed(t, x)
  BY DEF Passed
<1>2. l = Len(Order) => \A x \in Threads : Passed(t, x)
  BY OrderFacts DEF Passed
<1>3. ASSUME l # Len(Order)
      PROVE  ~Passed(t, Order[l + 1])
  <2>1. l + 1 \in 1..Len(Order) /\ (\A i \in 1..l : i \in 1..Len(Order) /\ i # l + 1)
    BY <1>0, <1>3
  <2> QED
    BY <2>1, OnceAssumption DEF Passed
<1>4. ASSUME l # Len(Order), loop'[t] = l + 1, NEW x
      PROVE  Passed(t, x)' <=> Passed(t, x) \/ x = Order[l + 1]
  <2>1. \A i : i \in 1..(l + 1) <=> i \in 1..l \/ i = l + 1
    BY <1>0
  <2> QED
    BY <1>4, <2>1 DEF Passed
<1>5. loop'[t] = 0 => \A x : ~Passed(t, x)'
  BY DEF Passed
<1> QED
  BY <1>1, <1>2, <1>3, <1>4, <1>5

LEMMA OtherUnmoved ==
    ASSUME NEW t \in Threads, OnlyThread(t), NEW o \in Threads \ {t}
    PROVE  /\ Reporting(o)' <=> Reporting(o)
           /\ at'[o] = at[o]
           /\ Keeps(o)' <=> Keeps(o)
           /\ \A x : HasSuspended(o, x)' <=> HasSuspended(o, x)
           /\ \A x : Debt(o, x)' = Debt(o, x)
<1>1. place'[o] = place[o] /\ handler'[o] = handler[o] /\ at'[o] = at[o] /\ loop'[o] = loop[o]
  BY DEF OnlyThread
<1>2. Reporting(o)' <=> Reporting(o)
  BY <1>1 DEF Reporting, InHandler
<1>3. \A x : Passed(o, x)' <=> Passed(o, x)
  BY <1>1 DEF Passed
<1>4. Keeps(o)' <=> Keeps(o)
  BY <1>1, <1>2 DEF Keeps
<1>5. \A x : HasSuspended(o, x)' <=> HasSuspended(o, x)
  BY <1>1, <1>2, <1>3 DEF HasSuspended
<1>6. \A x : Owes(o, x)' <=> Owes(o, x)
  BY <1>1, <1>2, <1>3 DEF Owes
<1>7. \A x : Debt(o, x)' = Debt(o, x)
  BY <1>6 DEF Debt
<1> QED
  BY <1>1, <1>2, <1>4, <1>5, <1>7

(* What it does to what is owed.                                           *)
Alike(t) ==
    /\ Keeps(t)' <=> Keeps(t)
    /\ \A x : HasSuspended(t, x)' <=> HasSuspended(t, x)
    /\ \A x : Debt(t, x)' = Debt(t, x)
    /\ UNCHANGED <<suspended, running>>
Owing(t) ==
    \E u \in Threads :
        /\ ~Keeps(t) /\ ~Keeps(t)' /\ UNCHANGED running
        /\ \A x : HasSuspended(t, x)' => HasSuspended(t, x) \/ x = u
        /\ Debt(t, u) = 0
        /\ \A x \in App : Debt(t, x)' = IF x = u /\ x # t THEN 1 ELSE Debt(t, x)
        /\ \A x \in App : suspended'[x] = IF x = u /\ x # t THEN suspended[x] + 1 ELSE suspended[x]
Having(t) ==
    /\ Reporting(t) /\ at[t] = 2 /\ ~Keeps(t) /\ Keeps(t)' /\ running' = FALSE /\ UNCHANGED suspended
    /\ \A x : ~HasSuspended(t, x)'
    /\ \A x : Debt(t, x)' = IF x # t THEN 1 ELSE 0
    /\ \/ ~running /\ \A x : Debt(t, x) = 0
       \/ \A x \in Threads : HasSuspended(t, x)
Paying(t) ==
    \E u \in Threads :
        /\ ~Keeps(t)' /\ UNCHANGED running /\ (Keeps(t) => ~running)
        /\ \A x : ~HasSuspended(t, x)'
        /\ \A x \in App : Debt(t, x)' = IF x = u THEN 0 ELSE Debt(t, x)
        /\ u # t => Debt(t, u) = 1
        /\ \A x \in App : suspended'[x] = IF x = u /\ x # t /\ suspended[x] # 0
                                          THEN suspended[x] - 1 ELSE suspended[x]
Settled(t) ==
    /\ ~Keeps(t)' /\ running' = TRUE /\ UNCHANGED suspended
    /\ \A x : ~HasSuspended(t, x)'
    /\ \A x : Debt(t, x)' = 0
    /\ \/ running /\ Keeps(t)
       \/ \A x \in Threads : Debt(t, x) = 0

LEMMA EffortlessAlike ==
    ASSUME NEW t \in Threads, Calls(t) \/ Effortless(t)
    PROVE  Alike(t)
<1> USE DEF Keeps, HasSuspended, Owes, Passed, Reporting, InHandler
<1>1. CASE Calls(t)
  <2>1. (Keeps(t)' <=> Keeps(t)) /\ \A x : (HasSuspended(t, x)' <=> HasSuspended(t, x)) /\ (Owes(t, x)' <=> Owes(t, x))
    BY <1>1 DEF Calls
  <2> QED
    BY <1>1, <2>1 DEF Calls, Alike, Debt
<1>2. CASE Prepares(t)
  <2>1. (Keeps(t)' <=> Keeps(t)) /\ \A x : (HasSuspended(t, x)' <=> HasSuspended(t, x)) /\ (Owes(t, x)' <=> Owes(t, x))
    BY <1>2 DEF Prepares
  <2> QED
    BY <1>2, <2>1 DEF Prepares, Alike, Debt
<1>3. CASE Records(t)
  <2>0. \A x : at'[t] = 7 => ~Passed(t, x)'
    BY <1>3 DEF Records
  <2>1. (Keeps(t)' <=> Keeps(t)) /\ \A x : (HasSuspended(t, x)' <=> HasSuspended(t, x)) /\ (Owes(t, x)' <=> Owes(t, x))
    BY <1>3, <2>0 DEF Records
  <2> QED
    BY <1>3, <2>1 DEF Records, Alike, Debt
<1>4. CASE Returns(t)
  <2>1. (Keeps(t)' <=> Keeps(t)) /\ \A x : (HasSuspended(t, x)' <=> HasSuspended(t, x)) /\ (Owes(t, x)' <=> Owes(t, x))
    BY <1>4 DEF Returns
  <2> QED
    BY <1>4, <2>1 DEF Returns, Alike, Debt
<1> QED
  BY <1>1, <1>2, <1>3, <1>4 DEF Effortless

LEMMA SuspendsOneOwing ==
    ASSUME AnyInv, Unharmed, NEW t \in App, SuspendsOne(t)
    PROVE  Owing(t)
<1> DEFINE u == Order[loop[t] + 1]
<1>0. t \in Threads /\ loop[t] \in 0..Len(Order) /\ Reporting(t) /\ at[t] = 2
  BY DEF App, AnyInv, ScriptInv, SuspendsOne, Reporting
<1>1. u \in Threads /\ ~Passed(t, u) /\ (\A x : Passed(t, x)' <=> Passed(t, x) \/ x = u)
  BY <1>0, PassedFacts, NextInOrder DEF SuspendsOne
<1>2. Reporting(t)' /\ at'[t] = 2 /\ running' = running
  BY DEF SuspendsOne
<1> HIDE DEF u
<1>3. ~Keeps(t) /\ ~Keeps(t)' /\ (\A x : HasSuspended(t, x)' => HasSuspended(t, x) \/ x = u)
  BY <1>0, <1>1, <1>2 DEF Keeps, HasSuspended
<1>4. ~Owes(t, u) /\ \A x : Owes(t, x)' <=> (Owes(t, x) \/ (x = u /\ x # t))
  BY <1>0, <1>1, <1>2 DEF Owes
<1>5. ASSUME NEW x \in App
      PROVE  suspended'[x] = IF x = u /\ x # t THEN suspended[x] + 1 ELSE suspended[x]
  <2>1. x \notin reserved /\ place[x] # "gone" /\ x \in Threads
    BY DEF App, AnyInv, CountsType, RolesInv, Exceptional
  <2>2. suspended' = IF u = t \/ u \in reserved \/ place[u] = "gone" THEN suspended
                     ELSE [suspended EXCEPT ![u] = @ + 1]
    BY DEF SuspendsOne, u
  <2>3. suspended \in [Threads -> Nat]
    BY DEF AnyInv, CountsType
  <2> QED
    BY <2>1, <2>2, <2>3
<1>6. Debt(t, u) = 0 /\ \A x \in App : Debt(t, x)' = IF x = u /\ x # t THEN 1 ELSE Debt(t, x)
  BY <1>4 DEF Debt
<1> QED
  BY <1>1, <1>2, <1>3, <1>5, <1>6 DEF Owing

LEMMA SuspendsNoMoreHaving ==
    ASSUME AnyInv, NEW t \in App, SuspendsNoMore(t)
    PROVE  Having(t)
<1>0. t \in Threads /\ loop[t] \in 0..Len(Order) /\ Reporting(t) /\ at[t] = 2
  BY DEF App, AnyInv, ScriptInv, SuspendsNoMore, Reporting
<1>1. Reporting(t)' /\ at'[t] = 3 /\ running' = FALSE /\ suspended' = suspended
  BY DEF SuspendsNoMore
<1>2. ~Keeps(t) /\ Keeps(t)' /\ (\A x : ~HasSuspended(t, x)') /\ \A x : Owes(t, x)' <=> x # t
  BY <1>0, <1>1 DEF Keeps, HasSuspended, Owes
<1>3. (~running /\ \A x : ~Owes(t, x)) \/ \A x \in Threads : HasSuspended(t, x)
  <2>1. CASE AlreadySuspended(t)
    BY <1>0, <2>1, PassedFacts DEF AlreadySuspended, Owes
  <2>2. CASE loop[t] = Len(Order)
    BY <1>0, <2>2, PassedFacts DEF HasSuspended
  <2> QED
    BY <2>1, <2>2 DEF SuspendsNoMore
<1> QED
  BY <1>0, <1>1, <1>2, <1>3 DEF Having, Debt

LEMMA ResumesOnePaying ==
    ASSUME AnyInv, Unharmed, NEW t \in App, ResumesOne(t)
    PROVE  Paying(t)
<1> DEFINE u == Order[loop[t] + 1]
<1>0. t \in Threads /\ loop[t] \in 0..Len(Order) /\ Reporting(t) /\ at[t] = 7
  BY DEF App, AnyInv, ScriptInv, ResumesOne, Reporting
<1>1. u \in Threads /\ ~Passed(t, u) /\ (\A x : Passed(t, x)' <=> Passed(t, x) \/ x = u)
  BY <1>0, PassedFacts, NextInOrder DEF ResumesOne
<1>2. /\ Reporting(t)' /\ at'[t] = 7 /\ running' = running /\ (loop[t] = 0 => ~running)
      /\ loop'[t] = loop[t] + 1
  BY DEF ResumesOne, AlreadyResumed
<1>7. loop'[t] # 0
  <2>1. Len(Order) \in Nat
    BY OrderFacts
  <2> QED
    BY <1>0, <1>2, <2>1
<1> HIDE DEF u
<1>3. ~Keeps(t)' /\ (Keeps(t) => ~running) /\ (\A x : ~HasSuspended(t, x)')
  BY <1>0, <1>1, <1>2, <1>7 DEF Keeps, HasSuspended
<1>4. (u # t => Owes(t, u)) /\ \A x : Owes(t, x)' <=> (Owes(t, x) /\ x # u)
  BY <1>0, <1>1, <1>2 DEF Owes
<1>5. ASSUME NEW x \in App
      PROVE  suspended'[x] = IF x = u /\ x # t /\ suspended[x] # 0 THEN suspended[x] - 1 ELSE suspended[x]
  <2>1. x \notin reserved /\ place[x] # "gone" /\ x \in Threads
    BY DEF App, AnyInv, CountsType, RolesInv, Exceptional
  <2>2. suspended' = IF u = t \/ u \in reserved \/ place[u] = "gone" \/ suspended[u] = 0 THEN suspended
                     ELSE [suspended EXCEPT ![u] = @ - 1]
    BY DEF ResumesOne, u
  <2>3. suspended \in [Threads -> Nat]
    BY DEF AnyInv, CountsType
  <2> QED
    BY <2>1, <2>2, <2>3
<1>6. (u # t => Debt(t, u) = 1) /\ \A x \in App : Debt(t, x)' = IF x = u THEN 0 ELSE Debt(t, x)
  BY <1>4 DEF Debt
<1> QED
  BY <1>1, <1>2, <1>3, <1>5, <1>6 DEF Paying

LEMMA ResumesNoMoreSettled ==
    ASSUME AnyInv, NEW t \in App, ResumesNoMore(t)
    PROVE  Settled(t)
<1>0. t \in Threads /\ loop[t] \in 0..Len(Order) /\ Reporting(t) /\ at[t] = 7
  BY DEF App, AnyInv, ScriptInv, ResumesNoMore, Reporting
<1>1. Reporting(t)' /\ at'[t] = 8 /\ running' = TRUE /\ suspended' = suspended
  BY DEF ResumesNoMore
<1>2. ~Keeps(t)' /\ (\A x : ~HasSuspended(t, x)') /\ \A x : ~Owes(t, x)'
  BY <1>0, <1>1 DEF Keeps, HasSuspended, Owes
<1>3. (running /\ Keeps(t)) \/ \A x \in Threads : ~Owes(t, x)
  <2>1. CASE AlreadyResumed(t)
    BY <1>0, <2>1 DEF AlreadyResumed, Keeps
  <2>2. CASE loop[t] = Len(Order)
    BY <1>0, <2>2, PassedFacts DEF Owes
  <2> QED
    BY <2>1, <2>2 DEF ResumesNoMore
<1> QED
  BY <1>1, <1>2, <1>3 DEF Settled, Debt

(* Two reports side by side, one of which takes a step.                    *)
Together(t, o) ==
    /\ \A u \in App : suspended[u] <= Debt(t, u) + Debt(o, u)
    /\ Beside(t, o) /\ Beside(o, t)

LEMMA DebtType == \A t, u : Debt(t, u) \in {0, 1}
  BY DEF Debt

LEMMA TogetherKept ==
    ASSUME AnyInv, NEW t \in App, NEW o \in App \ {t}, Together(t, o), Can(t), OnlyThread(t),
           suspended' \in [Threads -> Nat],
           Alike(t) \/ Owing(t) \/ Having(t) \/ Paying(t) \/ Settled(t)
    PROVE  Together(t, o)'
<1>0. t \in Threads /\ o \in Threads /\ \A x \in App : x \in Threads
  BY DEF App
<1>1. /\ Keeps(o)' <=> Keeps(o)
      /\ \A x : HasSuspended(o, x)' <=> HasSuspended(o, x)
      /\ \A x : Debt(o, x)' = Debt(o, x)
  BY <1>0, OtherUnmoved
<1>2. \A x \in App : suspended[x] \in Nat /\ suspended'[x] \in Nat
  BY <1>0 DEF AnyInv, CountsType
<1>3. suspended[t] = 0
  BY DEF Can
<1>4. \A x : Debt(t, x) \in {0, 1} /\ Debt(o, x) \in {0, 1}
  BY DebtType
<1>5. \A x : Debt(t, x)' \in {0, 1} /\ Debt(o, x)' \in {0, 1}
  BY DEF Debt
<1>6. /\ Keeps(o) => OwesAll(t)
      /\ ~HasSuspended(o, t)
      /\ Keeps(t) /\ Keeps(o) => ~running
  BY <1>3 DEF Together, Beside
<1> USE <1>0, <1>1, <1>2, <1>3, <1>4, <1>5, <1>6
<1>7. CASE Alike(t)
  BY <1>7 DEF Alike, Together, Beside, OwesAll
<1>8. CASE Owing(t)
  <2> PICK u \in Threads : Owing(t)!(u)
    BY <1>8 DEF Owing
  <2>1. \A x \in App : suspended'[x] <= Debt(t, x)' + Debt(o, x)'
    BY DEF Together
  <2>2. Keeps(o) => OwesAll(t)'
    BY DEF OwesAll
  <2>3. HasSuspended(t, o)' => suspended'[o] >= 1
    BY DEF Together, Beside
  <2> QED
    BY <2>1, <2>2, <2>3 DEF Together, Beside
<1>9. CASE Having(t)
  <2>1. \A x \in App : suspended'[x] <= Debt(t, x)' + Debt(o, x)'
    BY <1>9 DEF Together, Having
  <2>2. Keeps(o) => OwesAll(t)'
    BY <1>9 DEF OwesAll, Having
  <2>3. suspended'[o] >= 1 \/ OwesAll(o)'
    <3>1. CASE \A x : Debt(t, x) = 0
      BY <1>9, <3>1 DEF Having, Together, OwesAll
    <3>2. CASE \A x \in Threads : HasSuspended(t, x)
      BY <1>9, <3>2 DEF Having, Together, Beside
    <3> QED
      BY <1>9, <3>1, <3>2 DEF Having
  <2> QED
    BY <1>9, <2>1, <2>2, <2>3 DEF Together, Beside, Having
<1>10. CASE Paying(t)
  <2> PICK u \in Threads : Paying(t)!(u)
    BY <1>10 DEF Paying
  <2>1. \A x \in App : suspended'[x] <= Debt(t, x)' + Debt(o, x)'
    BY DEF Together
  <2>2. Keeps(o) => OwesAll(t)'
    BY DEF OwesAll
  <2> QED
    BY <2>1, <2>2 DEF Together, Beside
<1>11. CASE Settled(t)
  <2>1. running /\ Keeps(t) => ~Keeps(o) /\ OwesAll(o)
    BY DEF Together, Beside
  <2>2. \A x \in App : suspended'[x] <= Debt(t, x)' + Debt(o, x)'
    <3>1. CASE running /\ Keeps(t)
      BY <1>11, <2>1, <3>1 DEF Settled, OwesAll
    <3>2. CASE \A x \in Threads : Debt(t, x) = 0
      BY <1>11, <3>2 DEF Settled, Together
    <3> QED
      BY <1>11, <3>1, <3>2 DEF Settled
  <2>3. Keeps(o) => OwesAll(t)'
    BY <1>11, <2>1 DEF Settled, OwesAll
  <2> QED
    BY <1>11, <2>2, <2>3 DEF Together, Beside, Settled
<1> QED
  BY <1>7, <1>8, <1>9, <1>10, <1>11

LEMMA ReportsChange ==
    ASSUME AnyInv, Unharmed, NEW t \in Threads, Reports(t)
    PROVE  Alike(t) \/ Owing(t) \/ Having(t) \/ Paying(t) \/ Settled(t)
<1>1. CASE Calls(t) \/ Effortless(t)
  BY <1>1, EffortlessAlike
<1>2. CASE SuspendsOne(t)
  BY <1>2, SuspendsOneOwing DEF Reports
<1>3. CASE SuspendsNoMore(t)
  BY <1>3, SuspendsNoMoreHaving DEF Reports
<1>4. CASE ResumesOne(t)
  BY <1>4, ResumesOnePaying DEF Reports
<1>5. CASE ResumesNoMore(t)
  BY <1>5, ResumesNoMoreSettled DEF Reports
<1> QED
  BY <1>1, <1>2, <1>3, <1>4, <1>5 DEF Reports

LEMMA FirstReport ==
    ASSUME AnyInv, Nobody, NEW t \in Threads, Reports(t)
    PROVE  One(t)'
<1>1. t \in App /\ place[t] = "run" /\ Calls(t) /\ OnlyThread(t)
  BY DEF Reports, Nobody, Effortless, Prepares, Records, Returns, SuspendsOne, SuspendsNoMore,
         ResumesOne, ResumesNoMore, Reporting, InHandler
<1>2. \A u \in App \ {t} : place'[u] = "run"
  BY <1>1 DEF OnlyThread, Nobody, App
<1>3. Alike(t)
  BY <1>1, EffortlessAlike
<1>4. OwesAll(t)'
  BY <1>1, <1>3 DEF OwesAll, Nobody, Alike, Debt
<1>5. ~Keeps(t)' /\ (\A u : ~HasSuspended(t, u)')
  BY <1>1 DEF Calls, Keeps, HasSuspended
<1> QED
  BY <1>1, <1>2, <1>4, <1>5 DEF One, Calls, Nobody

LEMMA OneKept ==
    ASSUME AnyInv, Unharmed, NEW a \in App, One(a), Reports(a), CountsType'
    PROVE  One(a)'
<1>0. OnlyThread(a) /\ a \in Threads /\ (\A x \in App : x \in Threads) /\ suspended[a] = 0
  BY DEF Reports, App, Can
<1>1. \A u \in App \ {a} : place'[u] = "run"
  BY <1>0 DEF OnlyThread, One
<1>2. calls' > 0
  BY DEF Reports, Calls, Effortless, Prepares, Records, Returns, SuspendsOne, SuspendsNoMore,
         ResumesOne, ResumesNoMore, One, AnyInv, CountsType
<1>3. \A x \in App : suspended[x] \in Nat /\ suspended'[x] \in Nat
  BY <1>0 DEF AnyInv, CountsType
<1>4. \A x : Debt(a, x) \in {0, 1} /\ Debt(a, x)' \in {0, 1}
  BY DEF Debt
<1>5. (running <=> ~(Reporting(a) /\ at[a] \in 3..7))'
  <2> USE DEF One, Reporting, InHandler
  <2>1. CASE Calls(a)
    BY <2>1 DEF Calls
  <2>2. CASE Effortless(a)
    BY <2>2 DEF Effortless, Prepares, Records, Returns
  <2>3. CASE SuspendsOne(a) \/ SuspendsNoMore(a)
    BY <2>3 DEF SuspendsOne, SuspendsNoMore
  <2>4. CASE ResumesOne(a) \/ ResumesNoMore(a)
    BY <2>4 DEF ResumesOne, ResumesNoMore
  <2> QED
    BY <2>1, <2>2, <2>3, <2>4 DEF Reports
<1>6. Keeps(a) => ~running
  BY DEF One, Keeps
<1> USE <1>0, <1>3, <1>4, <1>6
<1>7. OwesAll(a)' /\ \A u \in App \ {a} : Keeps(a)' \/ HasSuspended(a, u)' => suspended'[u] >= 1
  <2>1. CASE Alike(a)
    BY <2>1 DEF Alike, One, OwesAll
  <2>2. CASE Owing(a)
    <3> PICK u \in Threads : Owing(a)!(u)
      BY <2>2 DEF Owing
    <3>1. OwesAll(a)'
      BY DEF One, OwesAll
    <3>2. \A x \in App \ {a} : HasSuspended(a, x)' => suspended'[x] >= 1
      BY DEF One
    <3> QED
      BY <3>1, <3>2
  <2>3. CASE Having(a)
    <3>1. OwesAll(a)'
      BY <2>3 DEF One, OwesAll, Having
    <3>2. running
      BY <2>3 DEF One, Having
    <3>3. \A x \in App \ {a} : suspended'[x] >= 1
      BY <2>3, <3>2 DEF One, Having
    <3> QED
      BY <3>1, <3>3
  <2>4. CASE Paying(a)
    <3> PICK u \in Threads : Paying(a)!(u)
      BY <2>4 DEF Paying
    <3>1. OwesAll(a)'
      BY DEF One, OwesAll
    <3> QED
      BY <3>1
  <2>5. CASE Settled(a)
    BY <2>5 DEF Settled, One, OwesAll
  <2> QED
    BY <2>1, <2>2, <2>3, <2>4, <2>5, ReportsChange
<1> QED
  BY <1>1, <1>2, <1>5, <1>7 DEF One

LEMMA SecondReport ==
    ASSUME AnyInv, NEW a \in App, One(a), NEW t \in App \ {a}, Reports(t), calls' <= 2
    PROVE  Two(a, t)'
<1>1. place[t] = "run" /\ Calls(t) /\ OnlyThread(t) /\ t \in Threads /\ a \in Threads
  BY DEF Reports, One, Effortless, Prepares, Records, Returns, SuspendsOne, SuspendsNoMore,
         ResumesOne, ResumesNoMore, Reporting, InHandler, App
<1>2. calls' = 2
  BY <1>1 DEF Calls, One, AnyInv, CountsType
<1>3. \A u \in App \ {a, t} : place'[u] = "run"
  BY <1>1 DEF OnlyThread, One, App
<1>4. Alike(t) /\ suspended[t] = 0
  BY <1>1, EffortlessAlike DEF Reports, Can
<1>5. ~Keeps(a) /\ ~HasSuspended(a, t)
  BY <1>4 DEF One
<1>6. ~Keeps(t)' /\ (\A u : ~HasSuspended(t, u)')
  BY <1>1 DEF Calls, Keeps, HasSuspended
<1>7. Beside(a, t)' /\ Beside(t, a)'
  BY <1>1, <1>5, <1>6, OtherUnmoved DEF Beside
<1>8. \A u \in App : suspended'[u] <= Debt(a, u)' + Debt(t, u)'
  <2>1. \A u \in App : suspended'[u] = suspended[u] /\ suspended[u] \in Nat
    BY <1>1 DEF Calls, AnyInv, CountsType, App
  <2>2. \A u : Debt(a, u)' = Debt(a, u) /\ Debt(a, u)' \in {0, 1} /\ Debt(t, u)' \in {0, 1}
    BY <1>1, OtherUnmoved DEF Debt
  <2> QED
    BY <2>1, <2>2 DEF One, OwesAll
<1> QED
  BY <1>2, <1>3, <1>7, <1>8 DEF Two

LEMMA TwoKept ==
    ASSUME AnyInv, Unharmed, NEW a \in App, NEW b \in App, Two(a, b), NEW t \in Threads, Reports(t),
           CountsType', calls' <= 2
    PROVE  Two(a, b)'
<1>1. ~Calls(t) /\ calls' = calls /\ t \in App /\ OnlyThread(t) /\ Can(t) /\ Reporting(t)
  BY DEF Reports, Calls, Two, Effortless, Prepares, Records, Returns, SuspendsOne, SuspendsNoMore,
         ResumesOne, ResumesNoMore
<1>2. t \in {a, b}
  BY <1>1 DEF Two, Reporting, InHandler
<1>3. \A u \in App \ {a, b} : place'[u] = "run"
  BY <1>1, <1>2 DEF OnlyThread, Two, App
<1>4. suspended' \in [Threads -> Nat]
  BY DEF CountsType
<1>5. \A x, y : Debt(x, y) \in {0, 1} /\ Debt(x, y)' \in {0, 1}
  BY DEF Debt
<1>6. CASE t = a
  <2>1. Together(a, b)
    BY DEF Two, Together
  <2>2. Together(a, b)'
    BY <1>1, <1>4, <1>6, <2>1, TogetherKept, ReportsChange DEF Two, AnyInv, CountsType
  <2> QED
    BY <1>1, <1>3, <2>2 DEF Two, Together
<1>7. CASE t = b
  <2>0. \A x : Debt(a, x) + Debt(b, x) = Debt(b, x) + Debt(a, x) /\ Debt(a, x)' + Debt(b, x)' = Debt(b, x)' + Debt(a, x)'
    BY <1>5
  <2>1. Together(b, a)
    BY <2>0 DEF Two, Together
  <2>2. Together(b, a)'
    BY <1>1, <1>4, <1>7, <2>1, TogetherKept, ReportsChange DEF Two, AnyInv, CountsType
  <2> QED
    BY <1>1, <1>3, <2>0, <2>2 DEF Two, Together
<1> QED
  BY <1>2, <1>6, <1>7

LEMMA CallsRise ==
    ASSUME AnyInv, NEW t \in Threads,
           Crash(t) \/ ReportUserException(t) \/ Fault(t) \/ Step(t)
    PROVE  calls' >= calls
<1>0. calls \in Nat
  BY DEF AnyInv, CountsType
<1> USE <1>0
<1>1. CASE Crash(t)
  BY <1>1 DEF Crash
<1>2. CASE ReportUserException(t)
  BY <1>2 DEF ReportUserException
<1>3. CASE Fault(t)
  BY <1>3 DEF Fault
<1>4. CASE Receive(t)
  BY <1>4 DEF Receive
<1>5. CASE TakeSignal(t)
  BY <1>5 DEF TakeSignal
<1>6. CASE Read(t)
  BY <1>6 DEF Read
<1>7. CASE Begin(t)
  BY <1>7 DEF Begin
<1>8. CASE SuspendThreads(t)
  BY <1>8 DEF SuspendThreads
<1>9. CASE ResumeThreads(t)
  BY <1>9 DEF ResumeThreads
<1>10. CASE Activate(t)
  BY <1>10 DEF Activate
<1>11. CASE Recrash(t)
  BY <1>11 DEF Recrash
<1>12. CASE UninstallHandlers(t)
  BY <1>12 DEF UninstallHandlers
<1>13. CASE Fill(t)
  BY <1>13 DEF Fill
<1>14. CASE Open(t)
  BY <1>14 DEF Open
<1>15. CASE Write(t)
  BY <1>15 DEF Write
<1>16. CASE ClearContext(t)
  BY <1>16 DEF ClearContext
<1>17. CASE Reinstall(t)
  BY <1>17 DEF Reinstall
<1>18. CASE Reply(t)
  BY <1>18 DEF Reply
<1>19. CASE Raise(t)
  BY <1>19 DEF Raise
<1>20. CASE Abort(t)
  BY <1>20 DEF Abort
<1> QED
  BY <1>1, <1>2, <1>3, <1>4, <1>5, <1>6, <1>7, <1>8, <1>9, <1>10, <1>11, <1>12, <1>13, <1>14, <1>15, <1>16, <1>17, <1>18, <1>19, <1>20 DEF Step

LEMMA ReportsInit == Init => ReportsInv
<1> SUFFICES ASSUME Init
             PROVE  ReportsInv
  OBVIOUS
<1> USE DEF Init
<1>1. ThreadType
  BY DEF ThreadType
<1>2. CountsType
  BY DEF CountsType, ExceptionThreads, Exceptional
<1>6. \A t \in Threads : /\ t \in App => place[t] = "run"
                         /\ t \in Exceptional => place[t] \in {"wait", "gone"}
                         /\ t \in App \/ t \in Exceptional
  BY DEF App, Exceptional
<1> HIDE DEF Init
<1>3. ScriptInv /\ RolesInv
  <2>1. \A t \in Threads : ~InHandler(t)
    BY <1>6 DEF InHandler
  <2>2. App \subseteq Threads /\ Exceptional \subseteq Threads
    BY DEF App, Exceptional
  <2> QED
    BY <1>6, <2>1, <2>2 DEF ScriptInv, RolesInv
<1> USE DEF Init
<1>4. Unharmed
  BY DEF Unharmed, Returning, App, Exceptional
<1>5. Nobody
  BY DEF Nobody, App
<1> QED
  BY <1>1, <1>2, <1>3, <1>4, <1>5 DEF ReportsInv, AnyInv, OnlyReports

LEMMA ReportsNext ==
    ReportsInv /\ [Next]_vars => ReportsInv'
<1> SUFFICES ASSUME ReportsInv, [Next]_vars
             PROVE  ReportsInv'
  OBVIOUS
<1>1. CASE UNCHANGED vars
  <2> USE <1>1 DEF vars, thread
  <2>1. AnyInv'
    BY DEF ReportsInv, AnyInv, ThreadType, CountsType, ScriptInv, RolesInv, InHandler
  <2>2. SomeCrashed => SomeCrashed'
    BY DEF SomeCrashed, Returning, Reporting, InHandler
  <2>3. OnlyReports => OnlyReports'
    <3>1. Unharmed => Unharmed'
      BY DEF Unharmed, Returning, Reporting, InHandler
    <3>2. Nobody => Nobody'
      BY DEF Nobody
    <3>3. \A t : (Keeps(t)' <=> Keeps(t)) /\ \A u : (HasSuspended(t, u)' <=> HasSuspended(t, u)) /\ Debt(t, u)' = Debt(t, u)
      BY DEF Keeps, HasSuspended, Debt, Owes, Passed, Reporting, InHandler
    <3>4. \A a \in App : One(a) => One(a)'
      BY <3>3 DEF One, OwesAll, Reporting, InHandler
    <3>5. \A a, b \in App : Two(a, b) => Two(a, b)'
      BY <3>3 DEF Two, Beside, OwesAll
    <3> QED
      BY <3>1, <3>2, <3>4, <3>5 DEF OnlyReports
  <2> QED
    BY <2>1, <2>2, <2>3 DEF ReportsInv
<1>2. ASSUME NEW t \in Threads,
             Crash(t) \/ ReportUserException(t) \/ Fault(t) \/ Step(t)
      PROVE  ReportsInv'
  <2>0. AnyInv
    BY DEF ReportsInv
  <2>1. Threading(t)
    BY <1>2, <2>0, StepThreading
  <2>2. AnyInv'
    BY <1>2, <2>0, <2>1, TypesKept, CountsKept, RolesKept DEF AnyInv
  <2>4. ASSUME calls' <= 2
        PROVE  SomeCrashed' \/ OnlyReports'
    <3>1. calls <= 2
      BY <1>2, <2>0, <2>2, <2>4, CallsRise DEF AnyInv, CountsType
    <3>2. CASE SomeCrashed
      BY <2>0, <2>1, <3>2, CrashStays
    <3>3. CASE OnlyReports /\ ~SomeCrashed'
      <4>1. Unharmed /\ Unharmed' /\ Reports(t) /\ t \in App
        BY <1>2, <2>0, <3>3, ReportSteps DEF OnlyReports, Reports
      <4>2. CASE Nobody
        BY <2>0, <4>1, <4>2, FirstReport DEF OnlyReports
      <4>3. CASE \E a \in App : One(a)
        <5> PICK a \in App : One(a)
          BY <4>3
        <5>1. CASE t = a
          BY <2>0, <2>2, <4>1, <5>1, OneKept DEF OnlyReports, AnyInv
        <5>2. CASE t # a
          BY <2>0, <2>4, <4>1, <5>2, SecondReport DEF OnlyReports
        <5> QED
          BY <5>1, <5>2
      <4>4. CASE \E a, b \in App : Two(a, b)
        BY <2>0, <2>2, <2>4, <4>1, <4>4, TwoKept DEF OnlyReports, AnyInv
      <4> QED
        BY <3>3, <4>2, <4>3, <4>4 DEF OnlyReports
    <3> QED
      BY <3>1, <3>2, <3>3 DEF ReportsInv
  <2> QED
    BY <2>2, <2>4 DEF ReportsInv
<1> QED
  BY <1>1, <1>2 DEF Next

(* NobodyLeftSuspended for every number of threads: when at most two user   *)
(* exceptions have been reported and the program is back at its own work, no *)
(* thread of it is suspended (kscrashsentry_suspendThreads,                *)
(* kscrashsentry_resumeThreads).                                           *)
THEOREM AllResumed == Spec => []NobodyLeftSuspended
<1>1. ReportsInv => NobodyLeftSuspended
  <2> SUFFICES ASSUME ReportsInv, AtRest, calls <= 2, NEW u \in App
               PROVE  suspended[u] = 0
    BY DEF NobodyLeftSuspended
  <2>1. \A t \in App : place[t] = "run"
    BY DEF ReportsInv, AnyInv, RolesInv, AtRest, App
  <2>2. OnlyReports
    BY <2>1 DEF ReportsInv, SomeCrashed, Returning
  <2>3. suspended[u] \in Nat /\ \A t \in App : Debt(t, u) = 0
    BY <2>1 DEF ReportsInv, AnyInv, CountsType, App, Debt, Owes, Reporting, InHandler
  <2>4. CASE Nobody
    BY <2>4 DEF Nobody
  <2>5. CASE \E a \in App : One(a)
    BY <2>3, <2>5 DEF One, OwesAll
  <2>6. CASE \E a, b \in App : Two(a, b)
    BY <2>3, <2>6 DEF Two
  <2> QED
    BY <2>2, <2>4, <2>5, <2>6 DEF OnlyReports
<1> QED
  BY <1>1, ReportsInit, ReportsNext, PTL DEF Spec

-----------------------------------------------------------------------------
(***************************************************************************)
(* CrashReported, for crashes whose handlers work.  A thread that writes    *)
(* writes about a crashed one, into a file that nobody else has open        *)
(* (FileInv), and a lone crash is not taken for a crash of the recorder     *)
(* (LoneInv).  As long as nothing is whole, nobody is on its way out and    *)
(* there are handlers to meet every signal (Early).  Once something is,     *)
(* only the thread that wrote it goes on, or what was written names a       *)
(* thread that has its signal (RepInv).                                    *)
(***************************************************************************)
Mild == Quiet /\ faults = 0 /\ "signal" \in chosen

RecrashesAt(h, i) == i = IF h = "mach" THEN 5 ELSE IF h = "signal" THEN 4 ELSE 3
FillsAt(h, i) == i = IF h = "mach" THEN 6 ELSE 5
OpensAt(h, i) == i = IF h = "mach" THEN 7 ELSE 6
WritesAt(h, i) == i = IF h = "mach" THEN 8 ELSE 7
RemovesAt(h, i) == i = IF h = "mach" THEN 9 ELSE 8

Recrashing(t) == InHandler(t) /\ RecrashesAt(handler[t], at[t])
Filling(t) == InHandler(t) /\ FillsAt(handler[t], at[t])
Opening(t) == InHandler(t) /\ OpensAt(handler[t], at[t])
Writing(t) == InHandler(t) /\ WritesAt(handler[t], at[t])
Removing(t) == InHandler(t) /\ RemovesAt(handler[t], at[t])
Late(t) == Removing(t) \/ Leaving(t)
InSignal(t) == InHandler(t) /\ handler[t] = "signal"
NsDone(t) == InHandler(t) /\ handler[t] = "ns" /\ at[t] \in 8..9
Whole(f) == reports[f].state = "whole"

LocalsType ==
    /\ DOMAIN was = Threads /\ DOMAIN opened = Threads /\ DOMAIN signal = Threads
    /\ DOMAIN masked = Threads
    /\ path = 1
FilesType ==
    /\ DOMAIN reports = Paths \X {"standard", "minimal"}
    /\ \A f \in DOMAIN reports :
          reports[f] = [state |-> reports[f].state, thread |-> reports[f].thread,
                        kind |-> reports[f].kind]
    /\ \A f \in DOMAIN reports : reports[f].state \in {"none", "partial", "whole"}

SigInv ==
    /\ \A t \in App :
          /\ place[t] \in {"faulted", "signalled"} \/ InSignal(t) => signal[t] # "none"
          /\ masked[t] = IF InSignal(t) THEN {signal[t]} ELSE {}
    /\ place[Primary] \notin {"faulted", "signalled"}

LoneInv ==
    crashes <= 1 =>
        /\ ~context.recrash
        /\ \A t \in Threads : InHandler(t) /\ at[t] > 1 => ~was[t] \/ at[t] = Length(handler[t])
        /\ \A t \in Threads : InHandler(t) /\ at[t] <= 2 => ~context.handling
        /\ context.handling => Removed \/ \E t \in Threads : InHandler(t) /\ at[t] >= 3
        /\ crashes = 0 => ~context.handling

Trust(f) ==
    /\ crashes >= 1 /\ reports[f].thread \in App /\ (crashes = 1 => f[2] = "standard")
    /\ signal[reports[f].thread] # "none" \/ NsDone(reports[f].thread)
FileInv ==
    /\ \A t \in Threads : Writing(t) =>
          /\ opened[t] \in DOMAIN reports /\ reports[opened[t]].state = "partial"
          /\ crashes <= 1 => opened[t][2] = "standard"
    /\ \A t \in Threads : Opening(t) \/ Writing(t) => context.thread = OffendingThread(t)
    /\ \A f \in DOMAIN reports :
          reports[f].state = "partial" => \E t \in Threads : Writing(t) /\ opened[t] = f
    /\ \A f \in DOMAIN reports : Whole(f) => Trust(f)

Good == \E f \in DOMAIN reports : Whole(f) /\ signal[reports[f].thread] # "none"

\* Both crashes are in their handlers, or one of them waits for the other's.
Caught ==
    /\ crashes = 2
    /\ \A t \in Threads : place[t] # "signalled" /\ (InHandler(t) => at[t] >= 2)
    /\ place[Primary] = "wait" => \A u \in App : place[u] # "faulted"
Early ==
    /\ \A f \in DOMAIN reports : ~Whole(f)
    /\ \A t \in Threads : ~Late(t)
    /\ "signal" \in installed \/ Caught
    /\ \A t \in Threads : InHandler(t) /\ at[t] > 1 /\ was[t] => Caught
    /\ context.handling => Caught \/ \E t \in Threads : InHandler(t) /\ at[t] >= 3
Quieted(x) ==
    \A u \in Threads \ {x} :
        suspended[u] > 0 \/ place[u] \in {"gone", "faulted"} \/ (place[u] = "run" /\ crashes >= 2)
Final ==
    \E x \in Threads :
        NsDone(x) /\ Quieted(x) /\ \E f \in DOMAIN reports : Whole(f) /\ reports[f].thread = x
RepInv == Good \/ Early \/ Final

ReportInv ==
    /\ LocalsType /\ FilesType /\ SigInv /\ LoneInv /\ FileInv /\ RepInv
    /\ alive \/ Good

(* What a step of t does to what this invariant speaks of.                  *)
Elsewhere(t) ==
    /\ LocalsType' /\ UNCHANGED <<path, chosen>>
    /\ \A u \in Threads \ {t} :
          /\ was'[u] = was[u] /\ opened'[u] = opened[u]
          /\ signal'[u] = signal[u] /\ masked'[u] = masked[u]
    /\ \A u \in Threads \ {t} :
          \/ place'[u] = place[u]
          \/ u \notin App /\ place'[u] = "gone"
          \/ place[u] = "faulted" /\ place'[u] = "signalled" /\ Leaving(t)
HandlersKept == UNCHANGED <<alive, installed, crashes>>
RecordKept == UNCHANGED <<context, reports, opened>>
SignalsKept == UNCHANGED <<signal, masked>>

Strikes(t) ==
    /\ t \in App /\ place[t] = "run" /\ crashes' = crashes + 1
    /\ RecordKept /\ UNCHANGED <<alive, installed, was, masked>>
    /\ \/ place'[t] \in {"faulted", "signalled"} /\ signal'[t] # "none"
       \/ InHandler(t)' /\ handler'[t] = "ns" /\ at'[t] = 1 /\ signal' = signal
Enters(t) ==
    /\ InHandler(t)' /\ at'[t] = 1
    /\ HandlersKept /\ RecordKept /\ UNCHANGED <<was, signal>>
    /\ \/ place[t] = "wait" /\ port # <<>> /\ handler'[t] = "mach" /\ masked' = masked
       \/ /\ place[t] = "signalled" /\ "signal" \in installed /\ handler'[t] = "signal"
          /\ masked'[t] = masked[t] \union {signal[t]}
Ends(t) ==
    /\ place[t] = "signalled" /\ ("signal" \notin installed \/ signal[t] \in masked[t])
    /\ RecordKept /\ SignalsKept
    /\ UNCHANGED <<place, handler, at, client, was, installed, crashes>>
Asks(t) ==
    /\ GoesOn(t) /\ HandlersKept /\ RecordKept /\ SignalsKept
    /\ at[t] = 1 /\ was'[t] = context.handling
    /\ at'[t] = 2 \/ (at'[t] = Length(handler[t]) /\ handler[t] \notin installed)
Clears(t) ==
    /\ GoesOn(t) /\ HandlersKept /\ SignalsKept /\ UNCHANGED <<was, reports, opened>>
    /\ at[t] = 2 /\ at'[t] = 3 /\ context'.handling /\ ~context'.recrash
Readies(t) ==
    /\ GoesOn(t) /\ HandlersKept /\ RecordKept /\ SignalsKept /\ UNCHANGED was
    /\ at[t] >= 3 /\ at'[t] \in {at[t], at[t] + 1}
    /\ at'[t] <= IF handler[t] = "mach" THEN 6 ELSE 5
GivesUp(t) ==
    /\ GoesOn(t) /\ SignalsKept /\ UNCHANGED <<alive, crashes, was, reports, opened>>
    /\ Recrashing(t) /\ at'[t] = at[t] + 1 /\ was[t]
    /\ context'.handling = context.handling /\ context'.thread = context.thread
Describes(t) ==
    /\ GoesOn(t) /\ HandlersKept /\ SignalsKept /\ UNCHANGED <<was, reports, opened>>
    /\ Filling(t) /\ at'[t] = at[t] + 1 /\ context'.thread = OffendingThread(t)
    /\ context'.handling = context.handling /\ context'.recrash = context.recrash
FileOf == <<path, IF context.recrash THEN "minimal" ELSE "standard">>
Creates(t) ==
    /\ GoesOn(t) /\ HandlersKept /\ SignalsKept /\ UNCHANGED <<was, context>>
    /\ Opening(t)
    /\ \/ /\ reports[FileOf].state = "none" /\ at'[t] = at[t] + 1 /\ opened'[t] = FileOf
          /\ reports' = [reports EXCEPT ![FileOf].state = "partial"]
       \/ reports[FileOf].state # "none" /\ at'[t] = at[t] + 2 /\ UNCHANGED <<reports, opened>>
Completes(t) ==
    /\ GoesOn(t) /\ HandlersKept /\ SignalsKept /\ UNCHANGED <<was, context, opened>>
    /\ Writing(t) /\ at'[t] = at[t] + 1
    /\ reports' = [reports EXCEPT ![opened[t]] =
                     [state |-> "whole", thread |-> context.thread, kind |-> context.kind]]
Dismantles(t) ==
    /\ GoesOn(t) /\ RecordKept /\ SignalsKept /\ UNCHANGED <<alive, crashes, was>>
    /\ Removing(t) /\ at'[t] = at[t] + 1
Departs(t) ==
    /\ HandlersKept /\ RecordKept /\ UNCHANGED was /\ Leaving(t)
    /\ \/ Leaving(t)' /\ GoesOn(t) /\ handler[t] # "ns" /\ SignalsKept /\ at'[t] >= at[t]
       \/ handler[t] = "mach" /\ place'[t] = "gone" /\ SignalsKept
       \/ /\ handler[t] = "signal" /\ place'[t] = "signalled" /\ signal' = signal
          /\ masked'[t] = masked[t] \ {signal[t]}
       \/ handler[t] = "ns" /\ place'[t] = "signalled" /\ signal'[t] = "abrt" /\ masked' = masked
Tells(t) ==
    /\ Elsewhere(t)
    /\ \/ Strikes(t) \/ Enters(t) \/ Ends(t) \/ Asks(t) \/ Clears(t) \/ Readies(t) \/ GivesUp(t)
       \/ Describes(t) \/ Creates(t) \/ Completes(t) \/ Dismantles(t) \/ Departs(t)

(* What is said of the stages, by number.                                  *)
LEMMA RecordStages ==
    ASSUME Inv, NEW t \in Threads, NEW s, At(t, s)
    PROVE  /\ Can(t) /\ InHandler(t) /\ handler[t] \in Used /\ at[t] \in 1..Length(handler[t])
           /\ Len(Script[handler[t]]) = Length(handler[t])
           /\ s = "read" <=> at[t] = 1
           /\ s = "begin" <=> at[t] = 2
           /\ s = "suspend" <=> Suspending(t)
           /\ s = "activate" <=> handler[t] = "mach" /\ at[t] = 4
           /\ s = "recrash" <=> Recrashing(t)
           /\ s = "fill" <=> Filling(t)
           /\ s = "open" <=> Opening(t)
           /\ s = "write" <=> Writing(t)
           /\ s = "uninstall" <=> Removing(t)
           /\ s = "resume" <=> Resuming(t)
           /\ s = "reply" <=> handler[t] = "mach" /\ at[t] = 11
           /\ s = "raise" <=> handler[t] = "signal" /\ at[t] = 10
           /\ s = "abort" <=> handler[t] = "ns" /\ at[t] = 9
           /\ s \notin {"clear", "reinstall"}
<1>1. /\ Can(t) /\ InHandler(t) /\ handler[t] \in Used /\ at[t] \in 1..Length(handler[t])
      /\ Script[handler[t]][at[t]] = s
  BY RunsScript
<1> DEFINE h == handler[t]
           i == at[t]
<1> HIDE DEF h, i
<1>2. h \in Used /\ i \in 1..Length(h) /\ Script[h][i] = s
  BY <1>1 DEF h, i
<1>3. /\ Len(Script[h]) = Length(h)
      /\ s = "read" <=> i = 1
      /\ s = "begin" <=> i = 2
      /\ s = "suspend" <=> SuspendsAt(h, i)
      /\ s = "activate" <=> h = "mach" /\ i = 4
      /\ s = "recrash" <=> RecrashesAt(h, i)
      /\ s = "fill" <=> FillsAt(h, i)
      /\ s = "open" <=> OpensAt(h, i)
      /\ s = "write" <=> WritesAt(h, i)
      /\ s = "uninstall" <=> RemovesAt(h, i)
      /\ s = "resume" <=> ResumesAt(h, i)
      /\ s = "reply" <=> h = "mach" /\ i = 11
      /\ s = "raise" <=> h = "signal" /\ i = 10
      /\ s = "abort" <=> h = "ns" /\ i = 9
      /\ s \notin {"clear", "reinstall"}
  BY <1>2, Stages DEF Used, RecrashesAt, FillsAt, OpensAt, WritesAt, RemovesAt
<1> QED
  BY <1>1, <1>3 DEF h, i, Recrashing, Filling, Opening, Writing, Removing, Suspending, Resuming

LEMMA PlacesElsewhere ==
    ASSUME Inv, NEW t \in Threads, Effect(t), NEW u \in Threads \ {t}
    PROVE  \/ place'[u] = place[u]
           \/ u \notin App /\ place'[u] = "gone"
           \/ place[u] = "faulted" /\ place'[u] = "signalled" /\ Leaving(t)
<1>1. CASE Removes(t)
  <2>1. "mach" \in installed => known = {Primary, Secondary}
    BY DEF Inv, WorldInv, MachInv
  <2> QED
    BY <1>1, <2>1 DEF Removes, PlacesKept, App
<1>2. CASE ~Removes(t)
  BY <1>2 DEF Effect, Starts, Stops, Dies, Proceeds, Suspends, Resumes, Activates, Replies, PlacesKept
<1> QED
  BY <1>1, <1>2

LEMMA Tellings ==
    ASSUME Inv, calls \in Nat, faults \in Nat, Quiet', faults' = 0, LocalsType, NEW t \in Threads,
           Crash(t) \/ ReportUserException(t) \/ Fault(t) \/ Step(t)
    PROVE  Tells(t)
<1>0. ThreadType /\ ContextType /\ Effect(t)
  BY Effects DEF Inv, TypeOK
<1>a. \A u \in Threads \ {t} :
          \/ place'[u] = place[u]
          \/ u \notin App /\ place'[u] = "gone"
          \/ place[u] = "faulted" /\ place'[u] = "signalled" /\ Leaving(t)
  BY <1>0, PlacesElsewhere
<1>b. chosen' = chosen
  BY <1>0 DEF Effect
<1> USE <1>0, <1>a, <1>b DEF ThreadType, LocalsType, Elsewhere, Tells
<1> USE DEF InHandler, Enter, Leave, Advance, GoesOn, HandlersKept, RecordKept, SignalsKept
<1>1. CASE Crash(t)
  <2>1. Elsewhere(t)
    BY <1>1 DEF Crash, Trap
  <2>2. Strikes(t)
    BY <1>1 DEF Crash, Trap, Strikes
  <2> QED
    BY <2>1, <2>2
<1>2. CASE ReportUserException(t)
  BY <1>2 DEF ReportUserException
<1>3. CASE Fault(t)
  BY <1>3 DEF Fault
<1>4. CASE Receive(t)
  <2>1. Elsewhere(t)
    BY <1>4 DEF Receive
  <2>2. Enters(t)
    BY <1>4 DEF Receive, Enters
  <2> QED
    BY <2>1, <2>2
<1>5. CASE TakeSignal(t)
  <2>1. Elsewhere(t)
    BY <1>5 DEF TakeSignal
  <2>2. Enters(t) \/ Ends(t)
    BY <1>5 DEF TakeSignal, Enters, Ends
  <2> QED
    BY <2>1, <2>2
<1>6. CASE Read(t)
  <2>0. At(t, "read")
    BY <1>6 DEF Read
  <2>1. at[t] = 1 /\ InHandler(t) /\ Len(Script[handler[t]]) = Length(handler[t])
    BY <2>0, RecordStages
  <2>2. Elsewhere(t)
    BY <1>6 DEF Read
  <2>3. Asks(t)
    BY <1>6, <2>1 DEF Read, Asks
  <2> QED
    BY <2>2, <2>3
<1>7. CASE Begin(t)
  <2>0. At(t, "begin")
    BY <1>7 DEF Begin
  <2>1. at[t] = 2 /\ InHandler(t)
    BY <2>0, RecordStages
  <2>2. Elsewhere(t)
    BY <1>7 DEF Begin
  <2>3. Clears(t)
    BY <1>7, <2>1 DEF Begin, Clears, Clear
  <2> QED
    BY <2>2, <2>3
<1>8. CASE SuspendThreads(t)
  <2>0. At(t, "suspend")
    BY <1>8 DEF SuspendThreads
  <2>1. Suspending(t) /\ InHandler(t) /\ at[t] \in 1..Length(handler[t])
    BY <2>0, RecordStages
  <2>2. Elsewhere(t)
    BY <1>8 DEF SuspendThreads
  <2>3. Readies(t)
    BY <1>8, <2>1 DEF SuspendThreads, Readies, Suspending, SuspendsAt
  <2> QED
    BY <2>2, <2>3
<1>9. CASE ResumeThreads(t)
  <2>0. At(t, "resume")
    BY <1>9 DEF ResumeThreads
  <2>1. Resuming(t) /\ InHandler(t)
    BY <2>0, RecordStages
  <2>2. Elsewhere(t)
    BY <1>9 DEF ResumeThreads
  <2>3. Leaving(t) /\ Leaving(t)' /\ at'[t] >= at[t] /\ handler[t] # "ns"
    BY <1>9, <2>1 DEF ResumeThreads, Resuming, ResumesAt, Leaving, LeavesAt
  <2>4. Departs(t)
    BY <1>9, <2>1, <2>3 DEF ResumeThreads, Departs
  <2> QED
    BY <2>2, <2>4
<1>10. CASE Activate(t)
  <2>0. At(t, "activate")
    BY <1>10 DEF Activate
  <2>1. handler[t] = "mach" /\ at[t] = 4 /\ InHandler(t)
    BY <2>0, RecordStages
  <2>2. Elsewhere(t)
    BY <1>10 DEF Activate
  <2>3. Readies(t)
    BY <1>10, <2>1 DEF Activate, Readies
  <2> QED
    BY <2>2, <2>3
<1>11. CASE Recrash(t)
  <2>0. At(t, "recrash")
    BY <1>11 DEF Recrash
  <2>1. Recrashing(t) /\ InHandler(t)
    BY <2>0, RecordStages
  <2>2. Elsewhere(t)
    BY <1>11 DEF Recrash
  <2>3. place'[t] = place[t] /\ at'[t] = at[t] + 1 /\ handler' = handler /\ client' = client
    BY <1>11 DEF Recrash, Uninstall
  <2>4. CASE was[t]
    <3>1. context'.handling = context.handling /\ context'.thread = context.thread
      BY <1>11, <2>4 DEF Recrash, ContextType
    <3>2. GivesUp(t)
      BY <1>11, <2>1, <2>3, <2>4, <3>1 DEF Recrash, GivesUp
    <3> QED
      BY <2>2, <3>2
  <2>5. CASE ~was[t]
    <3>1. Readies(t)
      BY <1>11, <2>1, <2>3, <2>5 DEF Recrash, Readies, Recrashing, RecrashesAt
    <3> QED
      BY <2>2, <3>1
  <2> QED
    BY <2>4, <2>5
<1>12. CASE UninstallHandlers(t)
  <2>0. At(t, "uninstall")
    BY <1>12 DEF UninstallHandlers
  <2>1. Removing(t) /\ InHandler(t)
    BY <2>0, RecordStages
  <2>2. Elsewhere(t)
    BY <1>12 DEF UninstallHandlers
  <2>3. place'[t] = place[t]
    BY <1>12 DEF UninstallHandlers, Uninstall
  <2>4. Dismantles(t)
    BY <1>12, <2>1, <2>3 DEF UninstallHandlers, Dismantles
  <2> QED
    BY <2>2, <2>4
<1>13. CASE Fill(t)
  <2>0. At(t, "fill")
    BY <1>13 DEF Fill
  <2>1. Filling(t) /\ InHandler(t)
    BY <2>0, RecordStages
  <2>2. Elsewhere(t)
    BY <1>13 DEF Fill
  <2>3. /\ context'.thread = OffendingThread(t)
        /\ context'.handling = context.handling /\ context'.recrash = context.recrash
    BY <1>13 DEF Fill, ContextType
  <2>4. Describes(t)
    BY <1>13, <2>1, <2>3 DEF Fill, Describes
  <2> QED
    BY <2>2, <2>4
<1>14. CASE Open(t)
  <2>0. At(t, "open")
    BY <1>14 DEF Open
  <2>1. Opening(t) /\ InHandler(t)
    BY <2>0, RecordStages
  <2>2. /\ \/ /\ reports[FileOf].state = "none" /\ Advance(t)
              /\ opened' = [opened EXCEPT ![t] = FileOf]
              /\ reports' = [reports EXCEPT ![FileOf].state = "partial"]
           \/ /\ reports[FileOf].state # "none" /\ at' = [at EXCEPT ![t] = @ + 2]
              /\ UNCHANGED <<place, handler, loop, opened, reports>>
        /\ UNCHANGED <<alive, chosen, was, client, signal, masked, suspended, running,
                   context, reserved, installed, known, ours, port, path, bounds>>
    BY <1>14 DEF Open, FileOf
  <2>3. Elsewhere(t)
    BY <2>2
  <2>4. Creates(t)
    BY <2>1, <2>2 DEF Creates
  <2> QED
    BY <2>3, <2>4
<1>15. CASE Write(t)
  <2>0. At(t, "write")
    BY <1>15 DEF Write
  <2>1. Writing(t) /\ InHandler(t)
    BY <2>0, RecordStages
  <2>2. Elsewhere(t)
    BY <1>15 DEF Write
  <2>3. Completes(t)
    BY <1>15, <2>1 DEF Write, Completes
  <2> QED
    BY <2>2, <2>3
<1>16. CASE ClearContext(t)
  <2>0. At(t, "clear")
    BY <1>16 DEF ClearContext
  <2> QED
    BY <2>0, RecordStages
<1>17. CASE Reinstall(t)
  <2>0. At(t, "reinstall")
    BY <1>17 DEF Reinstall
  <2> QED
    BY <2>0, RecordStages
<1>18. CASE Reply(t)
  <2>0. At(t, "reply")
    BY <1>18 DEF Reply
  <2>1. handler[t] = "mach" /\ at[t] = 11 /\ InHandler(t)
    BY <2>0, RecordStages
  <2>2. Elsewhere(t)
    BY <1>18 DEF Reply
  <2>3. client[t] # t
    BY <2>1, InHandlers DEF Inv, ThreadInv, PrimaryInv, App
  <2>4. Departs(t)
    BY <1>18, <2>1, <2>3 DEF Reply, Departs, Leaving, LeavesAt
  <2> QED
    BY <2>2, <2>4
<1>19. CASE Raise(t)
  <2>0. At(t, "raise")
    BY <1>19 DEF Raise
  <2>1. handler[t] = "signal" /\ at[t] = 10 /\ InHandler(t)
    BY <2>0, RecordStages
  <2>2. Elsewhere(t)
    BY <1>19 DEF Raise
  <2>3. Departs(t)
    BY <1>19, <2>1 DEF Raise, Departs, Leaving, LeavesAt
  <2> QED
    BY <2>2, <2>3
<1>20. CASE Abort(t)
  <2>0. At(t, "abort")
    BY <1>20 DEF Abort
  <2>1. handler[t] = "ns" /\ at[t] = 9 /\ InHandler(t)
    BY <2>0, RecordStages
  <2>2. Elsewhere(t)
    BY <1>20 DEF Abort
  <2>3. Departs(t)
    BY <1>20, <2>1 DEF Abort, Departs, Leaving, LeavesAt
  <2> QED
    BY <2>2, <2>3
<1> QED
  BY <1>1, <1>2, <1>3, <1>4, <1>5, <1>6, <1>7, <1>8, <1>9, <1>10,
     <1>11, <1>12, <1>13, <1>14, <1>15, <1>16, <1>17, <1>18, <1>19, <1>20 DEF Step

-----------------------------------------------------------------------------
(* Which threads can be where.                                             *)
LEMMA StageFacts ==
    ASSUME Inv, NEW t \in Threads, InHandler(t)
    PROVE  /\ handler[t] \in Used /\ at[t] \in 1..Length(handler[t])
           /\ Filling(t) \/ Opening(t) \/ Writing(t) \/ Removing(t) => Holds(t) /\ at[t] >= 3
           /\ Opening(t) => ~Writing(t) /\ ~Late(t)
           /\ Writing(t) => ~Late(t)
           /\ Filling(t) => ~Writing(t) /\ ~Opening(t) /\ ~Late(t)
           /\ Removing(t) => ~Writing(t) /\ ~Opening(t)
           /\ Leaving(t) => ~Writing(t) /\ ~Opening(t) /\ ~Holds(t) /\ at[t] >= 3
           /\ Late(t) => at[t] >= 8
           /\ at[t] <= 3 => ~Writing(t) /\ ~Opening(t) /\ ~Late(t) /\ ~Holds(t)
           /\ NsDone(t) => ~Writing(t) /\ ~Opening(t) /\ Late(t)
           /\ at[t] <= (IF handler[t] = "mach" THEN 6 ELSE 5) => ~Writing(t) /\ ~Opening(t) /\ ~Late(t)
           /\ Recrashing(t) => at[t] >= 3 /\ at[t] # Length(handler[t]) /\ ~Late(t) /\ ~Writing(t) /\ ~Opening(t)
<1>1. handler[t] \in Used /\ at[t] \in 1..Length(handler[t])
  BY InHandlers
<1> USE DEF Length, Filling, Opening, Writing, Removing, Recrashing, Late, Leaving, Holds, NsDone,
            FillsAt, OpensAt, WritesAt, RemovesAt, RecrashesAt, LeavesAt, HoldsAt
<1>2. CASE handler[t] = "mach"
  BY <1>1, <1>2
<1>3. CASE handler[t] = "signal"
  BY <1>1, <1>3
<1>4. CASE handler[t] = "ns"
  BY <1>1, <1>4
<1> HIDE DEF Length, Filling, Opening, Writing, Removing, Recrashing, Late, Leaving, Holds, NsDone
<1> QED
  BY <1>1, <1>2, <1>3, <1>4 DEF Used

(* Where one goes from its stage.                                          *)
LEMMA NextStage ==
    ASSUME Inv, NEW t \in Threads, GoesOn(t), at'[t] = at[t] + 1
    PROVE  /\ Filling(t) => Opening(t)'
           /\ Opening(t) => Writing(t)'
           /\ Writing(t) => Removing(t)'
           /\ Removing(t) => Leaving(t)'
  BY StageFacts, SMTT(30) DEF GoesOn, Used, Length, Filling, Opening, Writing, Removing, Leaving, InHandler,
     FillsAt, OpensAt, WritesAt, RemovesAt, LeavesAt

(* While one holds, only those on their way out go on beside it.           *)
LEMMA OnlyHolder ==
    ASSUME Inv, NEW t \in Threads, Can(t), InHandler(t), NEW u \in Threads \ {t}, Holds(u)
    PROVE  Leaving(t)
<1>1. Still(t)
  BY DEF Inv, OrderInv, HoldsInv, Stopped
<1> QED
  BY <1>1 DEF Still, Harmless, Can, InHandler

LEMMA HolderStays ==
    ASSUME Inv, NEW t \in Threads, Effect(t), NEW u \in Threads \ {t}, Holds(u)
    PROVE  InHandler(u)'
<1>1. ~Removes(t)
  <2> SUFFICES ASSUME Removes(t) PROVE FALSE
    OBVIOUS
  <2>1. Can(t) /\ InHandler(t) /\ (Holds(t) \/ (handler[t] = "ns" /\ at[t] = 3))
    BY DEF Removes, GoesOn, Effect
  <2>2. Leaving(t)
    BY <2>1, OnlyHolder
  <2> QED
    BY <2>1, <2>2, StageFacts DEF Late
<1> QED
  BY <1>1, OthersInHandlers DEF Holds

(* The stages of the others are as they were.                              *)
LEMMA OthersStages ==
    ASSUME Inv, NEW t \in Threads, Effect(t), Elsewhere(t), NEW u \in Threads \ {t}
    PROVE  /\ InHandler(u)' => InHandler(u)
           /\ u \in App => (InHandler(u)' <=> InHandler(u)) /\ (NsDone(u)' <=> NsDone(u))
           /\ Writing(u)' <=> Writing(u)
           /\ Opening(u)' <=> Opening(u)
           /\ Late(u)' => Late(u)
           /\ handler'[u] = handler[u] /\ at'[u] = at[u] /\ client'[u] = client[u]
           /\ OffendingThread(u)' = OffendingThread(u)
<1>1. /\ InHandler(u)' => InHandler(u)
      /\ handler'[u] = handler[u] /\ at'[u] = at[u] /\ client'[u] = client[u]
  BY OthersInHandlers
<1>2. u \in App => (InHandler(u)' <=> InHandler(u))
  BY <1>1 DEF Elsewhere, InHandler
<1>3. Writing(u) \/ Opening(u) => InHandler(u)'
  <2>1. Writing(u) \/ Opening(u) => Holds(u)
    BY StageFacts DEF Writing, Opening
  <2> QED
    BY <2>1, HolderStays
<1>4. u \in App => (NsDone(u)' <=> NsDone(u))
  BY <1>1, <1>2 DEF NsDone
<1>5. (Writing(u)' <=> Writing(u)) /\ (Opening(u)' <=> Opening(u))
  BY <1>1, <1>3 DEF Writing, Opening
<1>6. Late(u)' => Late(u)
  BY <1>1 DEF Late, Removing, Leaving
<1>7. OffendingThread(u)' = OffendingThread(u)
  BY <1>1 DEF OffendingThread
<1> QED
  BY <1>1, <1>2, <1>4, <1>5, <1>6, <1>7

(* A lone crash is handled by one thread.                                  *)
LEMMA OneHandles ==
    ASSUME Inv, SigInv, crashes \in Nat, crashes <= 1, NEW t \in Threads, InHandler(t)
    PROVE  /\ crashes = 1
           /\ \A u \in Threads \ {t} : ~InHandler(u) /\ place[u] # "signalled"
           /\ t \in App => \A u \in Threads : place[u] # "faulted"
<1>1. PICK a \in Threads, b \in Threads :
          /\ crashes <= 1 => a = b
          /\ \A w \in App \ {a, b} : place[w] = "run"
  BY DEF Inv, FewInv
<1>2. \A u \in Threads : InHandler(u) => u = Primary \/ u \in App
  BY InHandlers
<1>3. InHandler(Primary) => client[Primary] \in App /\ place[client[Primary]] = "faulted"
  BY DEF Inv, ThreadInv, PrimaryInv
<1>4. place[Secondary] \in {"wait", "gone"} /\ place[Primary] \notin {"faulted", "signalled"}
  BY DEF Inv, ThreadInv, SecondaryInv, SigInv
<1>5. crashes = 1
  <2>1. \E u \in App : place[u] # "run"
    BY <1>2, <1>3 DEF InHandler
  <2> QED
    BY <2>1 DEF Inv, FewInv
<1>6. CASE t = Primary
  <2>1. \A u \in App : place[u] # "run" => u = client[Primary]
    BY <1>1, <1>3, <1>6
  <2> QED
    BY <1>2, <1>3, <1>4, <1>5, <1>6, <2>1 DEF InHandler, App
<1>7. CASE t \in App
  <2>1. \A u \in App : place[u] # "run" => u = t
    BY <1>1, <1>7 DEF InHandler
  <2>2. ~InHandler(Primary)
    BY <1>3, <1>7, <2>1 DEF InHandler
  <2> QED
    BY <1>2, <1>4, <1>5, <1>7, <2>1, <2>2 DEF InHandler, App
<1> QED
  BY <1>2, <1>6, <1>7


(* The waiting exception thread that goes on is the primary one.           *)
LEMMA PrimaryWaits ==
    ASSUME Inv, NEW t \in Threads, Can(t), place[t] = "wait"
    PROVE  t = Primary /\ ~Removed /\ \A i \in 1..Len(port) : port[i] \in Threads /\ place[port[i]] = "faulted"
<1>1. t = Primary
  <2>1. t = Primary \/ t = Secondary
    BY DEF Inv, ThreadInv, AppInv, App
  <2>2. place[Secondary] = "wait" => suspended[Secondary] >= 1
    BY DEF Inv, ThreadInv, SecondaryInv
  <2> QED
    BY <2>1, <2>2 DEF Can
<1>2. ~Removed /\ \A i \in 1..Len(port) : place[port[i]] = "faulted"
  BY <1>1 DEF Inv, WorldInv, MachInv, PortInv
<1>3. \A i \in 1..Len(port) : port[i] \in Threads
  BY DEF Inv, TypeOK, WorldType
<1> QED
  BY <1>1, <1>2, <1>3

LEMMA SigKept ==
    ASSUME Inv, Inv', LocalsType, SigInv, NEW t \in Threads, Effect(t), Tells(t)
    PROVE  SigInv'
<1>0. Elsewhere(t) /\ AppInv' /\ t # Secondary
  BY DEF Tells, Inv, ThreadInv, SecondaryInv, Effect, Can, Starts, Stops, Dies, Proceeds, Suspends, Resumes, Activates,
         Removes, Replies, GoesOn, InHandler, Holds, Leaving
<1>1. ASSUME NEW u \in App \ {t}
      PROVE  /\ place'[u] \in {"faulted", "signalled"} \/ InSignal(u)' => signal'[u] # "none"
             /\ masked'[u] = IF InSignal(u)' THEN {signal'[u]} ELSE {}
  <2>1. u \in Threads \ {t}
    BY DEF App
  <2>2. (InSignal(u)' <=> InSignal(u)) /\ signal'[u] = signal[u] /\ masked'[u] = masked[u]
    BY <1>0, <2>1, OthersStages DEF InSignal, Elsewhere
  <2>3. place'[u] \in {"faulted", "signalled"} => place[u] \in {"faulted", "signalled"}
    BY <1>0, <2>1 DEF Elsewhere
  <2> QED
    BY <2>2, <2>3 DEF SigInv
<1>2. ASSUME t \in App
      PROVE  /\ place'[t] \in {"faulted", "signalled"} \/ InSignal(t)' => signal'[t] # "none"
             /\ masked'[t] = IF InSignal(t)' THEN {signal'[t]} ELSE {}
  <2>0. /\ place[t] \in {"faulted", "signalled"} \/ InSignal(t) => signal[t] # "none"
        /\ masked[t] = IF InSignal(t) THEN {signal[t]} ELSE {}
    BY <1>2 DEF SigInv
  <2>1. CASE Strikes(t)
    BY <2>0, <2>1 DEF Strikes, InSignal, InHandler, RecordKept
  <2>2. CASE Enters(t)
    <3>1. place[t] = "signalled"
      BY <1>2, <2>2, PrimaryWaits DEF Enters, Effect, App
    <3> QED
      BY <2>0, <2>2, <3>1 DEF Enters, InSignal, InHandler
  <2>3. CASE Ends(t)
    BY <2>0, <2>3 DEF Ends, InSignal, InHandler, SignalsKept
  <2>4. CASE GoesOn(t) /\ SignalsKept
    BY <2>0, <2>4 DEF GoesOn, InSignal, InHandler, SignalsKept
  <2>5. CASE Departs(t)
    <3>1. handler[t] # "mach" /\ InHandler(t)
      BY <1>2, <2>5, InHandlers DEF Departs, Leaving, App
    <3> QED
      BY <2>0, <2>4, <2>5, <3>1 DEF Departs, InSignal, InHandler
  <2> QED
    BY <2>1, <2>2, <2>3, <2>4, <2>5
       DEF Tells, Asks, Clears, Readies, GivesUp, Describes, Creates, Completes, Dismantles
<1>3. place'[Primary] \notin {"faulted", "signalled"}
  <2>0. place[Primary] \notin {"faulted", "signalled"}
    BY DEF SigInv
  <2>1. CASE t # Primary
    BY <1>0, <2>0, <2>1 DEF Elsewhere
  <2>2. CASE t = Primary
    <3>1. t \notin App
      BY <2>2 DEF App
    <3>2. InHandler(t) => handler[t] = "mach"
      BY <2>2, InHandlers
    <3> QED
      BY <2>0, <2>2, <3>1, <3>2
         DEF Tells, Strikes, Enters, Ends, Asks, Clears, Readies, GivesUp, Describes, Creates, Completes, Dismantles, Departs,
             GoesOn, InHandler, Leaving
  <2> QED
    BY <2>1, <2>2
<1> QED
  BY <1>1, <1>2, <1>3 DEF SigInv

LEMMA LoneKept ==
    ASSUME Inv, Inv', crashes \in Nat, SigInv, LoneInv, NEW t \in Threads, Effect(t), Tells(t)
    PROVE  LoneInv'
<1> SUFFICES ASSUME crashes' <= 1
             PROVE  /\ ~context'.recrash
                    /\ \A u \in Threads : InHandler(u)' /\ at'[u] > 1 => ~was'[u] \/ at'[u] = Length(handler'[u])
                    /\ \A u \in Threads : InHandler(u)' /\ at'[u] <= 2 => ~context'.handling
                    /\ context'.handling => Removed' \/ \E u \in Threads : InHandler(u)' /\ at'[u] >= 3
                    /\ crashes' = 0 => ~context'.handling
  BY DEF LoneInv, InHandler
<1>0. crashes <= 1 /\ Elsewhere(t) /\ Can(t) /\ (Removed => Removed')
  BY RemovedKept DEF Tells, Strikes, Enters, Ends, Asks, Clears, Readies, GivesUp, Describes, Creates, Completes,
         Dismantles, Departs, HandlersKept, Effect
<1>1. /\ ~context.recrash
      /\ \A u \in Threads : InHandler(u) /\ at[u] > 1 => ~was[u] \/ at[u] = Length(handler[u])
      /\ \A u \in Threads : InHandler(u) /\ at[u] <= 2 => ~context.handling
      /\ context.handling => Removed \/ \E u \in Threads : InHandler(u) /\ at[u] >= 3
      /\ crashes = 0 => ~context.handling
  BY <1>0 DEF LoneInv
<1>2. \A u \in Threads \ {t} : /\ InHandler(u)' => InHandler(u)
                               /\ at'[u] = at[u] /\ handler'[u] = handler[u] /\ was'[u] = was[u]
  BY <1>0, OthersStages DEF Elsewhere
<1>3. ASSUME InHandler(t)
      PROVE  /\ crashes = 1 /\ handler[t] \in Used /\ at[t] \in 1..Length(handler[t])
             /\ \A u \in Threads \ {t} : ~InHandler(u)
             /\ \A u \in Threads \ {t} : ~InHandler(u)'
  BY <1>0, <1>2, <1>3, OneHandles, StageFacts
<1>4. CASE Strikes(t)
  <2>1. crashes = 0
    BY <1>4 DEF Strikes
  <2>2. ~context'.handling /\ ~context'.recrash
    BY <1>1, <1>4, <2>1 DEF Strikes, RecordKept
  <2>3. \A u \in Threads : ~InHandler(u)
    BY <1>0, <2>1, OneHandles
  <2>4. InHandler(t)' => at'[t] = 1
    BY <1>4 DEF Strikes, InHandler
  <2> QED
    BY <1>2, <2>2, <2>3, <2>4
<1>5. CASE Enters(t)
  <2>1. context' = context /\ crashes' = crashes /\ at'[t] = 1 /\ InHandler(t)'
    BY <1>5 DEF Enters, RecordKept, HandlersKept
  <2>2. ~InHandler(t)
    BY <1>5 DEF Enters, InHandler
  <2>3. ~context.handling
    <3>1. ~Removed
      BY <1>0, <1>5, PrimaryWaits DEF Enters, Removed, AsyncSafe
    <3>2. ASSUME NEW u \in Threads, InHandler(u)
          PROVE  FALSE
      <4>1. u # t
        BY <2>2, <3>2
      <4>2. place[t] # "signalled"
        BY <1>0, <3>2, <4>1, OneHandles
      <4>3. t = Primary /\ port # <<>>
        BY <1>0, <1>5, <4>2, PrimaryWaits DEF Enters
      <4>4. 1 \in 1..Len(port)
        BY <4>3 DEF Inv, TypeOK, WorldType
      <4>5. \E v \in Threads : place[v] = "faulted"
        BY <1>0, <1>5, <4>2, <4>4, PrimaryWaits DEF Enters
      <4>6. u \in App
        BY <3>2, <4>1, <4>3, InHandlers
      <4> QED
        BY <1>0, <3>2, <4>5, <4>6, OneHandles
    <3> QED
      BY <1>1, <3>1, <3>2
  <2> QED
    BY <1>1, <1>2, <2>1, <2>3
<1>6. CASE Ends(t)
  <2>1. context' = context /\ crashes' = crashes
    BY <1>6 DEF Ends, RecordKept
  <2>2. \A u \in Threads : InHandler(u)' <=> InHandler(u)
    BY <1>6 DEF Ends, InHandler
  <2>3. at' = at /\ was' = was /\ handler' = handler
    BY <1>6 DEF Ends
  <2> QED
    BY <1>0, <1>1, <2>1, <2>2, <2>3
<1>7. CASE Asks(t)
  <2>1. context' = context /\ crashes' = crashes /\ InHandler(t) /\ InHandler(t)' /\ handler'[t] = handler[t]
    BY <1>7 DEF Asks, RecordKept, HandlersKept, GoesOn
  <2>2. ~context.handling /\ ~was'[t]
    BY <1>1, <1>7, <2>1 DEF Asks
  <2> QED
    BY <1>1, <1>3, <2>1, <2>2
<1>8. CASE Clears(t)
  <2>1. InHandler(t) /\ InHandler(t)' /\ at'[t] = 3 /\ context'.handling /\ ~context'.recrash /\ was'[t] = was[t]
        /\ crashes' = crashes /\ handler'[t] = handler[t] /\ at[t] = 2
    BY <1>8 DEF Clears, HandlersKept, GoesOn
  <2>2. ~was[t]
    BY <1>1, <1>3, <2>1 DEF Used, Length
  <2> QED
    BY <1>3, <2>1, <2>2
<1>9. CASE GivesUp(t)
  <2>1. InHandler(t) /\ was[t] /\ at[t] >= 3 /\ at[t] # Length(handler[t])
    BY <1>9, StageFacts DEF GivesUp, GoesOn
  <2> QED
    BY <1>1, <2>1, <1>3
<1>10. CASE Readies(t) \/ Describes(t) \/ Creates(t) \/ Completes(t) \/ Dismantles(t)
  <2>1. /\ GoesOn(t) /\ was' = was /\ crashes' = crashes /\ at'[t] >= at[t] /\ at[t] >= 3
        /\ context'.handling = context.handling /\ context'.recrash = context.recrash
    <3>1. Filling(t) \/ Opening(t) \/ Writing(t) \/ Removing(t) => at[t] >= 3
      BY StageFacts DEF Filling, Opening, Writing, Removing
    <3>2. InHandler(t)
      BY <1>10 DEF Readies, Describes, Creates, Completes, Dismantles, GoesOn
    <3> QED
      BY <1>3, <1>10, <3>1, <3>2 DEF Readies, Describes, Creates, Completes, Dismantles, HandlersKept, RecordKept
  <2>2. InHandler(t) /\ InHandler(t)' /\ handler'[t] = handler[t]
    BY <2>1 DEF GoesOn
  <2>3. ~was[t] \/ at[t] = Length(handler[t])
    BY <1>1, <1>3, <2>1, <2>2
  <2>4. at'[t] \in 1..Length(handler'[t])
    BY <2>2 DEF Inv, ThreadInv, HandlerInv
  <2>5. at[t] = Length(handler[t]) => at'[t] = Length(handler'[t])
    BY <1>3, <2>1, <2>2, <2>4 DEF Used, Length
  <2> QED
    BY <1>1, <1>3, <2>1, <2>2, <2>3, <2>4, <2>5
<1>11. CASE Departs(t)
  <2>1. Removed' /\ InHandler(t) /\ context' = context /\ crashes' = crashes /\ was' = was
    BY <1>0, <1>11, InHandlers DEF Departs, Leaving, RecordKept, HandlersKept
  <2>2. at[t] >= 3
    BY <1>11, <2>1, StageFacts DEF Departs
  <2>3. CASE InHandler(t)'
    <3>1. GoesOn(t) /\ at'[t] >= at[t] /\ Leaving(t)'
      BY <1>11, <2>3 DEF Departs, InHandler
    <3>2. handler'[t] = handler[t] /\ at'[t] \in 1..Length(handler'[t])
      BY <2>3, <3>1 DEF GoesOn, Inv, ThreadInv, HandlerInv
    <3>3. ~was[t] \/ at[t] = Length(handler[t])
      BY <1>1, <1>3, <2>1, <2>2
    <3>4. at[t] = Length(handler[t]) => at'[t] = Length(handler'[t])
      BY <1>3, <2>1, <3>1, <3>2 DEF Used, Length
    <3> QED
      BY <1>1, <1>3, <2>1, <2>2, <2>3, <3>1, <3>2, <3>3, <3>4
  <2>4. CASE ~InHandler(t)'
    BY <1>1, <1>3, <2>1, <2>4
  <2> QED
    BY <2>3, <2>4
<1> QED
  BY <1>4, <1>5, <1>6, <1>7, <1>8, <1>9, <1>10, <1>11 DEF Tells


LEMMA FilesKept ==
    ASSUME Inv, LocalsType, FilesType, FileInv, NEW t \in Threads, Tells(t)
    PROVE  FilesType'
<1>1. CASE reports' = reports
  BY <1>1 DEF FilesType
<1>2. CASE Creates(t) /\ reports' # reports
  <2>1. reports' = [reports EXCEPT ![FileOf].state = "partial"]
    BY <1>2 DEF Creates
  <2>2. DOMAIN reports' = DOMAIN reports
    BY <2>1
  <2>3. ASSUME NEW f \in DOMAIN reports
        PROVE  \/ reports'[f] = reports[f]
               \/ reports'[f] = [state |-> "partial", thread |-> reports[f].thread, kind |-> reports[f].kind]
    <3>1. reports[f] = [state |-> reports[f].state, thread |-> reports[f].thread, kind |-> reports[f].kind]
      BY DEF FilesType
    <3> DEFINE r == reports[f]
    <3>2. [r EXCEPT !.state = "partial"] = [state |-> "partial", thread |-> r.thread, kind |-> r.kind]
      BY <3>1
    <3>3. reports'[f] = IF f = FileOf THEN [r EXCEPT !.state = "partial"] ELSE r
      BY <2>1
    <3> QED
      BY <3>2, <3>3
  <2>4. ASSUME NEW f \in DOMAIN reports
        PROVE  /\ reports'[f] = [state |-> reports'[f].state, thread |-> reports'[f].thread,
                                 kind |-> reports'[f].kind]
               /\ reports'[f].state \in {"none", "partial", "whole"}
    <3>1. CASE reports'[f] = reports[f]
      BY <3>1 DEF FilesType
    <3>2. CASE reports'[f] = [state |-> "partial", thread |-> reports[f].thread, kind |-> reports[f].kind]
      BY <3>2
    <3> QED
      BY <2>3, <3>1, <3>2
  <2> QED
    BY <2>2, <2>4 DEF FilesType
<1>3. CASE Completes(t)
  <2>1. reports' = [reports EXCEPT ![opened[t]] =
                     [state |-> "whole", thread |-> context.thread, kind |-> context.kind]]
    BY <1>3 DEF Completes
  <2> QED
    BY <2>1 DEF FilesType
<1> QED
  BY <1>1, <1>2, <1>3
     DEF Tells, Strikes, Enters, Ends, Asks, Clears, Readies, GivesUp, Describes, Dismantles, Departs, RecordKept

LEMMA CrashesRise ==
    ASSUME crashes \in Nat, NEW t \in Threads, Tells(t)
    PROVE  crashes' \in Nat /\ crashes' >= crashes
  BY DEF Tells, Strikes, Enters, Ends, Asks, Clears, Readies, GivesUp, Describes, Creates, Completes,
         Dismantles, Departs, HandlersKept

(* A thread that has its signal keeps one, and one about which a report was *)
(* written gets it when it has not.                                        *)
LEMMA SignalStays ==
    ASSUME Inv, NEW t \in Threads, Effect(t), Tells(t), NEW u \in App, signal[u] # "none" \/ NsDone(u)
    PROVE  /\ signal[u] # "none" => signal'[u] # "none"
           /\ signal'[u] # "none" \/ NsDone(u)'
<1>0. Elsewhere(t) /\ u \in Threads
  BY DEF Tells, App
<1>1. CASE u # t
  <2>1. signal'[u] = signal[u] /\ (NsDone(u)' <=> NsDone(u))
    BY <1>0, <1>1, OthersStages DEF Elsewhere
  <2> QED
    BY <2>1
<1>2. CASE u = t
  <2>1. signal[t] # "none" => signal'[t] # "none"
    BY DEF Tells, Strikes, Enters, Ends, Asks, Clears, Readies, GivesUp, Describes, Creates, Completes,
           Dismantles, Departs, SignalsKept
  <2>2. ASSUME NsDone(t), ~NsDone(t)'
        PROVE  signal'[t] # "none"
    <3>1. InHandler(t) /\ Late(t) /\ ~Writing(t) /\ ~Opening(t) /\ handler[t] = "ns" /\ at[t] \in 8..9
      BY <2>2, StageFacts DEF NsDone
    <3>2. ~Filling(t) /\ ~Recrashing(t)
      BY <3>1 DEF Filling, FillsAt, Recrashing, RecrashesAt
    <3>3. ~Readies(t)
      BY <3>1 DEF Readies
    <3>4. ~Dismantles(t)
      BY <2>2, <3>1 DEF Dismantles, Removing, RemovesAt, GoesOn, NsDone, InHandler
    <3>5. ~Ends(t)
      BY <2>2, <3>1 DEF Ends, NsDone, InHandler
    <3>6. ~Strikes(t) /\ ~Enters(t) /\ ~Asks(t) /\ ~Clears(t)
      BY <3>1 DEF Strikes, Enters, Asks, Clears, InHandler
    <3>7. Departs(t)
      BY <3>1, <3>2, <3>3, <3>4, <3>5, <3>6 DEF Tells, GivesUp, Describes, Creates, Completes
    <3> QED
      BY <3>1, <3>7 DEF Departs
  <2> QED
    BY <1>2, <2>1, <2>2
<1> QED
  BY <1>1, <1>2

(* Whose crash a handler describes.                                        *)
LEMMA Describers ==
    ASSUME Inv, SigInv, NEW t \in Threads, InHandler(t)
    PROVE  /\ crashes # 0 /\ OffendingThread(t) \in App
           /\ handler[t] # "ns" => signal[OffendingThread(t)] # "none"
           /\ handler[t] = "ns" => OffendingThread(t) = t
<1>1. CASE handler[t] = "mach"
  <2>1. t = Primary
    BY <1>1, InHandlers
  <2>2. client[t] \in App /\ place[client[t]] = "faulted"
    BY <2>1 DEF Inv, ThreadInv, PrimaryInv
  <2> QED
    BY <1>1, <2>2 DEF OffendingThread, SigInv, Inv, FewInv
<1>2. CASE handler[t] # "mach"
  <2>1. t \in App /\ handler[t] \in Used
    BY <1>2, InHandlers
  <2>2. crashes # 0
    BY <2>1 DEF Inv, FewInv, InHandler
  <2> QED
    BY <1>2, <2>1, <2>2 DEF OffendingThread, SigInv, InSignal, Used
<1> QED
  BY <1>1, <1>2

(* Only the thread that records opens, writes and describes.               *)
LEMMA OneRecorder ==
    ASSUME Inv, NEW t \in Threads, NEW u \in Threads,
           Filling(t) \/ Opening(t) \/ Writing(t), Writing(u) \/ Opening(u)
    PROVE  u = t
<1>1. Holds(t) /\ Holds(u)
  BY StageFacts DEF Filling, Opening, Writing
<1> QED
  BY <1>1 DEF Inv, OrderInv, AloneInv

(* Steps that touch neither the context nor the files.                     *)
LEMMA FileKeptAside ==
    ASSUME Inv, crashes \in Nat, LocalsType, FilesType, FileInv, NEW t \in Threads, Effect(t), Tells(t),
           UNCHANGED <<reports, opened>>,
           \A u \in Threads : Writing(u)' <=> Writing(u),
           \A u \in Threads : Opening(u)' \/ Writing(u)' => context'.thread = OffendingThread(u)'
    PROVE  FileInv'
<1>0. crashes' \in Nat /\ crashes' >= crashes
  BY CrashesRise
<1>1. ASSUME NEW u \in Threads, Writing(u)'
      PROVE  /\ opened'[u] \in DOMAIN reports' /\ reports'[opened'[u]].state = "partial"
             /\ crashes' <= 1 => opened'[u][2] = "standard"
  <2>1. Writing(u)
    BY <1>1
  <2>2. crashes' <= 1 => crashes <= 1
    BY <1>0
  <2> QED
    BY <2>1, <2>2 DEF FileInv
<1>2. \A f \in DOMAIN reports' :
          reports'[f].state = "partial" => \E u \in Threads : Writing(u)' /\ opened'[u] = f
  BY DEF FileInv
<1>3. ASSUME NEW f \in DOMAIN reports', Whole(f)'
      PROVE  Trust(f)'
  <2>1. Trust(f)
    BY <1>3 DEF FileInv, Whole
  <2>2. crashes' >= 1 /\ (crashes' = 1 => crashes = 1)
    BY <1>0, <2>1 DEF Trust
  <2>3. signal'[reports[f].thread] # "none" \/ NsDone(reports[f].thread)'
    BY <2>1, SignalStays DEF Trust
  <2> QED
    BY <2>1, <2>2, <2>3 DEF Trust, NsDone, InHandler
<1> QED
  BY <1>1, <1>2, <1>3 DEF FileInv


LEMMA AwayFromFiles ==
    ASSUME Inv, Inv', NEW t \in Threads, Tells(t), ~Describes(t), ~Completes(t),
           ~(Creates(t) /\ at'[t] = at[t] + 1)
    PROVE  /\ UNCHANGED <<reports, opened>>
           /\ ~(Writing(t)' /\ ~Writing(t)) /\ ~(Writing(t) /\ ~Writing(t)')
           /\ ~Ends(t) => ~Opening(t)' /\ ~Writing(t)' /\ ~Writing(t)
           /\ ~Clears(t) => context'.thread = context.thread
<1>0. ASSUME GoesOn(t)
      PROVE  /\ InHandler(t) /\ handler[t] \in Used /\ at[t] \in 1..Length(handler[t])
             /\ InHandler(t)' /\ handler'[t] = handler[t] /\ at'[t] \in 1..Length(handler[t])
  BY <1>0 DEF GoesOn, Inv, ThreadInv, HandlerInv
<1> USE DEF Writing, Opening, WritesAt, OpensAt
<1>1. CASE Strikes(t)
  BY <1>1 DEF Strikes, InHandler, RecordKept
<1>2. CASE Enters(t)
  BY <1>2 DEF Enters, InHandler, RecordKept
<1>3. CASE Ends(t)
  BY <1>3 DEF Ends, InHandler, RecordKept
<1>4. CASE Asks(t)
  <2>1. GoesOn(t) /\ at[t] = 1 /\ (at'[t] = 2 \/ at'[t] = Length(handler[t])) /\ RecordKept
    BY <1>4 DEF Asks
  <2>2. at'[t] # 6 /\ at'[t] # 7 /\ at'[t] # 8
    BY <1>0, <2>1 DEF Length
  <2> QED
    BY <1>0, <2>1, <2>2 DEF RecordKept
<1>5. CASE Clears(t)
  BY <1>5 DEF Clears
<1>6. CASE Readies(t)
  <2>1. GoesOn(t) /\ RecordKept /\ at'[t] >= at[t] /\ at'[t] <= IF handler[t] = "mach" THEN 6 ELSE 5
    BY <1>0, <1>6 DEF Readies
  <2> QED
    BY <1>0, <2>1 DEF RecordKept
<1>7. CASE GivesUp(t)
  <2>1. GoesOn(t) /\ UNCHANGED <<reports, opened>> /\ context'.thread = context.thread
        /\ at'[t] = at[t] + 1 /\ at[t] = IF handler[t] = "mach" THEN 5 ELSE IF handler[t] = "signal" THEN 4 ELSE 3
    BY <1>7 DEF GivesUp, Recrashing, RecrashesAt
  <2> QED
    BY <1>0, <2>1
<1>8. CASE Creates(t) /\ at'[t] = at[t] + 2
  <2>1. GoesOn(t) /\ UNCHANGED <<reports, opened, context>> /\ at[t] = IF handler[t] = "mach" THEN 7 ELSE 6
    BY <1>0, <1>8 DEF Creates
  <2> QED
    BY <1>0, <1>8, <2>1
<1>9. CASE Dismantles(t)
  <2>1. GoesOn(t) /\ RecordKept /\ at'[t] = at[t] + 1 /\ at[t] = IF handler[t] = "mach" THEN 9 ELSE 8
    BY <1>9 DEF Dismantles, Removing, RemovesAt
  <2> QED
    BY <1>0, <2>1 DEF RecordKept
<1>10. CASE Departs(t)
  <2>1. RecordKept /\ Leaving(t) /\ InHandler(t) /\ (InHandler(t)' => Leaving(t)')
    BY <1>10 DEF Departs, Leaving, InHandler
  <2> QED
    BY <2>1 DEF RecordKept, Leaving, LeavesAt
<1> QED
  BY <1>1, <1>2, <1>3, <1>4, <1>5, <1>6, <1>7, <1>8, <1>9, <1>10 DEF Tells, Creates

LEMMA FileKept ==
    ASSUME Inv, Inv', crashes \in Nat, LocalsType, FilesType, SigInv, LoneInv, FileInv,
           NEW t \in Threads, Effect(t), Tells(t)
    PROVE  FileInv'
<1>0. Elsewhere(t) /\ Can(t) /\ crashes' \in Nat /\ crashes' >= crashes
  BY CrashesRise DEF Tells, Effect
<1>1. \A u \in Threads \ {t} :
         /\ Writing(u)' <=> Writing(u)
         /\ Opening(u)' <=> Opening(u)
         /\ OffendingThread(u)' = OffendingThread(u)
         /\ opened'[u] = opened[u]
  BY <1>0, OthersStages DEF Elsewhere
<1>2. \A u \in Threads : Opening(u) \/ Writing(u) => context.thread = OffendingThread(u)
  BY DEF FileInv
<1>3. CASE Describes(t)
  <2>1. /\ GoesOn(t) /\ Filling(t) /\ Opening(t)' /\ ~Writing(t) /\ UNCHANGED <<reports, opened>>
        /\ context'.thread = OffendingThread(t) /\ ~Writing(t)'
    <3>1. GoesOn(t) /\ Filling(t) /\ at'[t] = at[t] + 1
      BY <1>3 DEF Describes
    <3>2. Opening(t)' /\ ~Writing(t)
      BY <3>1, NextStage, StageFacts DEF GoesOn
    <3>3. ~Writing(t)'
      BY <3>2 DEF Opening, Writing, OpensAt, WritesAt
    <3> QED
      BY <1>3, <3>1, <3>2, <3>3 DEF Describes
  <2>2. OffendingThread(t)' = OffendingThread(t)
    BY <2>1 DEF GoesOn, OffendingThread
  <2>3. \A u \in Threads \ {t} : ~Writing(u) /\ ~Opening(u)
    BY <2>1, OneRecorder
  <2> QED
    BY <1>1, <2>1, <2>2, <2>3, FileKeptAside
<1>4. CASE Creates(t) /\ at'[t] = at[t] + 1
  <2>1. /\ GoesOn(t) /\ Opening(t) /\ Writing(t)' /\ ~Writing(t) /\ ~Opening(t)' /\ HandlersKept /\ SignalsKept
        /\ context' = context
    <3>1. GoesOn(t) /\ Opening(t) /\ HandlersKept /\ SignalsKept /\ context' = context
      BY <1>4 DEF Creates
    <3>2. Writing(t)' /\ ~Writing(t)
      BY <1>4, <3>1, NextStage, StageFacts DEF GoesOn
    <3> QED
      BY <3>1, <3>2 DEF Opening, Writing, OpensAt, WritesAt
  <2>2. /\ reports[FileOf].state = "none" /\ opened'[t] = FileOf
        /\ reports' = [reports EXCEPT ![FileOf].state = "partial"]
    <3>1. at[t] + 1 # at[t] + 2
      BY <2>1, StageFacts DEF GoesOn
    <3> QED
      BY <1>4, <3>1 DEF Creates
  <2>3. FileOf \in DOMAIN reports /\ (crashes <= 1 => FileOf[2] = "standard")
    <3>1. 1 \in Paths
      BY DEF Paths
    <3> QED
      BY <3>1 DEF FileOf, FilesType, LocalsType, LoneInv
  <2>4. \A u \in Threads : ~Writing(u)
    BY <2>1, OneRecorder
  <2>5. DOMAIN reports' = DOMAIN reports /\ reports'[FileOf].state = "partial"
        /\ \A f \in DOMAIN reports : f # FileOf => reports'[f] = reports[f]
    <3> DEFINE r == reports[FileOf]
    <3>1. r = [state |-> r.state, thread |-> r.thread, kind |-> r.kind]
      BY <2>3 DEF FilesType
    <3>2. [r EXCEPT !.state = "partial"].state = "partial"
      BY <3>1
    <3>3. reports'[FileOf] = [r EXCEPT !.state = "partial"]
      BY <2>2, <2>3
    <3>4. DOMAIN reports' = DOMAIN reports /\ \A f \in DOMAIN reports : f # FileOf => reports'[f] = reports[f]
      BY <2>2
    <3> QED
      BY <3>2, <3>3, <3>4
  <2>6. OffendingThread(t)' = OffendingThread(t) /\ crashes' = crashes
    BY <2>1 DEF GoesOn, OffendingThread, HandlersKept
  <2>7. \A u \in Threads : Writing(u)' => u = t
    BY <1>1, <2>4
  <2>8. ASSUME NEW u \in Threads, Writing(u)'
        PROVE  /\ opened'[u] \in DOMAIN reports' /\ reports'[opened'[u]].state = "partial"
               /\ crashes' <= 1 => opened'[u][2] = "standard"
    BY <2>2, <2>3, <2>5, <2>6, <2>7, <2>8
  <2>9. ASSUME NEW u \in Threads, Opening(u)' \/ Writing(u)'
        PROVE  context'.thread = OffendingThread(u)'
    <3>1. u = t
      <4>1. CASE u # t
        <5>1. Opening(u) \/ Writing(u)
          BY <1>1, <2>9, <4>1
        <5> QED
          BY <2>1, <5>1, OneRecorder
      <4> QED
        BY <4>1
    <3> QED
      BY <1>2, <2>1, <2>6, <3>1
  <2>10. ASSUME NEW f \in DOMAIN reports', reports'[f].state = "partial"
         PROVE  \E u \in Threads : Writing(u)' /\ opened'[u] = f
    <3>1. f = FileOf
      BY <2>4, <2>5, <2>10 DEF FileInv
    <3> QED
      BY <2>1, <2>2, <3>1
  <2>11. ASSUME NEW f \in DOMAIN reports', Whole(f)'
         PROVE  Trust(f)'
    <3>1. f # FileOf /\ reports'[f] = reports[f] /\ f \in DOMAIN reports
      BY <2>5, <2>11 DEF Whole
    <3>2. Trust(f)
      BY <2>11, <3>1 DEF FileInv, Whole
    <3>3. PICK x \in App : x = reports[f].thread /\ (signal'[x] # "none" \/ NsDone(x)')
      BY <3>2, SignalStays DEF Trust
    <3> QED
      BY <2>6, <3>1, <3>2, <3>3 DEF Trust, NsDone, InHandler
  <2> QED
    BY <2>8, <2>9, <2>10, <2>11 DEF FileInv
<1>5. CASE Completes(t)
  <2>1. /\ GoesOn(t) /\ Writing(t) /\ HandlersKept /\ SignalsKept /\ opened' = opened /\ context' = context
        /\ reports' = [reports EXCEPT ![opened[t]] =
                     [state |-> "whole", thread |-> context.thread, kind |-> context.kind]]
        /\ at'[t] = at[t] + 1
    BY <1>5 DEF Completes
  <2>2. Removing(t)' /\ ~Writing(t)' /\ ~Opening(t)'
    <3>1. Removing(t)'
      BY <2>1, NextStage
    <3> QED
      BY <3>1 DEF Removing, Writing, Opening, RemovesAt, WritesAt, OpensAt
  <2>3. /\ opened[t] \in DOMAIN reports /\ context.thread = OffendingThread(t)
        /\ crashes <= 1 => opened[t][2] = "standard"
    BY <2>1 DEF FileInv
  <2>4. /\ DOMAIN reports' = DOMAIN reports
        /\ reports'[opened[t]] = [state |-> "whole", thread |-> context.thread, kind |-> context.kind]
        /\ \A f \in DOMAIN reports : f # opened[t] => reports'[f] = reports[f]
    BY <2>1, <2>3
  <2>5. \A u \in Threads : ~Writing(u)' /\ ~Opening(u)'
    BY <1>1, <2>1, <2>2, OneRecorder
  <2>6. ASSUME NEW f \in DOMAIN reports', reports'[f].state = "partial"
        PROVE  \E u \in Threads : Writing(u)' /\ opened'[u] = f
    <3>1. f # opened[t] /\ reports'[f] = reports[f] /\ f \in DOMAIN reports
      BY <2>4, <2>6
    <3>2. PICK u \in Threads : Writing(u) /\ opened[u] = f
      BY <2>6, <3>1 DEF FileInv
    <3> QED
      BY <2>1, <3>1, <3>2, OneRecorder
  <2>7. ASSUME NEW f \in DOMAIN reports', Whole(f)'
        PROVE  Trust(f)'
    <3>1. crashes' = crashes
      BY <2>1 DEF HandlersKept
    <3>2. CASE f = opened[t]
      <4>1. InHandler(t) /\ handler[t] \in Used
        BY <2>1, StageFacts DEF Writing
      <4>2. reports'[f].thread = OffendingThread(t)
        BY <2>3, <2>4, <3>2
      <4>3. crashes # 0 /\ OffendingThread(t) \in App
        BY <4>1, Describers
      <4>4. crashes' >= 1 /\ (crashes' = 1 => f[2] = "standard")
        BY <2>3, <3>1, <3>2, <4>3
      <4>5. \E x \in App : x = OffendingThread(t) /\ (signal'[x] # "none" \/ NsDone(x)')
        <5>1. CASE handler[t] = "ns"
          <6>1. OffendingThread(t) = t
            BY <4>1, <5>1, Describers
          <6>2. InHandler(t)' /\ handler'[t] = "ns" /\ at'[t] = 8
            BY <2>1, <2>2, <5>1 DEF Removing, RemovesAt, GoesOn
          <6>3. NsDone(t)'
            BY <6>2 DEF NsDone
          <6> QED
            BY <4>3, <6>1, <6>3
        <5>2. CASE handler[t] # "ns"
          BY <2>1, <4>1, <4>3, <5>2, Describers DEF SignalsKept
        <5> QED
          BY <5>1, <5>2
      <4>6. PICK x \in App : x = OffendingThread(t) /\ (signal'[x] # "none" \/ NsDone(x)')
        BY <4>5
      <4> QED
        BY <4>2, <4>4, <4>6 DEF Trust, NsDone, InHandler
    <3>3. CASE f # opened[t]
      <4>1. reports'[f] = reports[f] /\ f \in DOMAIN reports
        BY <2>4, <3>3
      <4>2. Trust(f)
        BY <2>7, <4>1 DEF FileInv, Whole
      <4>3. PICK x \in App : x = reports[f].thread /\ (signal'[x] # "none" \/ NsDone(x)')
        BY <4>2, SignalStays DEF Trust
      <4> QED
        BY <3>1, <4>1, <4>2, <4>3 DEF Trust, NsDone, InHandler
    <3> QED
      BY <3>2, <3>3
  <2> QED
    BY <2>5, <2>6, <2>7 DEF FileInv
<1>6. CASE ~Describes(t) /\ ~Completes(t) /\ ~(Creates(t) /\ at'[t] = at[t] + 1)
  <2>1. /\ UNCHANGED <<reports, opened>>
        /\ Writing(t)' <=> Writing(t)
        /\ ~Ends(t) => ~Opening(t)' /\ ~Writing(t)' /\ ~Writing(t)
        /\ ~Clears(t) => context'.thread = context.thread
    BY <1>6, AwayFromFiles
  <2>2. ASSUME Clears(t)
        PROVE  \A u \in Threads \ {t} : ~Writing(u) /\ ~Opening(u)
    <3> SUFFICES ASSUME NEW u \in Threads \ {t}, Writing(u) \/ Opening(u)
                 PROVE  FALSE
      OBVIOUS
    <3>1. Holds(u)
      BY StageFacts DEF Writing, Opening
    <3>2. InHandler(t) /\ at[t] = 2
      BY <2>2 DEF Clears, GoesOn
    <3>3. Leaving(t)
      BY <1>0, <3>1, <3>2, OnlyHolder
    <3> QED
      BY <3>2, <3>3, StageFacts
  <2>3. ASSUME NEW u \in Threads, Opening(u)' \/ Writing(u)'
        PROVE  context'.thread = OffendingThread(u)'
    <3>1. CASE u # t
      BY <1>1, <1>2, <2>1, <2>2, <2>3, <3>1
    <3>2. CASE u = t /\ Ends(t)
      BY <1>2, <2>1, <2>3, <3>2 DEF Ends, InHandler, Opening, Writing, Clears, GoesOn
    <3> QED
      BY <2>1, <2>3, <3>1, <3>2
  <2> QED
    BY <1>1, <2>1, <2>3, FileKeptAside
<1> QED
  BY <1>3, <1>4, <1>5, <1>6


-----------------------------------------------------------------------------
(* What is whole stays as it is.                                           *)
LEMMA WholeKept ==
    ASSUME FilesType, FileInv, NEW t \in Threads, Tells(t), NEW f \in DOMAIN reports, Whole(f)
    PROVE  f \in DOMAIN reports' /\ reports'[f] = reports[f]
<1>1. CASE reports' = reports
  BY <1>1
<1>2. CASE Creates(t) /\ reports' # reports
  <2>1. reports[FileOf].state = "none" /\ reports' = [reports EXCEPT ![FileOf].state = "partial"]
    BY <1>2 DEF Creates
  <2> QED
    BY <2>1 DEF Whole
<1>3. CASE Completes(t)
  <2>1. /\ reports[opened[t]].state = "partial"
        /\ reports' = [reports EXCEPT ![opened[t]] =
                     [state |-> "whole", thread |-> context.thread, kind |-> context.kind]]
    BY <1>3 DEF Completes, FileInv
  <2> QED
    BY <2>1 DEF Whole
<1> QED
  BY <1>1, <1>2, <1>3
     DEF Tells, Strikes, Enters, Ends, Asks, Clears, Readies, GivesUp, Describes, Dismantles, Departs, RecordKept

LEMMA GoodKept ==
    ASSUME Inv, FilesType, FileInv, Good, NEW t \in Threads, Effect(t), Tells(t)
    PROVE  Good'
<1>1. PICK f \in DOMAIN reports : Whole(f) /\ signal[reports[f].thread] # "none"
  BY DEF Good
<1>2. PICK x \in App : x = reports[f].thread /\ signal'[x] # "none"
  BY <1>1, SignalStays DEF FileInv, Trust
<1>3. f \in DOMAIN reports' /\ reports'[f] = reports[f]
  BY <1>1, WholeKept
<1> QED
  BY <1>1, <1>2, <1>3 DEF Good, Whole

LEMMA FinalKept ==
    ASSUME Inv, crashes \in Nat, Quiet, Quiet', FilesType, FileInv, Final,
           NEW t \in Threads, Effect(t), Tells(t)
    PROVE  ~Ends(t) /\ (Final' \/ Good')
<1>1. PICK x \in Threads :
          NsDone(x) /\ Quieted(x) /\ \E f \in DOMAIN reports : Whole(f) /\ reports[f].thread = x
  BY DEF Final
<1>2. PICK f \in DOMAIN reports : Whole(f) /\ reports[f].thread = x
  BY <1>1
<1>3. f \in DOMAIN reports' /\ reports'[f] = reports[f]
  BY <1>2, WholeKept
<1>4. t = x
  <2> SUFFICES ASSUME t # x PROVE FALSE
    OBVIOUS
  <2>1. place[t] \in {"gone", "faulted"} \/ (place[t] = "run" /\ crashes >= 2)
    BY <1>1 DEF Quieted, Effect, Can
  <2>2. ~InHandler(t)
    BY <2>1 DEF InHandler
  <2>3. ~Strikes(t)
    BY <2>1 DEF Strikes
  <2> QED
    BY <2>1, <2>2, <2>3
       DEF Tells, Enters, Ends, Asks, Clears, Readies, GivesUp, Describes, Creates, Completes, Dismantles, Departs,
           GoesOn, Leaving
<1>5. /\ InHandler(t) /\ handler[t] = "ns" /\ at[t] \in 8..9 /\ ~Writing(t) /\ ~Opening(t)
  BY <1>1, <1>4, StageFacts DEF NsDone
<1>6. Dismantles(t) \/ Departs(t)
  <2>1. ~Strikes(t) /\ ~Enters(t) /\ ~Ends(t) /\ ~Asks(t) /\ ~Clears(t)
    BY <1>5 DEF Strikes, Enters, Ends, Asks, Clears, InHandler
  <2>2. ~Readies(t)
    BY <1>5 DEF Readies
  <2>3. ~Filling(t) /\ ~Recrashing(t)
    BY <1>5 DEF Filling, FillsAt, Recrashing, RecrashesAt
  <2> QED
    BY <1>5, <2>1, <2>2, <2>3 DEF Tells, GivesUp, Describes, Creates, Completes
<1>7. ~Ends(t)
  BY <1>5 DEF Ends, InHandler
<1>8. f \in DOMAIN reports' /\ Whole(f)' /\ reports'[f].thread = t
  BY <1>2, <1>3, <1>4 DEF Whole
<1>9. CASE Departs(t)
  <2>1. signal'[t] # "none"
    BY <1>5, <1>9 DEF Departs
  <2> QED
    BY <1>7, <1>8, <2>1 DEF Good
<1>10. CASE Dismantles(t)
  <2>1. GoesOn(t) /\ Removing(t) /\ at'[t] = at[t] + 1 /\ crashes' = crashes
    BY <1>10 DEF Dismantles
  <2>2. at[t] = 8 /\ ~Leaving(t)
    BY <1>5, <2>1 DEF Removing, RemovesAt, Leaving, LeavesAt
  <2>3. NsDone(t)'
    BY <1>5, <2>1, <2>2 DEF GoesOn, NsDone
  <2>4. ASSUME NEW u \in Threads \ {t}
        PROVE  \/ suspended'[u] = suspended[u]
               \/ place'[u] = "gone"
    BY <1>5, <2>2
       DEF Effect, Starts, Stops, Dies, Proceeds, Suspends, Resumes, Activates, Removes, Replies, WorldKept,
           Suspending, SuspendsAt, Resuming, ResumesAt
  <2>5. Quieted(t)'
    <3> SUFFICES ASSUME NEW u \in Threads \ {t}
                 PROVE  suspended'[u] > 0 \/ place'[u] \in {"gone", "faulted"} \/ (place'[u] = "run" /\ crashes' >= 2)
      BY DEF Quieted
    <3>1. suspended[u] > 0 \/ place[u] \in {"gone", "faulted"} \/ (place[u] = "run" /\ crashes >= 2)
      BY <1>1, <1>4 DEF Quieted
    <3>2. place'[u] = place[u] \/ place'[u] = "gone"
      BY <2>2 DEF Tells, Elsewhere
    <3> QED
      BY <2>1, <2>4, <3>1, <3>2
  <2> QED
    BY <1>7, <1>8, <2>3, <2>5 DEF Final
<1> QED
  BY <1>6, <1>7, <1>9, <1>10

(* Two threads in handlers at a time are the two that crashed, or one of    *)
(* them and the exception thread that handles the other.                   *)
LEMMA TwoHandle ==
    ASSUME Inv, Quiet, crashes \in Nat, SigInv, NEW t \in Threads, NEW v \in Threads \ {t},
           InHandler(t), InHandler(v)
    PROVE  /\ crashes = 2
           /\ \A u \in Threads : place[u] # "signalled"
           /\ \A u \in Threads \ {t, v} : ~InHandler(u)
           /\ place[Primary] = "wait" => \A u \in App : place[u] # "faulted"
<1>1. PICK a \in Threads, b \in Threads :
          /\ crashes <= 1 => a = b
          /\ \A w \in App \ {a, b} : place[w] = "run"
  BY DEF Inv, FewInv
<1>2. \A u \in Threads : u = Primary \/ u = Secondary \/ u \in App
  BY DEF App
<1>3. InHandler(Primary) => client[Primary] \in App /\ place[client[Primary]] = "faulted"
  BY DEF Inv, ThreadInv, PrimaryInv
<1>4. place[Secondary] \in {"wait", "gone"} /\ place[Primary] \notin {"faulted", "signalled"}
  BY DEF Inv, ThreadInv, SecondaryInv, SigInv
<1>5. crashes = 2
  <2>1. ~(crashes <= 1)
    BY OneHandles
  <2> QED
    BY <2>1
<1>6. ASSUME NEW r \in App, NEW s \in App, r # s, place[r] # "run", place[s] # "run"
      PROVE  \A u \in App \ {r, s} : place[u] = "run"
  BY <1>1, <1>6
<1>7. CASE t \in App /\ v \in App
  <2>1. \A u \in App \ {t, v} : place[u] = "run"
    BY <1>6, <1>7 DEF InHandler
  <2>2. ~InHandler(Primary)
    BY <1>3, <1>7, <2>1 DEF InHandler
  <2> QED
    BY <1>2, <1>4, <1>5, <1>7, <2>1, <2>2 DEF InHandler
<1>8. ASSUME NEW w \in App, {t, v} = {Primary, w}
      PROVE  /\ \A u \in Threads : place[u] # "signalled"
             /\ \A u \in Threads \ {t, v} : ~InHandler(u)
             /\ place[Primary] # "wait"
  <2>1. InHandler(Primary) /\ InHandler(w)
    BY <1>8
  <2>2. client[Primary] \in App /\ place[client[Primary]] = "faulted" /\ client[Primary] # w
    BY <1>3, <2>1 DEF InHandler
  <2>3. \A u \in App \ {client[Primary], w} : place[u] = "run"
    BY <1>6, <2>1, <2>2 DEF InHandler
  <2> QED
    BY <1>2, <1>4, <1>8, <2>1, <2>2, <2>3 DEF InHandler
<1> QED
  BY <1>2, <1>4, <1>5, <1>7, <1>8 DEF InHandler

LEMMA OthersGoOn ==
    ASSUME Inv, NEW t \in Threads, Effect(t), installed' = installed, NEW u \in Threads \ {t}, InHandler(u)
    PROVE  InHandler(u)'
<1>1. CASE Removes(t)
  <2>1. "mach" \notin installed
    BY <1>1 DEF Removes, AsyncSafe, Sentries
  <2> QED
    BY <1>1, <2>1 DEF Removes, PlacesKept, InHandler
<1> QED
  BY <1>1, OthersInHandlers

LEMMA CaughtKept ==
    ASSUME Inv, crashes \in Nat, Quiet', SigInv, Caught, NEW t \in Threads, Effect(t), Tells(t), ~Late(t)
    PROVE  Caught' /\ ~Strikes(t) /\ ~Enters(t) /\ ~Ends(t) /\ ~Asks(t)
<1>0. crashes = 2 /\ Elsewhere(t) /\ ~Leaving(t) /\ Can(t)
  BY DEF Caught, Tells, Late, Effect
<1>1. ~Strikes(t)
  BY <1>0 DEF Strikes
<1>2. ~Ends(t) /\ ~Asks(t)
  BY DEF Ends, Asks, Caught, GoesOn
<1>3. ~Enters(t)
  <2> SUFFICES ASSUME place[t] = "wait", port # <<>> PROVE FALSE
    BY DEF Enters, Caught
  <2>1. 1 \in 1..Len(port)
    BY DEF Inv, TypeOK, WorldType
  <2>2. t = Primary /\ port[1] \in Threads /\ place[port[1]] = "faulted"
    BY <1>0, <2>1, PrimaryWaits
  <2>3. place[Secondary] # "faulted"
    BY DEF Inv, ThreadInv, SecondaryInv
  <2> QED
    BY <2>2, <2>3 DEF Caught, App
<1>4. GoesOn(t) /\ at'[t] >= 2 /\ crashes' = crashes
  <2>1. GoesOn(t) /\ crashes' = crashes
    BY <1>0, <1>1, <1>2, <1>3
       DEF Tells, Clears, Readies, GivesUp, Describes, Creates, Completes, Dismantles, Departs, HandlersKept
  <2>2. at[t] \in 1..Length(handler[t]) /\ at[t] >= 2
    BY <2>1, StageFacts DEF GoesOn, Caught
  <2>3. at[t] \in Nat
    BY <2>1, <2>2, StageFacts DEF Length, GoesOn
  <2>4. at'[t] = 3 \/ at'[t] \in {at[t], at[t] + 1, at[t] + 2}
    BY <1>0, <1>1, <1>2, <1>3
       DEF Tells, Clears, Readies, GivesUp, Describes, Creates, Completes, Dismantles, Departs
  <2> QED
    BY <2>1, <2>2, <2>3, <2>4
<1>5. ASSUME NEW u \in Threads
      PROVE  /\ place'[u] # "signalled" /\ (InHandler(u)' => at'[u] >= 2)
             /\ place'[u] = "wait" => place[u] = "wait"
             /\ place'[u] = "faulted" => place[u] = "faulted"
  <2>1. CASE u = t
    BY <1>4, <2>1 DEF GoesOn, InHandler
  <2>2. CASE u # t
    <3>1. place'[u] = place[u] \/ place'[u] = "gone"
      BY <1>0, <2>2 DEF Elsewhere
    <3>2. InHandler(u)' => InHandler(u) /\ at'[u] = at[u]
      BY <2>2, OthersInHandlers
    <3> QED
      BY <3>1, <3>2 DEF Caught
  <2> QED
    BY <2>1, <2>2
<1>6. \A u \in App : u \in Threads
  BY DEF App
<1> QED
  BY <1>0, <1>1, <1>2, <1>3, <1>4, <1>5, <1>6 DEF Caught


(* Nothing becomes whole but by writing, and nobody gets to its way out but *)
(* by that.                                                                *)
LEMMA EarlyStage ==
    ASSUME Inv, LocalsType, FilesType, FileInv, Early, NEW t \in Threads, Effect(t), Tells(t),
           ~Completes(t), Asks(t) => at'[t] = 2
    PROVE  (\A f \in DOMAIN reports' : ~Whole(f)') /\ (\A u \in Threads : ~Late(u)')
<1>0. (\A f \in DOMAIN reports : ~Whole(f)) /\ (\A u \in Threads : ~Late(u)) /\ Elsewhere(t)
  BY DEF Early, Tells
<1>1. ASSUME Creates(t)
      PROVE  /\ at'[t] = at[t] + 1 /\ reports[FileOf].state = "none"
             /\ reports' = [reports EXCEPT ![FileOf].state = "partial"]
  <2>1. Opening(t) /\ ~Writing(t)
    BY <1>1, StageFacts DEF Creates, Opening
  <2>2. FileOf \in DOMAIN reports
    <3>1. 1 \in Paths
      BY DEF Paths
    <3> QED
      BY <3>1 DEF FileOf, FilesType, LocalsType
  <2>3. reports[FileOf].state # "partial"
    BY <2>1, <2>2, OneRecorder DEF FileInv
  <2>4. reports[FileOf].state = "none"
    BY <1>0, <2>2, <2>3 DEF FilesType, Whole
  <2> QED
    BY <1>1, <2>4 DEF Creates
<1>2. \A f \in DOMAIN reports' : ~Whole(f)'
  <2>1. CASE Creates(t)
    <3> SUFFICES ASSUME NEW f \in DOMAIN reports' PROVE reports'[f].state # "whole"
      BY DEF Whole
    <3> DEFINE r == reports[FileOf]
    <3>1. reports' = [reports EXCEPT ![FileOf].state = "partial"]
      BY <1>1, <2>1
    <3>2. f \in DOMAIN reports /\ reports'[f] = IF f = FileOf THEN [r EXCEPT !.state = "partial"] ELSE reports[f]
      BY <3>1
    <3>3. f = FileOf => r = [state |-> r.state, thread |-> r.thread, kind |-> r.kind]
      BY <3>2 DEF FilesType
    <3>4. f = FileOf => [r EXCEPT !.state = "partial"].state = "partial"
      BY <3>3
    <3> QED
      BY <1>0, <3>2, <3>4 DEF Whole
  <2>2. CASE ~Creates(t)
    <3>1. reports' = reports
      BY <2>2 DEF Tells, Strikes, Enters, Ends, Asks, Clears, Readies, GivesUp, Describes, Dismantles, Departs, RecordKept
    <3> QED
      BY <1>0, <3>1 DEF Whole
  <2> QED
    BY <2>1, <2>2
<1>3. \A u \in Threads \ {t} : ~Late(u)'
  BY <1>0, OthersStages
<1>4. ~Late(t)'
  <2> SUFFICES ASSUME InHandler(t)', Late(t)' PROVE FALSE
    BY DEF Late, Removing, Leaving
  <2>0. at'[t] \in {8, 9, 10, 11} /\ (handler'[t] = "mach" => at'[t] # 8)
    BY DEF Late, Removing, Leaving, RemovesAt, LeavesAt
  <2>1. ~Strikes(t) /\ ~Enters(t) /\ ~Asks(t) /\ ~Clears(t)
    BY <2>0 DEF Strikes, Enters, Asks, Clears, InHandler
  <2>2. ~Ends(t)
    BY DEF Ends, InHandler
  <2>3. ~Readies(t)
    BY <2>0 DEF Readies
  <2>4. ~Dismantles(t) /\ ~Departs(t)
    BY <1>0 DEF Dismantles, Departs, Late
  <2>5. ~GivesUp(t)
    BY <2>0 DEF GivesUp, Recrashing, RecrashesAt
  <2>6. ~Describes(t)
    BY <2>0 DEF Describes, Filling, FillsAt
  <2>7. ~Creates(t)
    BY <1>1, <2>0 DEF Creates, Opening, OpensAt, GoesOn
  <2> QED
    BY <2>1, <2>2, <2>3, <2>4, <2>5, <2>6, <2>7 DEF Tells
<1> QED
  BY <1>2, <1>3, <1>4

(* The first report is of a crash that has its signal, or it is written     *)
(* while all others are stopped.                                           *)
LEMMA FirstWhole ==
    ASSUME Inv, crashes \in Nat, Quiet', FilesType, SigInv, FileInv, Early, NEW t \in Threads, Effect(t), Tells(t),
           Completes(t)
    PROVE  Good' \/ Final'
<1>1. /\ GoesOn(t) /\ Writing(t) /\ HandlersKept /\ SignalsKept /\ at'[t] = at[t] + 1
      /\ reports' = [reports EXCEPT ![opened[t]] =
                   [state |-> "whole", thread |-> context.thread, kind |-> context.kind]]
  BY DEF Completes
<1>2. InHandler(t) /\ Holds(t) /\ ~Late(t) /\ Elsewhere(t)
  BY <1>1, StageFacts DEF GoesOn, Tells
<1>3. opened[t] \in DOMAIN reports /\ context.thread = OffendingThread(t)
  BY <1>1 DEF FileInv
<1>4. opened[t] \in DOMAIN reports' /\ reports'[opened[t]].state = "whole"
      /\ reports'[opened[t]].thread = OffendingThread(t)
  BY <1>1, <1>3
<1>5. CASE handler[t] # "ns"
  <2>1. PICK x : x = OffendingThread(t)
    OBVIOUS
  <2>2. signal'[x] # "none"
    BY <1>1, <1>2, <1>5, <2>1, Describers DEF SignalsKept
  <2>3. PICK f \in DOMAIN reports' : reports'[f].state = "whole" /\ reports'[f].thread = x
    BY <1>4, <2>1
  <2> QED
    BY <2>2, <2>3 DEF Good, Whole
<1>6. CASE handler[t] = "ns"
  <2>1. NsDone(t)'
    <3>1. at[t] = 7
      BY <1>1, <1>6 DEF Writing, WritesAt
    <3> QED
      BY <1>1, <1>6, <3>1 DEF GoesOn, NsDone
  <2>2. PICK f \in DOMAIN reports' : reports'[f].state = "whole" /\ reports'[f].thread = t
    BY <1>2, <1>4, <1>6, Describers
  <2>3. Quieted(t)'
    <3> SUFFICES ASSUME NEW u \in Threads \ {t}
                 PROVE  suspended'[u] > 0 \/ place'[u] \in {"gone", "faulted"} \/ (place'[u] = "run" /\ crashes' >= 2)
      BY DEF Quieted
    <3>1. ~Resumes(t)
      BY <1>2, InHandlers DEF Resumes, Late
    <3>2. Still(u)
      BY <1>2 DEF Inv, OrderInv, HoldsInv, Stopped
    <3>3. Still(u)'
      BY <3>1, <3>2, StillKept
    <3>4. ~Leaving(u)'
      BY <1>2, OthersStages DEF Late, Early
    <3>5. ~(place'[u] = "signalled" /\ Removed')
      <4> SUFFICES ASSUME place'[u] = "signalled", Removed' PROVE FALSE
        OBVIOUS
      <4>1. "signal" \notin installed
        BY <1>1 DEF HandlersKept, Removed, AsyncSafe
      <4>2. place[u] = "signalled"
        BY <1>2 DEF Elsewhere, Late
      <4> QED
        BY <4>1, <4>2 DEF Early, Caught
    <3> QED
      BY <3>3, <3>4, <3>5 DEF Still, Harmless
  <2> QED
    BY <2>1, <2>2, <2>3 DEF Final, Whole
<1> QED
  BY <1>5, <1>6

LEMMA EarlyKept ==
    ASSUME Inv, crashes \in Nat, Quiet, Quiet', "signal" \in chosen, LocalsType, FilesType, SigInv, FileInv, Early,
           NEW t \in Threads, Effect(t), Tells(t)
    PROVE  ~Ends(t) /\ (Early' \/ Good' \/ Final')
<1>0. Elsewhere(t) /\ Can(t) /\ ~Late(t) /\ ~Dismantles(t) /\ ~Departs(t)
  BY DEF Tells, Effect, Early, Late, Dismantles, Departs
<1>1. ~Ends(t)
  <2> SUFFICES ASSUME Ends(t) PROVE FALSE
    OBVIOUS
  <2>1. "signal" \in installed
    BY DEF Ends, Early, Caught
  <2>2. t \in App
    BY DEF Ends, SigInv, Inv, ThreadInv, SecondaryInv, App
  <2>3. masked[t] = {}
    BY <2>2 DEF SigInv, InSignal, InHandler, Ends
  <2> QED
    BY <2>1, <2>3 DEF Ends
<1>2. CASE Completes(t)
  BY <1>1, <1>2, FirstWhole
<1>3. CASE Caught /\ ~Completes(t)
  <2>1. Caught' /\ ~Asks(t)
    BY <1>0, <1>3, CaughtKept
  <2>2. (\A f \in DOMAIN reports' : ~Whole(f)') /\ (\A u \in Threads : ~Late(u)')
    BY <1>3, <2>1, EarlyStage
  <2> QED
    BY <1>1, <2>1, <2>2 DEF Early
<1>4. CASE ~Caught /\ ~Completes(t)
  <2>1. /\ "signal" \in installed
        /\ \A u \in Threads : InHandler(u) /\ at[u] > 1 => ~was[u]
        /\ context.handling => \E u \in Threads : InHandler(u) /\ at[u] >= 3
    BY <1>4 DEF Early
  <2>2. installed = chosen /\ chosen \subseteq Sentries
    BY <2>1 DEF Inv, WorldInv, InstalledInv, AsyncSafe
  <2>3. ~GivesUp(t)
    <3> SUFFICES ASSUME GivesUp(t) PROVE FALSE
      OBVIOUS
    <3>1. InHandler(t) /\ was[t] /\ at[t] >= 3
      BY StageFacts DEF GivesUp, GoesOn
    <3>2. at[t] \in Nat
      BY <3>1, StageFacts DEF Length
    <3> QED
      BY <2>1, <3>1, <3>2
  <2>4. installed' = installed
    BY <1>0, <1>1, <1>4, <2>3
       DEF Tells, Strikes, Enters, Asks, Clears, Readies, Describes, Creates, HandlersKept
  <2>5. Asks(t) => at'[t] = 2
    <3> SUFFICES ASSUME Asks(t) PROVE handler[t] \in installed
      BY DEF Asks
    <3>1. InHandler(t)
      BY DEF Asks, GoesOn
    <3>2. CASE t = Primary
      BY <2>2, <3>1, <3>2, InHandlers DEF Inv, ThreadInv, PrimaryInv, InHandler
    <3>3. CASE t \in App
      BY <2>2, <3>1, <3>3 DEF Inv, ThreadInv, AppInv
    <3> QED
      BY <3>1, <3>2, <3>3, InHandlers
  <2>6. (\A f \in DOMAIN reports' : ~Whole(f)') /\ (\A u \in Threads : ~Late(u)')
    BY <1>4, <2>5, EarlyStage
  <2>7. \A u \in Threads \ {t} :
           /\ InHandler(u)' <=> InHandler(u)
           /\ at'[u] = at[u] /\ was'[u] = was[u]
    BY <1>0, <2>4, OthersStages, OthersGoOn DEF Elsewhere
  <2>8. ASSUME Asks(t), context.handling
        PROVE  Caught'
    <3>1. PICK v \in Threads : InHandler(v) /\ at[v] >= 3
      BY <2>1, <2>8
    <3>2. v # t /\ InHandler(t) /\ GoesOn(t) /\ crashes' = crashes /\ at'[t] = 2
      BY <2>5, <2>8, <3>1 DEF Asks, GoesOn, HandlersKept
    <3>3. /\ crashes = 2
          /\ \A u \in Threads : place[u] # "signalled"
          /\ \A u \in Threads \ {t, v} : ~InHandler(u)
          /\ place[Primary] = "wait" => \A u \in App : place[u] # "faulted"
      BY <3>1, <3>2, TwoHandle
    <3>4. \A u \in Threads \ {t} : place'[u] = place[u] \/ place'[u] = "gone"
      BY <1>0 DEF Elsewhere, Late
    <3>5. place'[t] = place[t]
      BY <3>2 DEF GoesOn, InHandler
    <3>6. at[v] \in Nat
      BY <3>1, StageFacts DEF Length
    <3>7. \A u \in Threads : place'[u] # "signalled" /\ (InHandler(u)' => at'[u] >= 2)
      BY <2>7, <3>1, <3>2, <3>3, <3>4, <3>5, <3>6
    <3>8. \A u \in Threads : /\ place'[u] = "wait" => place[u] = "wait"
                             /\ place'[u] = "faulted" => place[u] = "faulted"
      BY <3>4, <3>5
    <3>9. \A u \in App : u \in Threads
      BY DEF App
    <3> QED
      BY <3>2, <3>3, <3>7, <3>8, <3>9 DEF Caught
  <2>9. \A u \in Threads : InHandler(u)' /\ at'[u] > 1 /\ was'[u] => Caught'
    <3> SUFFICES ASSUME InHandler(t)', at'[t] > 1, was'[t] PROVE Caught'
      BY <2>1, <2>7
    <3>1. ~Strikes(t) /\ ~Enters(t)
      BY DEF Strikes, Enters, InHandler
    <3>2. CASE Asks(t)
      BY <2>8, <3>2 DEF Asks
    <3>3. CASE Clears(t)
      BY <2>1, <3>3 DEF Clears, GoesOn
    <3>4. CASE Readies(t) \/ Describes(t) \/ Creates(t)
      <4>1. InHandler(t) /\ at[t] >= 3 /\ was' = was
        BY <3>4, StageFacts DEF Readies, Describes, Creates, GoesOn
      <4>2. at[t] \in Nat
        BY <4>1, StageFacts DEF Length
      <4> QED
        BY <2>1, <4>1, <4>2
    <3> QED
      BY <1>0, <1>1, <1>4, <2>3, <3>1, <3>2, <3>3, <3>4 DEF Tells
  <2>10. context'.handling => Caught' \/ \E u \in Threads : InHandler(u)' /\ at'[u] >= 3
    <3>1. CASE Clears(t)
      BY <3>1 DEF Clears, GoesOn
    <3>2. CASE ~Clears(t)
      <4> SUFFICES ASSUME context'.handling
                   PROVE  \E u \in Threads : InHandler(u)' /\ at'[u] >= 3
        OBVIOUS
      <4>1. context.handling
        BY <1>0, <1>1, <1>4, <2>3, <3>2
           DEF Tells, Strikes, Enters, Asks, Readies, Describes, Creates, RecordKept
      <4>2. PICK v \in Threads : InHandler(v) /\ at[v] >= 3
        BY <2>1, <4>1
      <4>3. CASE v # t
        BY <2>7, <4>2, <4>3
      <4>4. CASE v = t
        <5>1. ~Strikes(t) /\ ~Enters(t) /\ ~Asks(t)
          BY <4>2, <4>4 DEF Strikes, Enters, Asks, InHandler
        <5>2. at[t] \in Nat
          BY <4>2, <4>4, StageFacts DEF Length
        <5>3. InHandler(t)'
          BY <1>0, <1>1, <1>4, <2>3, <3>2, <5>1 DEF Tells, Readies, Describes, Creates, GoesOn
        <5>4. at'[t] >= 3
          <6>1. at'[t] \in {at[t], at[t] + 1, at[t] + 2}
            BY <1>0, <1>1, <1>4, <2>3, <3>2, <5>1 DEF Tells, Readies, Describes, Creates
          <6> QED
            BY <4>2, <4>4, <5>2, <6>1
        <5> QED
          BY <5>3, <5>4
      <4> QED
        BY <4>3, <4>4
    <3> QED
      BY <3>1, <3>2
  <2> QED
    BY <1>1, <2>1, <2>4, <2>6, <2>9, <2>10 DEF Early
<1> QED
  BY <1>2, <1>3, <1>4


LEMMA MildIsQuiet ==
    ASSUME AnyInv, [Next]_vars
    PROVE  faults' \in Nat /\ (Mild' => Mild)
<1>0. faults \in Nat /\ crashes \in Nat /\ calls \in Nat
  BY DEF AnyInv, CountsType
<1>1. Quiet' => Quiet
  BY <1>0, NextIsQuiet
<1>2. CASE UNCHANGED vars
  BY <1>0, <1>1, <1>2 DEF vars, Mild
<1>3. ASSUME NEW t \in Threads, Fault(t)
      PROVE  faults' = faults + 1 /\ chosen' = chosen
  BY <1>3 DEF Fault
<1>4. ASSUME NEW t \in Threads, Crash(t) \/ ReportUserException(t) \/ Step(t)
      PROVE  faults' = faults /\ chosen' = chosen
  BY <1>4 DEF Crash, ReportUserException, Step, Receive, TakeSignal, Read, Begin, SuspendThreads, ResumeThreads,
              Activate, Recrash, UninstallHandlers, Fill, Open, Write, ClearContext, Reinstall, Reply, Raise, Abort
<1> QED
  BY <1>0, <1>1, <1>2, <1>3, <1>4 DEF Next, Mild

LEMMA ReportStep ==
    ASSUME IInv, IInv', faults \in Nat, Mild, Mild', ReportInv, NEW t \in Threads,
           Crash(t) \/ ReportUserException(t) \/ Fault(t) \/ Step(t)
    PROVE  ReportInv'
<1>1. Inv /\ Inv' /\ crashes \in Nat /\ calls \in Nat /\ Quiet /\ Quiet' /\ faults' = 0 /\ "signal" \in chosen
  BY DEF IInv, Mild
<1>2. LocalsType /\ FilesType /\ SigInv /\ LoneInv /\ FileInv /\ RepInv /\ (alive \/ Good)
  BY DEF ReportInv
<1>3. Effect(t) /\ Tells(t)
  BY <1>1, <1>2, Effects, Tellings
<1>4. LocalsType' /\ FilesType'
  BY <1>1, <1>2, <1>3, FilesKept DEF Tells, Elsewhere
<1>5. SigInv' /\ LoneInv' /\ FileInv'
  BY <1>1, <1>2, <1>3, SigKept, LoneKept, FileKept
<1>6. Good' \/ (~Ends(t) /\ RepInv')
  <2>1. CASE Good
    BY <1>1, <1>2, <1>3, <2>1, GoodKept
  <2>2. CASE Early
    BY <1>1, <1>2, <1>3, <2>2, EarlyKept DEF RepInv
  <2>3. CASE Final
    BY <1>1, <1>2, <1>3, <2>3, FinalKept DEF RepInv
  <2> QED
    BY <1>2, <2>1, <2>2, <2>3 DEF RepInv
<1>7. ~Ends(t) => alive'
  BY <1>3 DEF Effect, Can, Tells, Strikes, Enters, Asks, Clears, Readies, GivesUp, Describes, Creates, Completes,
              Dismantles, Departs, HandlersKept
<1> QED
  BY <1>4, <1>5, <1>6, <1>7 DEF ReportInv, RepInv

LEMMA ReportUnmoved ==
    ASSUME ReportInv, UNCHANGED vars
    PROVE  ReportInv'
<1> USE DEF vars, thread
<1>1. /\ \A t : /\ InHandler(t)' <=> InHandler(t)
                /\ Writing(t)' <=> Writing(t)
                /\ Opening(t)' <=> Opening(t)
                /\ Late(t)' <=> Late(t)
                /\ NsDone(t)' <=> NsDone(t)
                /\ InSignal(t)' <=> InSignal(t)
                /\ OffendingThread(t)' = OffendingThread(t)
      /\ Removed' <=> Removed
  BY DEF InHandler, Writing, Opening, Late, Leaving, Removing, NsDone, InSignal, OffendingThread, Removed
<1>2. LocalsType' /\ FilesType' /\ SigInv' /\ LoneInv'
  BY <1>1 DEF ReportInv, LocalsType, FilesType, SigInv, LoneInv
<1>3. FileInv'
  BY <1>1 DEF ReportInv, FileInv, Whole, Trust
<1>4. Good => Good'
  BY DEF Good, Whole
<1>5. Caught' <=> Caught
  BY <1>1 DEF Caught
<1>6. Early => Early'
  BY <1>1, <1>5 DEF Early, Whole
<1>7. Final => Final'
  BY <1>1 DEF Final, Quieted, Whole
<1> QED
  BY <1>2, <1>3, <1>4, <1>6, <1>7 DEF ReportInv, RepInv

LEMMA ReportNext ==
    ASSUME IInv, IInv', AnyInv, Mild => ReportInv, [Next]_vars
    PROVE  Mild' => ReportInv'
<1> SUFFICES ASSUME Mild' PROVE ReportInv'
  OBVIOUS
<1>1. Mild /\ ReportInv /\ faults \in Nat
  BY MildIsQuiet DEF AnyInv, CountsType
<1>2. CASE UNCHANGED vars
  BY <1>1, <1>2, ReportUnmoved
<1>3. ASSUME NEW t \in Threads, Crash(t) \/ ReportUserException(t) \/ Fault(t) \/ Step(t)
      PROVE  ReportInv'
  BY <1>1, <1>3, ReportStep
<1> QED
  BY <1>2, <1>3 DEF Next

LEMMA ReportInit == Init => (Mild => ReportInv)
<1> SUFFICES ASSUME Init, "signal" \in chosen PROVE ReportInv
  BY DEF Mild
<1> USE DEF Init
<1>1. \A t \in Threads : /\ place[t] \in {"run", "wait", "gone"}
                         /\ ~InHandler(t) /\ ~Writing(t) /\ ~Opening(t) /\ ~Late(t) /\ ~InSignal(t)
  BY DEF InHandler, Writing, Opening, Late, Leaving, Removing, InSignal
<1>2. \A f \in DOMAIN reports : reports[f] = NoReport
  OBVIOUS
<1>3. \A f \in DOMAIN reports : reports[f].state = "none"
  BY <1>2 DEF NoReport
<1>4. LocalsType /\ FilesType
  BY <1>2, <1>3 DEF LocalsType, FilesType, NoReport
<1>5. SigInv
  BY <1>1 DEF SigInv, App
<1>6. LoneInv
  BY <1>1 DEF LoneInv, Clear
<1>7. FileInv
  BY <1>1, <1>3 DEF FileInv, Whole
<1>8. Early
  BY <1>1, <1>3 DEF Early, Whole, Clear
<1> QED
  BY <1>4, <1>5, <1>6, <1>7, <1>8 DEF ReportInv, RepInv

(* CrashReported for every number of threads: when one or two crashes of    *)
(* the program have ended the process, the handlers worked and those for    *)
(* signals could be installed, there is a whole report about a thread that  *)
(* crashed, and of a lone crash it is the standard one (kscrash_i_onCrash). *)
THEOREM DeathIsReported == Spec => []CrashReported
<1>1. IInv /\ (Mild => ReportInv) => CrashReported
  <2> SUFFICES ASSUME IInv, Mild => ReportInv,
                      ~alive, crashes \in {1, 2}, faults = 0, calls = 0, "signal" \in chosen
               PROVE  \E f \in DOMAIN reports :
                        /\ reports[f].state = "whole" /\ reports[f].thread \in App
                        /\ signal[reports[f].thread] # "none"
                        /\ crashes = 1 => f[2] = "standard"
    BY DEF CrashReported
  <2>1. ReportInv
    BY DEF Mild
  <2>2. PICK f \in DOMAIN reports : Whole(f) /\ signal[reports[f].thread] # "none"
    BY <2>1 DEF ReportInv, Good
  <2>3. Trust(f)
    BY <2>1, <2>2 DEF ReportInv, FileInv
  <2> QED
    BY <2>2, <2>3 DEF Whole, Trust
<1>2. Init => IInv /\ ReportsInv /\ (Mild => ReportInv)
  BY InitOK, ReportsInit, ReportInit
<1>3. IInv /\ ReportsInv /\ (Mild => ReportInv) /\ [Next]_vars
        => IInv' /\ ReportsInv' /\ (Mild => ReportInv)'
  BY NextOK, ReportsNext, ReportNext DEF ReportsInv
<1> QED
  BY <1>1, <1>2, <1>3, PTL DEF Spec

=============================================================================
