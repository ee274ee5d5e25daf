----------------------------- MODULE CrashSentry -----------------------------
(***************************************************************************)
(* The crash handlers of the recorder: how a crash is trapped, by which    *)
(* thread it is handled, what is suspended meanwhile and which report file *)
(* it ends in (KSCrashSentry.c, KSCrashSentry_MachException.c, _Signal.c,  *)
(* _NSException.m, _User.c, the callback of KSCrashC.c and the threads     *)
(* part of KSMach.c), from the moment everything is installed.             *)
(*                                                                         *)
(* A thread that faults inside a handler faults again; a Mach exception    *)
(* nobody handles becomes a signal, a signal nobody handles is the end of  *)
(* the process: that is the kernel, and external.                          *)
(***************************************************************************)
EXTENDS Naturals, Sequences, FiniteSets, Functions

CONSTANTS Order,      \* all threads, as task_threads lists them
          Primary,    \* g_primaryMachThread
          Secondary,  \* g_secondaryMachThread
          None,
          MaxEvents,  \* bound: crashes outside the handlers and user reports
          MaxFaults   \* bound: crashes inside the handlers

Threads == Range(Order)
App == Threads \ {Primary, Secondary}

ASSUME ThreadsAssumption ==
    /\ Order \in Seq(Threads)
    /\ Primary \in Threads /\ Secondary \in Threads /\ Primary # Secondary
    /\ None \notin Threads
    /\ MaxEvents \in Nat /\ MaxFaults \in Nat

\* task_threads lists every thread once.
ASSUME OnceAssumption == \A i, j \in 1..Len(Order) : Order[i] = Order[j] => i = j

VARIABLES
    alive,
    \* where a thread is: running, waiting at the exception port, in a handler,
    \* stopped by its fault, about to take a signal, gone
    place,
    handler, at, loop,        \* the handler it runs, the step, the index of a loop
    was, client, opened,      \* its locals: wasHandlingCrash, the faulting thread, the file
    signal, masked,           \* the signal to take, the signals it has blocked
    suspended,                \* suspend count of every thread
    running, context, reserved,
    chosen, installed,        \* sentries that could be installed, that still are
    known, ours, port,        \* exception threads, whether the ports are ours, its messages
    path, reports,            \* the current report ID, the files written
    crashes, faults, calls

thread == <<place, handler, at, loop, was, client, opened, signal, masked>>
bounds == <<crashes, faults, calls>>
vars == <<alive, thread, suspended, running, context, reserved, chosen, installed, known,
          ours, port, path, reports, bounds>>

Sentries == {"mach", "signal", "ns", "user"}
AsyncSafe == {"mach", "signal"}

(* What each handler does, step by step.                                   *)
Script ==
    [mach   |-> <<"read", "begin", "suspend", "activate", "recrash", "fill", "open",
                  "write", "uninstall", "resume", "reply">>,
     signal |-> <<"read", "begin", "suspend", "recrash", "fill", "open", "write",
                  "uninstall", "resume", "raise">>,
     ns     |-> <<"read", "begin", "recrash", "suspend", "fill", "open", "write",
                  "uninstall", "abort">>,
     user   |-> <<"begin", "suspend", "fill", "open", "write", "clear", "resume",
                  "reinstall">>,
     fatal  |-> <<"begin", "suspend", "fill", "open", "write", "uninstall", "resume",
                  "abort">>]

Clear == [handling |-> FALSE, recrash |-> FALSE, thread |-> None, kind |-> "none"]
NoReport == [state |-> "none", thread |-> None, kind |-> "none"]
Paths == 1..(MaxEvents + 1)

(* Installations that may fail, and are undone then: a handler the system   *)
(* refuses, a thread or a port that cannot be had.                         *)
MayFail == AsyncSafe

(* What kscrash_install may end up with: the user sentry alone in a         *)
(* debugger, and otherwise all but those whose installation failed.        *)
Installations == {{"user"}} \union {Sentries \ failed : failed \in SUBSET MayFail}

(* The threads that the Mach sentry creates and reserves.                  *)
ExceptionThreads(sentries) == IF "mach" \in sentries THEN {Primary, Secondary} ELSE {}

(* After the installation.  The secondary thread has suspended itself.     *)
Init ==
    /\ alive = TRUE
    /\ chosen \in Installations /\ installed = chosen
    /\ ours = ("mach" \in chosen) /\ port = <<>>
    /\ known = ExceptionThreads(chosen)
    /\ place = [t \in Threads |-> IF t \in App THEN "run"
                                  ELSE IF ours THEN "wait" ELSE "gone"]
    /\ handler = [t \in Threads |-> "none"]
    /\ at = [t \in Threads |-> 1] /\ loop = [t \in Threads |-> 0]
    /\ was = [t \in Threads |-> FALSE] /\ client = [t \in Threads |-> None]
    /\ opened = [t \in Threads |-> <<1, "standard">>]
    /\ signal = [t \in Threads |-> "none"] /\ masked = [t \in Threads |-> {}]
    /\ suspended = [t \in Threads |-> IF t = Secondary /\ ours THEN 1 ELSE 0]
    /\ running = TRUE /\ context = Clear /\ reserved = known
    /\ path = 1 /\ reports = [f \in Paths \X {"standard", "minimal"} |-> NoReport]
    /\ crashes = 0 /\ faults = 0 /\ calls = 0

-----------------------------------------------------------------------------
Can(t) == alive /\ suspended[t] = 0

At(t, step) ==
    Can(t) /\ place[t] = "handler" /\ Script[handler[t]][at[t]] = step

Advance(t) ==
    /\ at' = [at EXCEPT ![t] = @ + 1] /\ loop' = [loop EXCEPT ![t] = 0]
    /\ UNCHANGED <<place, handler>>

Enter(t, h) ==
    /\ place' = [place EXCEPT ![t] = "handler"] /\ handler' = [handler EXCEPT ![t] = h]
    /\ at' = [at EXCEPT ![t] = 1] /\ loop' = [loop EXCEPT ![t] = 0]

Leave(t, where) ==
    /\ place' = [place EXCEPT ![t] = where]
    /\ UNCHANGED <<handler, at, loop>>

(* The kernel on a fault of t: a message to the exception port, or a signal. *)
Trap(t) ==
    /\ signal' = [signal EXCEPT ![t] = "segv"]
    /\ IF ours THEN Leave(t, "faulted") /\ port' = Append(port, t)
       ELSE Leave(t, "signalled") /\ UNCHANGED port

(* Trouble on a thread of the program: a fault, a call of abort or an      *)
(* Objective-C exception that nobody catches.                              *)
Crash(t) ==
    /\ Can(t) /\ place[t] = "run" /\ t \in App /\ crashes + calls < MaxEvents
    /\ crashes' = crashes + 1
    /\ \/ Trap(t)
       \/ /\ signal' = [signal EXCEPT ![t] = "abrt"]
          /\ Leave(t, "signalled") /\ UNCHANGED port
       \/ Enter(t, "ns") /\ "ns" \in installed /\ UNCHANGED <<signal, port>>
    /\ UNCHANGED <<alive, chosen, was, client, opened, masked, suspended, running,
                   context, reserved, installed, known, ours, path, reports, faults, calls>>

(* kscrashsentry_reportUserException, with terminateProgram or without.    *)
ReportUserException(t) ==
    /\ Can(t) /\ place[t] = "run" /\ t \in App /\ crashes + calls < MaxEvents
    /\ "user" \in installed
    /\ calls' = calls + 1
    /\ \E h \in {"user", "fatal"} : Enter(t, h)
    /\ UNCHANGED <<alive, chosen, was, client, opened, signal, masked, suspended, running,
                   context, reserved, installed, known, ours, port, path, reports,
                   crashes, faults>>

(* An exception thread gets a message out of mach_msg.                     *)
Receive(t) ==
    /\ Can(t) /\ place[t] = "wait" /\ port # <<>>
    /\ client' = [client EXCEPT ![t] = Head(port)] /\ port' = Tail(port)
    /\ Enter(t, "mach")
    /\ UNCHANGED <<alive, chosen, was, opened, signal, masked, suspended, running,
                   context, reserved, installed, known, ours, path, reports, bounds>>

(* A signal is delivered: to the handler, or it kills the process.         *)
TakeSignal(t) ==
    /\ Can(t) /\ place[t] = "signalled"
    /\ IF "signal" \in installed /\ signal[t] \notin masked[t]
       THEN /\ Enter(t, "signal")
            /\ masked' = [masked EXCEPT ![t] = @ \union {signal[t]}] /\ UNCHANGED alive
       ELSE alive' = FALSE /\ UNCHANGED <<place, handler, at, loop, masked>>
    /\ UNCHANGED <<chosen, was, client, opened, signal, suspended, running, context,
                   reserved, installed, known, ours, port, path, reports, bounds>>

(* if(g_installed): otherwise straight to the last step.                   *)
Read(t) ==
    /\ At(t, "read")
    /\ IF handler[t] \in installed THEN Advance(t)
       ELSE /\ at' = [at EXCEPT ![t] = Len(Script[handler[t]])]
            /\ UNCHANGED <<place, handler, loop>>
    /\ was' = [was EXCEPT ![t] = context.handling]
    /\ UNCHANGED <<alive, chosen, client, opened, signal, masked, suspended, running,
                   context, reserved, installed, known, ours, port, path, reports, bounds>>

(* kscrashsentry_beginHandlingCrash: the whole context is wiped, also the  *)
(* reserved threads.                                                       *)
Begin(t) ==
    /\ At(t, "begin") /\ Advance(t)
    /\ context' = [Clear EXCEPT !.handling = TRUE] /\ reserved' = {}
    /\ UNCHANGED <<alive, chosen, was, client, opened, signal, masked, suspended, running,
                   installed, known, ours, port, path, reports, bounds>>

\* Mutant: does not spare the calling thread.
MutSpared(t, u) == u \in reserved \/ place[u] = "gone"

Spared(t, u) == u = t \/ u \in reserved \/ place[u] = "gone"

AlreadySuspended(t) == loop[t] = 0 /\ ~running
AlreadyResumed(t) == loop[t] = 0 /\ running

\* Mutant: notes that the threads are suspended before they are.
MutSuspendThreads(t) ==
    /\ At(t, "suspend")
    /\ IF AlreadySuspended(t) \/ loop[t] = Len(Order)
       THEN Advance(t) /\ UNCHANGED suspended
       ELSE LET u == Order[loop[t] + 1] IN
            /\ loop' = [loop EXCEPT ![t] = @ + 1]
            /\ suspended' = IF Spared(t, u) THEN suspended
                            ELSE [suspended EXCEPT ![u] = @ + 1]
            /\ UNCHANGED <<place, handler, at>>
    /\ running' = FALSE
    /\ UNCHANGED <<alive, chosen, was, client, opened, signal, masked, context, reserved,
                   installed, known, ours, port, path, reports, bounds>>

(* kscrashsentry_suspendThreads, one thread_suspend a step.                *)
SuspendThreads(t) ==
    /\ At(t, "suspend")
    /\ IF AlreadySuspended(t) \/ loop[t] = Len(Order)
       THEN /\ Advance(t)
            /\ running' = FALSE /\ UNCHANGED suspended
       ELSE LET u == Order[loop[t] + 1] IN
            /\ loop' = [loop EXCEPT ![t] = @ + 1]
            /\ suspended' = IF Spared(t, u) THEN suspended
                            ELSE [suspended EXCEPT ![u] = @ + 1]
            /\ UNCHANGED <<place, handler, at, running>>
    /\ UNCHANGED <<alive, chosen, was, client, opened, signal, masked, context, reserved,
                   installed, known, ours, port, path, reports, bounds>>

\* Mutant: leaves out the last thread of the list.
MutResumeThreads(t) ==
    /\ At(t, "resume")
    /\ IF AlreadyResumed(t) \/ loop[t] + 1 = Len(Order)
       THEN Advance(t) /\ running' = TRUE /\ UNCHANGED suspended
       ELSE LET u == Order[loop[t] + 1] IN
            /\ loop' = [loop EXCEPT ![t] = @ + 1]
            /\ suspended' = IF Spared(t, u) \/ suspended[u] = 0 THEN suspended
                            ELSE [suspended EXCEPT ![u] = @ - 1]
            /\ UNCHANGED <<place, handler, at, running>>
    /\ UNCHANGED <<alive, chosen, was, client, opened, signal, masked, context, reserved,
                   installed, known, ours, port, path, reports, bounds>>

(* kscrashsentry_resumeThreads, one thread_resume a step.                  *)
ResumeThreads(t) ==
    /\ At(t, "resume")
    /\ IF AlreadyResumed(t) \/ loop[t] = Len(Order)
       THEN /\ Advance(t)
            /\ running' = TRUE /\ UNCHANGED suspended
       ELSE LET u == Order[loop[t] + 1] IN
            /\ loop' = [loop EXCEPT ![t] = @ + 1]
            /\ suspended' = IF Spared(t, u) \/ suspended[u] = 0 THEN suspended
                            ELSE [suspended EXCEPT ![u] = @ - 1]
            /\ UNCHANGED <<place, handler, at, running>>
    /\ UNCHANGED <<alive, chosen, was, client, opened, signal, masked, context, reserved,
                   installed, known, ours, port, path, reports, bounds>>

(* The primary thread wakes the secondary one; when it cannot, and on the  *)
(* secondary thread, the original exception ports are restored.            *)
Activate(t) ==
    /\ At(t, "activate") /\ Advance(t)
    /\ IF t = Primary /\ t \in known /\ suspended[Secondary] > 0
       THEN suspended' = [suspended EXCEPT ![Secondary] = @ - 1] /\ UNCHANGED ours
       ELSE ours' = FALSE /\ UNCHANGED suspended
    /\ UNCHANGED <<alive, chosen, was, client, opened, signal, masked, running, context,
                   reserved, installed, known, port, path, reports, bounds>>

(* kscrashsentry_uninstall.  The exception threads other than the caller   *)
(* are terminated; unless no crash is being handled: then they are         *)
(* cancelled, which mach_msg does not notice.                              *)
Uninstall(t, types) ==
    /\ installed' = installed \ types
    /\ IF "mach" \in types \intersect installed
       THEN LET others == IF context.handling THEN known \ {t} ELSE {} IN
            /\ ours' = FALSE /\ known' = known \intersect {t}
            /\ place' = [u \in Threads |-> IF u \in others THEN "gone" ELSE place[u]]
            /\ suspended' = [u \in Threads |-> IF u \in others THEN 0 ELSE suspended[u]]
       ELSE UNCHANGED <<ours, known, place, suspended>>

\* Mutant: the signal handlers stay.
MutUninstalled(t) == IF handler[t] \in AsyncSafe THEN {"mach"} ELSE Sentries

Uninstalled(t) == IF handler[t] \in AsyncSafe THEN AsyncSafe ELSE Sentries

Recrash(t) ==
    /\ At(t, "recrash")
    /\ at' = [at EXCEPT ![t] = @ + 1]
    /\ IF was[t] THEN /\ context' = [context EXCEPT !.recrash = TRUE]
                      /\ Uninstall(t, Uninstalled(t))
       ELSE UNCHANGED <<context, installed, ours, known, place, suspended>>
    /\ UNCHANGED <<alive, chosen, handler, loop, was, client, opened, signal, masked,
                   running, reserved, port, path, reports, bounds>>

UninstallHandlers(t) ==
    /\ At(t, "uninstall")
    /\ at' = [at EXCEPT ![t] = @ + 1]
    /\ Uninstall(t, Uninstalled(t))
    /\ UNCHANGED <<alive, chosen, handler, loop, was, client, opened, signal, masked,
                   running, context, reserved, port, path, reports, bounds>>

\* Mutant: the thread of a Mach exception is taken to be the handler's own.
MutOffendingThread(t) == t

OffendingThread(t) == IF handler[t] = "mach" THEN client[t] ELSE t

(* The crash is described in the context.                                  *)
Fill(t) ==
    /\ At(t, "fill") /\ Advance(t)
    /\ context' = [context EXCEPT !.thread = OffendingThread(t), !.kind = handler[t]]
    /\ UNCHANGED <<alive, chosen, was, client, opened, signal, masked, suspended, running,
                   reserved, installed, known, ours, port, path, reports, bounds>>

(* kscrash_i_onCrash chooses the report; an existing file is not opened.   *)
Open(t) ==
    LET file == <<path, IF context.recrash THEN "minimal" ELSE "standard">> IN
    /\ At(t, "open")
    /\ IF reports[file].state = "none"
       THEN /\ Advance(t)
            /\ opened' = [opened EXCEPT ![t] = file]
            /\ reports' = [reports EXCEPT ![file].state = "partial"]
       ELSE /\ at' = [at EXCEPT ![t] = @ + 2]
            /\ UNCHANGED <<place, handler, loop, opened, reports>>
    /\ UNCHANGED <<alive, chosen, was, client, signal, masked, suspended, running,
                   context, reserved, installed, known, ours, port, path, bounds>>

Write(t) ==
    /\ At(t, "write") /\ Advance(t)
    /\ reports' = [reports EXCEPT ![opened[t]] =
                     [state |-> "whole", thread |-> context.thread, kind |-> context.kind]]
    /\ UNCHANGED <<alive, chosen, was, client, opened, signal, masked, suspended, running,
                   context, reserved, installed, known, ours, port, path, bounds>>

(* The handler itself faults while it writes.                              *)
Fault(t) ==
    /\ At(t, "open") \/ At(t, "write")
    /\ faults < MaxFaults /\ faults' = faults + 1
    /\ Trap(t)
    /\ UNCHANGED <<alive, chosen, was, client, opened, masked, suspended, running,
                   context, reserved, installed, known, ours, path, reports, crashes,
                   calls>>

(* kscrashsentry_clearContext after a user exception.                      *)
ClearContext(t) ==
    /\ At(t, "clear") /\ Advance(t)
    /\ context' = Clear /\ reserved' = {}
    /\ UNCHANGED <<alive, chosen, was, client, opened, signal, masked, suspended, running,
                   installed, known, ours, port, path, reports, bounds>>

(* kscrash_reinstall: the next report gets a new ID.                       *)
Reinstall(t) ==
    /\ At(t, "reinstall") /\ Leave(t, "run")
    /\ path' = path + 1
    /\ UNCHANGED <<alive, chosen, was, client, opened, signal, masked, suspended, running,
                   context, reserved, installed, known, ours, port, reports, bounds>>

(* The exception thread replies KERN_FAILURE and ends: the kernel turns    *)
(* the fault of its client into a signal.                                  *)
Reply(t) ==
    /\ At(t, "reply")
    /\ place' = [place EXCEPT ![t] = "gone",
                              ![client[t]] = IF @ = "faulted" THEN "signalled" ELSE @]
    /\ UNCHANGED <<alive, chosen, handler, at, loop, was, client, opened, signal, masked,
                   suspended, running, context, reserved, installed, known, ours, port,
                   path, reports, bounds>>

(* raise(sigNum) at the end of the signal handler.                         *)
Raise(t) ==
    /\ At(t, "raise") /\ Leave(t, "signalled")
    /\ masked' = [masked EXCEPT ![t] = @ \ {signal[t]}]
    /\ UNCHANGED <<alive, chosen, was, client, opened, signal, suspended, running,
                   context, reserved, installed, known, ours, port, path, reports, bounds>>

(* abort(), called by the handler or by the runtime behind it.             *)
Abort(t) ==
    /\ At(t, "abort") /\ Leave(t, "signalled")
    /\ signal' = [signal EXCEPT ![t] = "abrt"]
    /\ UNCHANGED <<alive, chosen, was, client, opened, masked, suspended, running,
                   context, reserved, installed, known, ours, port, path, reports, bounds>>

Step(t) ==
    \/ Receive(t) \/ TakeSignal(t) \/ Read(t) \/ Begin(t) \/ SuspendThreads(t)
    \/ ResumeThreads(t) \/ Activate(t) \/ Recrash(t) \/ UninstallHandlers(t) \/ Fill(t)
    \/ Open(t) \/ Write(t) \/ ClearContext(t) \/ Reinstall(t) \/ Reply(t) \/ Raise(t)
    \/ Abort(t)

Next == \E t \in Threads : Crash(t) \/ ReportUserException(t) \/ Fault(t) \/ Step(t)

Spec == Init /\ [][Next]_vars
FairSpec == Spec /\ \A t \in Threads : WF_vars(Step(t))

-----------------------------------------------------------------------------
AtRest == alive /\ \A t \in Threads : place[t] \in {"run", "wait", "gone"}

(* However reports of user exceptions overlap on two threads, and whichever *)
(* of them finds the threads already suspended or already resumed: once    *)
(* all are back, no thread of the program is left suspended                *)
(* (kscrashsentry_suspendThreads, kscrashsentry_resumeThreads).  With      *)
(* three reporting threads this is not so.                                 *)
NobodyLeftSuspended == AtRest /\ calls <= 2 => \A t \in App : suspended[t] = 0

Recording(t) ==
    place[t] = "handler" /\ Script[handler[t]][at[t]] \in {"fill", "open", "write"}

(* While nobody reports by hand, and two threads crash, one at a time fills *)
(* the context and writes from it, wherever the other was stopped          *)
(* (ksmachexc_i_handleExceptions, kssighndl_i_handleSignal,                *)
(* ksnsexc_i_handleException).  With three this is not so: a handler that  *)
(* resumes the threads one by one lets two others go on, which find the    *)
(* threads already suspended as long as it has not come to its end.        *)
RecordsAlone ==
    calls = 0 /\ crashes <= 2 =>
        \A t, u \in Threads : Recording(t) /\ Recording(u) => t = u

(* When one or two crashes of the program have ended the process, the      *)
(* handlers worked and those for signals are installed, there is a whole   *)
(* report about one of the threads that crashed, and of a lone crash it is *)
(* the standard one (kscrash_i_onCrash).  With three this is not so: the   *)
(* second, which comes while the first is handled, removes all handlers,   *)
(* and the signal of the third ends the process before anything is written. *)
CrashReported ==
    ~alive /\ crashes \in {1, 2} /\ faults = 0 /\ calls = 0 /\ "signal" \in chosen =>
        \E f \in DOMAIN reports :
            /\ reports[f].state = "whole" /\ reports[f].thread \in App
            /\ signal[reports[f].thread] # "none"
            /\ crashes = 1 => f[2] = "standard"

Few == crashes + calls <= 2 /\ ("mach" \in chosen => faults = 0)

(* A crash ends the process, also when it comes during a user report or    *)
(* with a second one on another thread: no handler waits for ever, and     *)
(* none runs again and again.  Without the Mach sentry this is so even     *)
(* when the handler itself crashes.                                        *)
CrashDies == crashes > 0 ~> (~alive \/ ~Few)

(* A thread that reports a user exception gets out of it, also when two    *)
(* threads report at the same time (kscrashsentry_reportUserException).    *)
CallReturns ==
    \A t \in App : place[t] = "handler" /\ handler[t] = "user"
                     ~> place[t] # "handler" \/ handler[t] # "user" \/ ~alive \/ ~Few

(* KSCrashSentry.h:65, "Threads reserved by the crash handlers, which must *)
(* not be suspended.": does not hold, the list is wiped before it is used. *)
ReservedNotSuspended == suspended[Primary] = 0
=============================================================================
