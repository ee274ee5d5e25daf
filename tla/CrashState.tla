------------------------------ MODULE CrashState ------------------------------
(***************************************************************************)
(* What the crash reporter knows about launches, sessions and durations,   *)
(* and the file that carries it from one launch to the next: KSCrashState.c *)
(* with the calls that KSCrashC.c and KSCrash.m make of it.  The process   *)
(* may be killed between any two pieces of a save, the file may be one that *)
(* cannot be opened to read or to write, a write may fail, and a crash may  *)
(* come while another one is being noted.                                  *)
(*                                                                         *)
(* A launch here is one that installs the recorder: at its beginning, as    *)
(* its documentation has it, or from a screen, as this application does     *)
(* (WTCrashReportViewController.m:34-42), whenever the screen is visited.   *)
(*                                                                         *)
(* Saves are made on one thread at a time: while a crash is handled every  *)
(* other thread is suspended, and the other saves are on the main thread,  *)
(* where user exceptions are assumed to be reported as well.               *)
(***************************************************************************)
EXTENDS Naturals

CONSTANTS MaxLaunches,  \* bound: launches in one execution
          MaxSessions,  \* bound: sessions in one launch
          MaxCrashes,   \* bound: crashes and user reports in one launch
          MaxEvents     \* bound: ticks of the clock, files that cannot be opened and
                        \* repeated installations in one execution, taken together

BoundsAssumption ==
    /\ MaxLaunches \in Nat
    /\ MaxSessions \in Nat /\ MaxCrashes \in Nat /\ MaxEvents \in Nat

VARIABLES
    \* fields of KSCrash_State
    activeSinceCrash, backSinceCrash, launchesSinceCrash, sessionsSinceCrash,
    activeSinceLaunch, backSinceLaunch, sessionsSinceLaunch,
    crashedLast, crashedThis, transition, isActive, inForeground,
    \* the state file: the values of the last save that opened it and how much
    \* of it was written
    file,
    \* what follows the save in progress, or "no"; whether it opened the file
    saving, writing,
    \* the process and its clock, and how often KSCrash.m observes the application
    alive, lifecycle, now, launches, crashes, observers,
    \* mishaps so far, for their bound
    mishaps,
    \* history: end of the previous launch, whether an exception was reported by
    \* hand in this one, whether it could not read the file or read an old one,
    \* what the file does not know of this launch, whether the counters were cut,
    \* launches and sessions since the last noted crash while they were not, time
    \* active and in background in this launch, where and when the launch began
    lastEnd, reported, misled, behind, tainted, hLaunches, hSessions, hActive, hBack,
    hFirst, hStart

durations == <<activeSinceCrash, backSinceCrash, activeSinceLaunch, backSinceLaunch>>
counters  == <<launchesSinceCrash, sessionsSinceCrash, sessionsSinceLaunch>>
flags     == <<crashedLast, crashedThis>>
position  == <<transition, isActive, inForeground>>
save      == <<file, saving, writing, behind, mishaps>>
process   == <<alive, lifecycle, now, launches, crashes, observers>>
times     == <<hActive, hBack, hFirst, hStart>>
history   == <<lastEnd, reported, misled, tainted, hLaunches, hSessions, times>>
vars == <<durations, counters, flags, position, save, process, history>>

-----------------------------------------------------------------------------
(***************************************************************************)
(* The file.  kscrashstate_i_saveState truncates it and writes one field   *)
(* after the other.  It grows here in pieces, each up to the point from    *)
(* which the decoder reports one field more: the last letter of the        *)
(* Boolean, the first character behind a number.  The durations are printed *)
(* with six digits, which is not modelled: no property reads them from it.  *)
(***************************************************************************)
Field == [crashed |-> 1, active |-> 2, back |-> 3, launches |-> 4, sessions |-> 5]
Pieces == 5

(* What kscrashstate_i_loadState leaves in a field that held `old`: it      *)
(* ignores the result of ksjson_decode's callbacks that came before the    *)
(* data ended, so fields that were decoded stay.  Of a file that it cannot  *)
(* read it leaves all of them.                                             *)
Readable(field, loads) == loads /\ file.n >= Field[field]
Loaded(field, old, loads) == IF Readable(field, loads) THEN file[field] ELSE old

\* What is bounded together: nothing here depends on both the clock and a mishap.
Spend(n) == now + mishaps + n <= MaxEvents /\ mishaps' = mishaps + n

(* A save opens the file and truncates it, or cannot open it and leaves it   *)
(* whole, with what it says of an earlier launch and fails to say of this    *)
(* one (lost).  Whether the load before it had failed counts for the bound. *)
OpenFails(next, lost, failed) ==
    /\ Spend(failed + 1)
    /\ file' = file /\ saving' = next /\ writing' = FALSE /\ behind' = lost

Opened(next, failed) ==
    /\ Spend(failed)
    /\ saving' = next /\ writing' = TRUE /\ behind' = {}

\* Mutant: the two counters under each other's key.
MutStartSave(crashed, active, back, launched, sessions, next, lost, failed) ==
    \/ OpenFails(next, lost, failed)
    \/ /\ Opened(next, failed)
       /\ file' = [n |-> 0, crashed |-> crashed, active |-> active, back |-> back,
                   launches |-> sessions, sessions |-> launched]

StartSave(crashed, active, back, launched, sessions, next, lost, failed) ==
    \/ OpenFails(next, lost, failed)
    \/ /\ Opened(next, failed)
       /\ file' = [n |-> 0, crashed |-> crashed, active |-> active, back |-> back,
                   launches |-> launched, sessions |-> sessions]

(* What a file that stays as it is holds back, or tells again, of a launch   *)
(* that begins: the launch, and the crash of an earlier one.               *)
Untold == {"launch"} \cup (IF Readable("crashed", TRUE) /\ file.crashed THEN {"crash"} ELSE {})

\* Mutant: forgets when the state changed.
MutDuration == now

Duration == now - transition

-----------------------------------------------------------------------------
\* The static context of a process that was not started or is gone.
NoMemory ==
    /\ activeSinceCrash = 0 /\ backSinceCrash = 0
    /\ activeSinceLaunch = 0 /\ backSinceLaunch = 0
    /\ launchesSinceCrash = 0 /\ sessionsSinceCrash = 0 /\ sessionsSinceLaunch = 0
    /\ crashedLast = FALSE /\ crashedThis = FALSE
    /\ transition = 0 /\ isActive = FALSE /\ inForeground = FALSE
    /\ lifecycle = "inactive" /\ crashes = 0 /\ observers = 0
    /\ reported = FALSE /\ misled = FALSE
    /\ hActive = 0 /\ hBack = 0 /\ hFirst = "inactive" /\ hStart = 0

Init ==
    /\ NoMemory
    /\ file = [n |-> 0, crashed |-> FALSE, active |-> 0, back |-> 0,
               launches |-> 0, sessions |-> 0]
    /\ saving = "no" /\ writing = FALSE /\ behind = {} /\ mishaps = 0
    /\ alive = FALSE /\ now = 0 /\ launches = 0
    /\ lastEnd = "first" /\ tainted = FALSE /\ hLaunches = 0 /\ hSessions = 0

(* Mutant: initializes without saving. *)
MutInitState(active, back, launched, sessions, crashed, loads) ==
    LET c == Loaded("crashed", crashed, loads)
        Kept(field, old) == IF c THEN 0 ELSE Loaded(field, old, loads)
    IN  /\ sessionsSinceLaunch' = 1 /\ activeSinceLaunch' = 0 /\ backSinceLaunch' = 0
        /\ crashedLast' = c /\ crashedThis' = FALSE
        /\ activeSinceCrash' = Kept("active", active)
        /\ backSinceCrash' = Kept("back", back)
        /\ launchesSinceCrash' = Kept("launches", launched) + 1
        /\ sessionsSinceCrash' = Kept("sessions", sessions) + 1
        /\ inForeground' = TRUE
        /\ saving' = "no" /\ writing' = FALSE /\ behind' = {} /\ UNCHANGED file
        /\ Spend(IF loads THEN 0 ELSE 1)

(* kscrashstate_init over the fields that were in memory: load, reset after a *)
(* crash, simulate the first transition to the foreground, save.  Without   *)
(* the save the file does not know of the launch, and may still tell of the  *)
(* crash of an earlier one.                                                *)
InitState(active, back, launched, sessions, crashed, loads) ==
    LET c == Loaded("crashed", crashed, loads)
        Kept(field, old) == IF c THEN 0 ELSE Loaded(field, old, loads)
    IN  /\ sessionsSinceLaunch' = 1
        /\ activeSinceLaunch' = 0
        /\ backSinceLaunch' = 0
        /\ crashedLast' = c
        /\ crashedThis' = FALSE
        /\ activeSinceCrash' = Kept("active", active)
        /\ backSinceCrash' = Kept("back", back)
        /\ launchesSinceCrash' = Kept("launches", launched) + 1
        /\ sessionsSinceCrash' = Kept("sessions", sessions) + 1
        /\ inForeground' = TRUE
        /\ StartSave(FALSE, activeSinceCrash', backSinceCrash', launchesSinceCrash',
                     sessionsSinceCrash', "keep", Untold, IF loads THEN 0 ELSE 1)

\* To fail to read an empty file makes no difference.
Loads == {TRUE, file.n = 0}

\* The history goes on with `count`, anew after a noted crash, not at all once tainted.
Counting(count) == IF tainted' THEN 0 ELSE IF lastEnd = "crash" THEN 1 ELSE count + 1

(* kscrash_install in a process whose static context is all zero: active    *)
(* when a screen installs, although the context says that it is not.        *)
Launch ==
    /\ ~alive /\ launches < MaxLaunches
    /\ alive' = TRUE /\ launches' = launches + 1 /\ crashes' = 0 /\ observers' = 1
    /\ lifecycle' \in {"inactive", "background", "active"}
    /\ transition' = 0 /\ isActive' = FALSE
    /\ \E loads \in Loads :
          /\ InitState(0, 0, 0, 0, FALSE, loads)
          /\ misled' = ("crash" \in behind \/ ~loads)
          /\ tainted' = (lastEnd # "crash" /\ (tainted \/ ~loads))
    /\ reported' = FALSE
    /\ hLaunches' = Counting(hLaunches)
    /\ hSessions' = Counting(hSessions)
    /\ hActive' = 0 /\ hBack' = 0 /\ hFirst' = lifecycle' /\ hStart' = now
    /\ UNCHANGED <<now, lastEnd>>

Idle == alive /\ saving = "no"

(* The screen is visited again: KSCrash.m adds its observers once more,     *)
(* although kscrash_install did nothing.  Each of them makes every call     *)
(* below; the saves they make are the same and taken for one.               *)
InstallAgain ==
    /\ Idle /\ lifecycle = "active" /\ Spend(1)
    /\ observers' = observers + 1
    /\ UNCHANGED <<durations, counters, flags, position, file, saving, writing, behind, alive,
                   lifecycle, now, launches, crashes, history>>

(* kscrashstate_notifyAppActive(true) at applicationDidBecomeActive.       *)
BecomeActive ==
    /\ Idle /\ lifecycle = "inactive"
    /\ lifecycle' = "active" /\ isActive' = TRUE /\ transition' = now
    /\ UNCHANGED <<durations, counters, flags, inForeground, save, alive, now, launches,
                   crashes, observers, history>>

(* kscrashstate_notifyAppActive(false) at applicationWillResignActive.     *)
ResignActive ==
    /\ Idle /\ lifecycle = "active"
    /\ lifecycle' = "inactive" /\ isActive' = FALSE
    /\ activeSinceLaunch' = activeSinceLaunch + observers * Duration
    /\ activeSinceCrash' = activeSinceCrash + observers * Duration
    /\ UNCHANGED <<backSinceCrash, backSinceLaunch, counters, flags, transition, inForeground,
                   save, alive, now, launches, crashes, observers, history>>

(* kscrashstate_notifyAppInForeground(false) at applicationDidEnterBackground. *)
EnterBackground ==
    /\ Idle /\ lifecycle = "inactive"
    /\ lifecycle' = "background" /\ inForeground' = FALSE /\ transition' = now
    /\ StartSave(crashedThis, activeSinceCrash, backSinceCrash,
                 launchesSinceCrash, sessionsSinceCrash, "keep", behind, 0)
    /\ UNCHANGED <<durations, counters, flags, isActive, alive, now, launches, crashes,
                   observers, history>>

(* kscrashstate_notifyAppInForeground(true) at applicationWillEnterForeground. *)
EnterForeground ==
    /\ Idle /\ lifecycle = "background" /\ sessionsSinceLaunch < MaxSessions
    /\ lifecycle' = "inactive" /\ inForeground' = TRUE
    /\ backSinceLaunch' = backSinceLaunch + observers * Duration
    /\ backSinceCrash' = backSinceCrash + observers * Duration
    /\ sessionsSinceCrash' = sessionsSinceCrash + observers
    /\ sessionsSinceLaunch' = sessionsSinceLaunch + observers
    /\ hSessions' = hSessions + 1
    /\ tainted' = (tainted \/ observers > 1)
    /\ UNCHANGED <<activeSinceCrash, activeSinceLaunch, launchesSinceCrash, flags, transition,
                   isActive, save, alive, now, launches, crashes, observers, lastEnd, reported,
                   misled, hLaunches, times>>

(* kscrashstate_notifyAppTerminate at applicationWillTerminate.            *)
Terminate ==
    /\ Idle /\ lifecycle # "active"
    /\ backSinceCrash' = backSinceCrash + observers * Duration
    /\ StartSave(crashedThis, activeSinceCrash, backSinceCrash',
                 launchesSinceCrash, sessionsSinceCrash, "die", behind, 0)
    /\ UNCHANGED <<activeSinceCrash, activeSinceLaunch, backSinceLaunch, counters,
                   flags, position, process, history>>

(* kscrashstate_notifyAppCrash, then whatever the handler does `next`.     *)
NotifyCrash(next) ==
    LET active == IF isActive THEN Duration ELSE 0
        back == IF ~isActive /\ ~inForeground THEN Duration ELSE 0
    IN  /\ crashes < MaxCrashes
        /\ crashes' = crashes + 1
        /\ activeSinceLaunch' = activeSinceLaunch + active
        /\ activeSinceCrash' = activeSinceCrash + active
        /\ backSinceLaunch' = backSinceLaunch + back
        /\ backSinceCrash' = backSinceCrash + back
        /\ crashedThis' = TRUE
        /\ StartSave(TRUE, activeSinceCrash', backSinceCrash',
                     launchesSinceCrash, sessionsSinceCrash, next, behind, 0)
        /\ UNCHANGED <<counters, crashedLast, position, alive, lifecycle, now, launches,
                       observers>>

(* A fatal crash on any thread, at any time: also in the middle of a save  *)
(* and while an earlier crash is being noted.                              *)
FatalCrash == alive /\ NotifyCrash("die") /\ UNCHANGED history

(* kscrash_reportUserException without termination: the exception is noted *)
(* as a crash, and reportUserException of KSCrash.m reinstalls.            *)
ReportUserException ==
    /\ Idle
    /\ NotifyCrash("reinit")
    /\ reported' = TRUE /\ tainted' = TRUE
    /\ UNCHANGED <<lastEnd, misled, hLaunches, hSessions, times>>

-----------------------------------------------------------------------------
MemoryIsGone ==
    /\ activeSinceCrash' = 0 /\ backSinceCrash' = 0
    /\ activeSinceLaunch' = 0 /\ backSinceLaunch' = 0
    /\ launchesSinceCrash' = 0 /\ sessionsSinceCrash' = 0 /\ sessionsSinceLaunch' = 0
    /\ crashedLast' = FALSE /\ crashedThis' = FALSE
    /\ transition' = 0 /\ isActive' = FALSE /\ inForeground' = FALSE
    /\ lifecycle' = "inactive" /\ crashes' = 0 /\ observers' = 0
    /\ reported' = FALSE /\ misled' = FALSE
    /\ hActive' = 0 /\ hBack' = 0 /\ hFirst' = "inactive" /\ hStart' = 0

(* A crash is noted when its flag is in the file.  Counters are carried on  *)
(* by a whole file that knows of the launch.                               *)
Die ==
    /\ alive' = FALSE
    /\ saving' = "no" /\ writing' = FALSE /\ UNCHANGED <<behind, mishaps>>
    /\ lastEnd' = IF ~crashedThis THEN "quiet"
                  ELSE IF file'.n >= Field["crashed"] /\ file'.crashed THEN "crash"
                  ELSE "unnoted"
    /\ tainted' = (tainted \/ file'.n # Pieces \/ "launch" \in behind)
    /\ MemoryIsGone
    /\ UNCHANGED <<now, launches, hLaunches, hSessions>>

(* What comes after a save, whether it succeeded or not.                   *)
AfterSave ==
    \/ /\ saving = "keep" /\ saving' = "no" /\ writing' = FALSE
       /\ UNCHANGED <<durations, counters, flags, position, process, behind, mishaps, history>>
    \/ saving = "die" /\ Die

(* One more piece of the save reaches the file.                            *)
WritePiece ==
    /\ alive /\ saving # "no" /\ writing /\ file.n < Pieces
    /\ file' = [file EXCEPT !.n = @ + 1]
    /\ IF file.n + 1 = Pieces /\ saving # "reinit" THEN AfterSave
       ELSE UNCHANGED <<durations, counters, flags, position, saving, writing, behind, mishaps,
                        process, history>>

(* The file was not opened, or a write fails: the rest of the fields is      *)
(* skipped and the file closed.                                            *)
SaveFails ==
    /\ alive /\ saving \in {"keep", "die"} /\ (writing => file.n < Pieces)
    /\ file' = file
    /\ AfterSave

(* kscrash_reinstall after a user exception, whose save succeeded or not.  *)
Reinstall ==
    /\ alive /\ saving = "reinit"
    /\ \E loads \in Loads :
          InitState(activeSinceCrash, backSinceCrash, launchesSinceCrash,
                    sessionsSinceCrash, crashedLast, loads)
    /\ UNCHANGED <<transition, isActive, process, history>>

(* The system kills the process, which is told nothing.                    *)
Kill == alive /\ file' = file /\ Die

(* Time passes, in a launch or between two; a save is short and takes none   *)
(* of it.                                                                  *)
Tick ==
    /\ now + mishaps < MaxEvents /\ saving = "no"
    /\ now' = now + 1
    /\ hActive' = IF lifecycle = "active" THEN hActive + 1 ELSE hActive
    /\ hBack' = IF lifecycle = "background" THEN hBack + 1 ELSE hBack
    /\ UNCHANGED <<durations, counters, flags, position, save, alive, lifecycle, launches,
                   crashes, observers, lastEnd, reported, misled, tainted, hLaunches, hSessions,
                   hFirst, hStart>>

Next ==
    \/ Launch \/ InstallAgain \/ BecomeActive \/ ResignActive \/ EnterBackground \/ EnterForeground
    \/ Terminate \/ FatalCrash \/ ReportUserException
    \/ WritePiece \/ SaveFails \/ Reinstall \/ Kill \/ Tick

Spec == Init /\ [][Next]_vars

-----------------------------------------------------------------------------
(* While nobody reports exceptions by hand, crashedLast says exactly how the *)
(* previous launch ended, whatever save was cut or failed in this one or the *)
(* other (kscrashstate_init, kscrashstate_i_saveState); except in a launch   *)
(* that cannot read the file, and in one behind a launch that never opened   *)
(* it to write, when it still tells of a crash before that launch            *)
(* (KSCrashState.c:199-214, 256-262).                                       *)
CrashedLastMeansCrash ==
    alive /\ ~reported /\ ~misled => (crashedLast <=> lastEnd = "crash")

(* The launches are counted exactly, unless since the last noted crash a     *)
(* process died with its file half written, or with one that it never opened *)
(* to write, one could not read the file, or an exception was reported by    *)
(* hand.  A session that ended by a kill in the foreground or with a failed  *)
(* save may be lost; none is invented, unless the recorder was installed     *)
(* more than once.                                                         *)
CountersTrue ==
    alive /\ ~tainted =>
        /\ launchesSinceCrash = hLaunches
        /\ hLaunches <= sessionsSinceCrash /\ sessionsSinceCrash <= hSessions

(* The durations since launch are the time that was spent, each period        *)
(* counted once, at its end, while the recorder was installed once.  To a    *)
(* launch that began active, as in this application, or in the background    *)
(* all the time before it is added, back to the zero of the clock, because   *)
(* no transition was seen (KSCrashState.c:369-372, 384-387).                 *)
BeforeIt(place) == IF hFirst = place THEN hStart ELSE 0
TimesTrue ==
    alive /\ ~reported /\ ~crashedThis /\ observers = 1 =>
        /\ lifecycle # "active" => activeSinceLaunch = hActive + BeforeIt("active")
        /\ lifecycle # "background" => backSinceLaunch = hBack + BeforeIt("background")
=============================================================================
