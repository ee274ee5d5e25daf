--------------------------- MODULE CrashStateProofs ---------------------------
(* What CrashState promises of the next launch, for every number of launches, *)
(* sessions, crashes, installations and files that cannot be opened, and     *)
(* every clock.  All three promises speak of what is in memory while the     *)
(* process lives; what carries them over its death is an agreement between   *)
(* memory and file (Noted, Counted), whatever piece the save has come to,    *)
(* and an account of what a file that was never opened holds back (behind). *)
EXTENDS CrashState, Integers, TLAPS

(* The file is a record of these fields at any time. *)
FileType ==
    /\ file = [n |-> file.n, crashed |-> file.crashed, active |-> file.active,
               back |-> file.back, launches |-> file.launches, sessions |-> file.sessions]
    /\ file.n \in Nat /\ file.crashed \in BOOLEAN
    /\ file.launches \in Int /\ file.sessions \in Int

FlagType ==
    /\ alive \in BOOLEAN /\ crashedLast \in BOOLEAN /\ crashedThis \in BOOLEAN
    /\ writing \in BOOLEAN
    /\ reported \in BOOLEAN /\ misled \in BOOLEAN /\ tainted \in BOOLEAN

NumberType ==
    /\ now \in Int /\ transition \in Int /\ hStart \in Int /\ observers \in Nat
    /\ activeSinceLaunch \in Int /\ backSinceLaunch \in Int /\ hActive \in Int /\ hBack \in Int
    /\ launchesSinceCrash \in Int /\ sessionsSinceCrash \in Int
    /\ hLaunches \in Int /\ hSessions \in Int

(* An exception that was reported by hand leaves its marks before the state *)
(* is initialized again; a file that still tells of an earlier crash was not *)
(* opened in this launch.                                                   *)
Marked ==
    /\ saving = "reinit" => reported /\ tainted
    /\ alive => observers >= 1
    /\ ~alive => saving = "no" /\ ~reported
    /\ "crash" \in behind => "launch" \in behind

(* What the file says of a crash is said of this launch, unless it was left  *)
(* from an earlier one; of a dead process the file alone tells how it ended. *)
Noted ==
    /\ alive /\ "crash" \notin behind /\ file.crashed /\ (writing \/ file.n >= 1) => crashedThis
    /\ ~alive /\ lastEnd = "crash" => file.n >= 1 /\ file.crashed
    /\ ~alive /\ "crash" \notin behind /\ file.n >= 1 /\ file.crashed => lastEnd = "crash"
    /\ alive /\ ~reported /\ ~misled => (crashedLast <=> lastEnd = "crash")

(* The counters in memory, in the file and in truth.  The file may be one   *)
(* session behind for every session that was not saved.                     *)
Counted ==
    /\ alive /\ ~tainted =>
         /\ launchesSinceCrash = hLaunches
         /\ hLaunches <= sessionsSinceCrash /\ sessionsSinceCrash <= hSessions
         /\ "launch" \notin behind =>
              /\ file.launches = hLaunches
              /\ hLaunches <= file.sessions /\ file.sessions <= sessionsSinceCrash
    /\ ~alive /\ ~tainted /\ lastEnd # "crash" =>
         \/ file.n = 0 /\ hLaunches = 0 /\ hSessions = 0
         \/ /\ file.n = Pieces /\ ~file.crashed
            /\ file.launches = hLaunches
            /\ hLaunches <= file.sessions /\ file.sessions <= hSessions

(* In a period the time since the transition is still to be added, and with *)
(* it, where the launch began, the time before the launch.                  *)
Since(place) == IF lifecycle = place THEN now - transition ELSE 0
Timed ==
    alive /\ ~reported /\ ~crashedThis /\ observers = 1 =>
        /\ activeSinceLaunch + Since("active") = hActive + BeforeIt("active")
        /\ backSinceLaunch + Since("background") = hBack + BeforeIt("background")

StateType == FlagType /\ NumberType

IInv == FileType /\ StateType /\ Marked /\ Noted /\ Counted /\ Timed

LEMMA InitIInv == Init => IInv
<1> SUFFICES ASSUME Init PROVE IInv
  OBVIOUS
<1>1. FileType BY DEF Init, FileType
<1>2. StateType
  <2>1. FlagType BY Zenon DEF Init, NoMemory, FlagType
  <2>2. NumberType BY DEF Init, NoMemory, NumberType
  <2> QED BY <2>1, <2>2 DEF StateType
<1>3. Marked /\ Noted /\ Counted /\ Timed BY DEF Init, NoMemory, Marked, Noted, Counted, Timed
<1> QED BY <1>1, <1>2, <1>3 DEF IInv

\* One more piece in the file, or none, changes no value in it.
FileGrows ==
    \/ file' = file
    \/ writing /\ file' = [file EXCEPT !.n = @ + 1]

LEMMA FileStays == file' = file => FileGrows
BY Zenon DEF FileGrows

LEMMA FileKept ==
    ASSUME FileType, FileGrows
    PROVE  /\ FileType' /\ file'.n \in {file.n, file.n + 1} /\ file'.crashed = file.crashed
           /\ file'.launches = file.launches /\ file'.sessions = file.sessions
           /\ (~writing => file'.n = file.n)
BY DEF FileType, FileGrows

\* A process that dies by a kill or behind the last piece of a save.
LEMMA DieKeeps ==
    ASSUME IInv, alive, Die, FileGrows
    PROVE  IInv'
<1>1. /\ FileType' /\ file'.crashed = file.crashed
      /\ file'.launches = file.launches /\ file'.sessions = file.sessions
      /\ file'.n \in {file.n, file.n + 1} /\ (~writing => file'.n = file.n)
  BY FileKept DEF IInv
<1>2. StateType'
  <2>1. FlagType' BY Zenon DEF FlagType, Die, MemoryIsGone
  <2>2. NumberType' BY DEF IInv, StateType, NumberType, Die, MemoryIsGone
  <2> QED BY <2>1, <2>2 DEF StateType
<1>3. Marked' /\ Timed' BY DEF Marked, Timed, Die, MemoryIsGone, IInv
<1>4. ~alive' /\ behind' = behind /\ lastEnd' = (IF ~crashedThis THEN "quiet"
                  ELSE IF file'.n >= 1 /\ file'.crashed THEN "crash" ELSE "unnoted")
  BY DEF Die, Field
<1>5. "crash" \notin behind /\ file'.n >= 1 /\ file'.crashed => crashedThis
  BY <1>1 DEF IInv, Noted, FileType
<1>6. Noted' BY <1>1, <1>4, <1>5 DEF FileType, Noted
<1>7. Counted'
  <2> SUFFICES ASSUME ~tainted', lastEnd' # "crash" PROVE /\ file'.n = Pieces /\ ~file'.crashed
                   /\ file'.launches = hLaunches' /\ hLaunches' <= file'.sessions
                   /\ file'.sessions <= hSessions'
    BY <1>4 DEF Counted
  <2>1. ~tainted /\ file'.n = Pieces /\ "launch" \notin behind BY DEF Die
  <2>2. ~file'.crashed BY <1>4, <1>5, <2>1 DEF Pieces, IInv, Marked
  <2> QED BY <1>1, <2>1, <2>2 DEF IInv, FileType, StateType, NumberType, Counted, Die
<1> QED BY <1>1, <1>2, <1>3, <1>6, <1>7 DEF IInv

\* A save that could not open the file leaves it; one that could says it all.
LEMMA SaveStarts ==
    ASSUME FileType, NEW crashed \in BOOLEAN, NEW active, NEW back, NEW launched \in Int,
           NEW sessions \in Int, NEW next, NEW lost, NEW failed,
           StartSave(crashed, active, back, launched, sessions, next, lost, failed)
    PROVE  /\ saving' = next /\ writing' \in BOOLEAN /\ FileType'
           /\ \/ file' = file /\ writing' = FALSE /\ behind' = lost
              \/ /\ behind' = {} /\ writing' = TRUE /\ file'.crashed = crashed
                 /\ file'.launches = launched /\ file'.sessions = sessions
<1>1. CASE OpenFails(next, lost, failed) BY <1>1 DEF OpenFails, FileType
<1>2. CASE Opened(next, failed) /\ file' = [n |-> 0, crashed |-> crashed, active |-> active,
                back |-> back, launches |-> launched, sessions |-> sessions]
  BY <1>2 DEF Opened, FileType
<1> QED BY <1>1, <1>2, Zenon DEF StartSave

\* What kscrashstate_init makes of a file that was cut anywhere, or not loaded.
Initialized(launched, sessions, crashed, loads) ==
    LET c == Loaded("crashed", crashed, loads) IN
    /\ c \in BOOLEAN /\ crashedLast' = c /\ crashedThis' = FALSE
    /\ c = IF loads /\ file.n >= 1 THEN file.crashed ELSE crashed
    /\ activeSinceLaunch' = 0 /\ backSinceLaunch' = 0
    /\ launchesSinceCrash' = 1 + (IF c THEN 0 ELSE IF loads /\ file.n >= 4 THEN file.launches
                                  ELSE launched)
    /\ sessionsSinceCrash' = 1 + (IF c THEN 0 ELSE IF loads /\ file.n >= 5 THEN file.sessions
                                  ELSE sessions)
    /\ launchesSinceCrash' \in Int /\ sessionsSinceCrash' \in Int
    /\ saving' = "keep" /\ writing' \in BOOLEAN /\ FileType'
    /\ \/ /\ file' = file /\ writing' = FALSE /\ "launch" \in behind'
          /\ (file.n >= 1 /\ file.crashed => "crash" \in behind')
       \/ /\ behind' = {} /\ file'.crashed = FALSE
          /\ file'.launches = launchesSinceCrash' /\ file'.sessions = sessionsSinceCrash'

LEMMA InitStateEffect ==
    ASSUME FileType, NEW active, NEW back, NEW launched \in Int, NEW sessions \in Int,
           NEW crashed \in BOOLEAN, NEW loads \in BOOLEAN,
           InitState(active, back, launched, sessions, crashed, loads)
    PROVE  Initialized(launched, sessions, crashed, loads)
<1> DEFINE c == Loaded("crashed", crashed, loads)
<1>1. c = IF loads /\ file.n >= 1 THEN file.crashed ELSE crashed
  BY DEF Loaded, Readable, Field
<1>2. c \in BOOLEAN BY <1>1, Zenon DEF FileType
<1>3. /\ crashedLast' = c /\ crashedThis' = FALSE
      /\ activeSinceLaunch' = 0 /\ backSinceLaunch' = 0
  BY Zenon DEF InitState
<1>4. /\ launchesSinceCrash' = (IF c THEN 0 ELSE Loaded("launches", launched, loads)) + 1
      /\ sessionsSinceCrash' = (IF c THEN 0 ELSE Loaded("sessions", sessions, loads)) + 1
  BY Zenon DEF InitState
<1>5. /\ Loaded("launches", launched, loads) = IF loads /\ file.n >= 4 THEN file.launches
                                               ELSE launched
      /\ Loaded("sessions", sessions, loads) = IF loads /\ file.n >= 5 THEN file.sessions
                                               ELSE sessions
  BY DEF Loaded, Readable, Field
<1> HIDE DEF c
<1>6. /\ launchesSinceCrash' = 1 + (IF c THEN 0 ELSE IF loads /\ file.n >= 4 THEN file.launches
                                    ELSE launched)
      /\ sessionsSinceCrash' = 1 + (IF c THEN 0 ELSE IF loads /\ file.n >= 5 THEN file.sessions
                                    ELSE sessions)
      /\ launchesSinceCrash' \in Int /\ sessionsSinceCrash' \in Int
  BY <1>2, <1>4, <1>5 DEF FileType
<1>7. StartSave(FALSE, activeSinceCrash', backSinceCrash', launchesSinceCrash',
                sessionsSinceCrash', "keep", Untold, IF loads THEN 0 ELSE 1)
  BY Zenon DEF InitState
<1>8. /\ saving' = "keep" /\ writing' \in BOOLEAN /\ FileType'
      /\ \/ /\ file' = file /\ writing' = FALSE /\ "launch" \in behind'
            /\ (file.n >= 1 /\ file.crashed => "crash" \in behind')
         \/ /\ behind' = {} /\ file'.crashed = FALSE
            /\ file'.launches = launchesSinceCrash' /\ file'.sessions = sessionsSinceCrash'
  <2>1. "launch" \in Untold /\ (file.n >= 1 /\ file.crashed => "crash" \in Untold)
    BY DEF Untold, Readable, Field
  <2>2. FALSE \in BOOLEAN OBVIOUS
  <2> QED BY <1>6, <1>7, <2>1, <2>2, SaveStarts, Zenon
<1> QED BY <1>1, <1>2, <1>3, <1>6, <1>8, Zenon DEF c, Initialized

LEMMA LaunchKeeps ==
    ASSUME IInv, Launch
    PROVE  IInv'
<1> PICK loads \in BOOLEAN :
           /\ InitState(0, 0, 0, 0, FALSE, loads)
           /\ misled' = ("crash" \in behind \/ ~loads)
           /\ tainted' = (lastEnd # "crash" /\ (tainted \/ ~loads))
  BY DEF Launch, Loads
<1> DEFINE c == Loaded("crashed", FALSE, loads)
<1>1. /\ c \in BOOLEAN /\ crashedLast' = c /\ crashedThis' = FALSE
      /\ c = IF loads /\ file.n >= 1 THEN file.crashed ELSE FALSE
      /\ activeSinceLaunch' = 0 /\ backSinceLaunch' = 0
      /\ launchesSinceCrash' = 1 + (IF c THEN 0 ELSE IF loads /\ file.n >= 4 THEN file.launches
                                    ELSE 0)
      /\ sessionsSinceCrash' = 1 + (IF c THEN 0 ELSE IF loads /\ file.n >= 5 THEN file.sessions
                                    ELSE 0)
      /\ launchesSinceCrash' \in Int /\ sessionsSinceCrash' \in Int
      /\ saving' = "keep" /\ writing' \in BOOLEAN /\ FileType'
      /\ \/ /\ file' = file /\ writing' = FALSE /\ "launch" \in behind'
            /\ (file.n >= 1 /\ file.crashed => "crash" \in behind')
         \/ /\ behind' = {} /\ file'.crashed = FALSE
            /\ file'.launches = launchesSinceCrash' /\ file'.sessions = sessionsSinceCrash'
  <2>1. FileType BY Zenon DEF IInv
  <2>2. 0 \in Int /\ FALSE \in BOOLEAN OBVIOUS
  <2>3. Initialized(0, 0, FALSE, loads) BY <2>1, <2>2, InitStateEffect, Zenon
  <2> QED BY <2>3, Zenon DEF Initialized
<1> HIDE DEF c
<1>2. /\ ~alive /\ alive' = TRUE /\ transition' = 0 /\ observers' = 1 /\ reported' = FALSE
      /\ hActive' = 0 /\ hBack' = 0 /\ hFirst' = lifecycle' /\ hStart' = now
      /\ hLaunches' = IF tainted' THEN 0 ELSE IF lastEnd = "crash" THEN 1 ELSE hLaunches + 1
      /\ hSessions' = IF tainted' THEN 0 ELSE IF lastEnd = "crash" THEN 1 ELSE hSessions + 1
      /\ UNCHANGED <<now, lastEnd>>
  BY Zenon DEF Launch, Counting
<1>3. FlagType'
  <2>1. misled' \in BOOLEAN /\ tainted' \in BOOLEAN OBVIOUS
  <2> QED BY <1>1, <1>2, <2>1, Zenon DEF FlagType
<1>4. NumberType'
  BY <1>1, <1>2 DEF NumberType, IInv, StateType, FileType
<1>5. c = (loads /\ file.n >= 1 /\ file.crashed)
  BY <1>1, Zenon DEF IInv, FileType
<1>6. ~misled' => (c <=> lastEnd = "crash")
  BY <1>2, <1>5, Zenon DEF IInv, Noted
<1>7. Noted'
  <2>1. alive' /\ ~reported' BY <1>2
  <2>2. "crash" \notin behind' /\ file'.crashed => ~(writing' \/ file'.n >= 1)
    BY <1>1
  <2>3. ~misled' => (crashedLast' <=> lastEnd' = "crash") BY <1>1, <1>2, <1>6, Zenon
  <2> QED BY <2>1, <2>2, <2>3, Zenon DEF Noted
<1>8. Counted'
  <2> SUFFICES ASSUME ~tainted'
      PROVE  /\ launchesSinceCrash' = hLaunches'
             /\ hLaunches' <= sessionsSinceCrash' /\ sessionsSinceCrash' <= hSessions'
             /\ "launch" \notin behind' =>
                  /\ file'.launches = hLaunches'
                  /\ hLaunches' <= file'.sessions /\ file'.sessions <= sessionsSinceCrash'
    BY <1>2 DEF Counted
  <2>1. CASE lastEnd = "crash"
    <3>1. file.n >= 1 /\ file.crashed BY <2>1, <1>2 DEF IInv, Noted
    <3>2. launchesSinceCrash' = 1 /\ sessionsSinceCrash' = 1 BY <3>1, <1>1
    <3> QED BY <2>1, <3>2, <1>1, <1>2
  <2>2. CASE lastEnd # "crash"
    <3>1. loads /\ ~tainted BY <2>2
    <3>2. \/ file.n = 0 /\ hLaunches = 0 /\ hSessions = 0
          \/ /\ file.n = Pieces /\ ~file.crashed /\ file.launches = hLaunches
             /\ hLaunches <= file.sessions /\ file.sessions <= hSessions
      BY <2>2, <3>1, <1>2, Zenon DEF IInv, Counted
    <3>3. ~c BY <3>2, <1>5
    <3>4. /\ launchesSinceCrash' = hLaunches'
          /\ hLaunches' <= sessionsSinceCrash' /\ sessionsSinceCrash' <= hSessions'
      BY <2>2, <3>1, <3>2, <3>3, <1>1, <1>2 DEF IInv, FileType, StateType, NumberType, Pieces
    <3> QED BY <3>4, <1>1, <1>4 DEF NumberType
  <2> QED BY <2>1, <2>2
<1>9. Timed'
  BY <1>1, <1>2, <1>4 DEF Timed, Since, BeforeIt, NumberType
<1>10. Marked' BY <1>1, <1>2 DEF Marked
<1> QED BY <1>1, <1>3, <1>4, <1>7, <1>8, <1>9, <1>10 DEF IInv, StateType

LEMMA ReinstallKeeps ==
    ASSUME IInv, Reinstall
    PROVE  IInv'
<1> USE DEF IInv, StateType
<1>1. /\ alive /\ reported /\ tainted
      /\ alive' = alive /\ reported' = reported /\ tainted' = tainted /\ transition' = transition
      /\ UNCHANGED <<now, observers, hStart, hActive, hBack, hLaunches, hSessions, misled>>
  BY Zenon DEF Reinstall, Marked, process, history, times
<1>2. /\ crashedLast' \in BOOLEAN /\ crashedThis' = FALSE
      /\ activeSinceLaunch' = 0 /\ backSinceLaunch' = 0
      /\ launchesSinceCrash' \in Int /\ sessionsSinceCrash' \in Int
      /\ saving' = "keep" /\ writing' \in BOOLEAN /\ FileType'
      /\ \/ /\ file' = file /\ writing' = FALSE /\ "launch" \in behind'
            /\ (file.n >= 1 /\ file.crashed => "crash" \in behind')
         \/ behind' = {} /\ file'.crashed = FALSE
  <2>1. /\ FileType /\ launchesSinceCrash \in Int /\ sessionsSinceCrash \in Int
        /\ crashedLast \in BOOLEAN
    BY Zenon DEF NumberType, FlagType
  <2>2. PICK loads \in BOOLEAN :
               InitState(activeSinceCrash, backSinceCrash, launchesSinceCrash,
                         sessionsSinceCrash, crashedLast, loads)
    BY DEF Reinstall, Loads
  <2>3. Initialized(launchesSinceCrash, sessionsSinceCrash, crashedLast, loads)
    BY <2>1, <2>2, InitStateEffect, Zenon
  <2> QED BY <2>3, Zenon DEF Initialized
<1>3. FlagType' BY <1>1, <1>2, Zenon DEF FlagType
<1>4. NumberType' BY <1>1, <1>2 DEF NumberType
<1>5. Marked' BY <1>1, <1>2 DEF Marked
<1>6. Noted' BY <1>1, <1>2 DEF Noted
<1>7. Counted' /\ Timed' BY <1>1, <1>2, Zenon DEF Counted, Timed
<1> QED BY <1>2, <1>3, <1>4, <1>5, <1>6, <1>7

\* A save that begins in the middle of a launch, in the two forms the steps below need.
Saved(next, crashed) ==
    /\ saving' = next /\ writing' \in BOOLEAN /\ FileType'
    /\ \/ file' = file /\ writing' = FALSE /\ behind' = behind
       \/ /\ behind' = {} /\ writing' = TRUE /\ file'.crashed = crashed
          /\ file'.launches = launchesSinceCrash /\ file'.sessions = sessionsSinceCrash

LEMMA SavedEffect ==
    ASSUME IInv, NEW crashed \in BOOLEAN, NEW active, NEW back, NEW next,
           StartSave(crashed, active, back, launchesSinceCrash, sessionsSinceCrash, next,
                     behind, 0)
    PROVE  Saved(next, crashed)
<1>1. FileType /\ launchesSinceCrash \in Int /\ sessionsSinceCrash \in Int
  BY DEF IInv, StateType, NumberType
<1> QED BY <1>1, SaveStarts, Zenon DEF Saved

LEMMA NotedCrashKeeps ==
    ASSUME IInv, alive, NEW next \in {"die", "reinit"}, NotifyCrash(next),
           misled' = misled, lastEnd' = lastEnd, UNCHANGED <<hLaunches, hSessions, times>>,
           \/ next = "die" /\ reported' = reported /\ tainted' = tainted
           \/ reported' = TRUE /\ tainted' = TRUE
    PROVE  IInv'
<1>1. Saved(next, TRUE)
  <2>1. TRUE \in BOOLEAN OBVIOUS
  <2> QED BY <2>1, SavedEffect, Zenon DEF NotifyCrash
<1>2. /\ crashedThis' = TRUE
      /\ UNCHANGED <<alive, launchesSinceCrash, sessionsSinceCrash, crashedLast, transition, now,
                     observers>>
  BY Zenon DEF NotifyCrash, counters, position
<1>3. activeSinceLaunch' \in Int /\ backSinceLaunch' \in Int
  BY DEF NotifyCrash, Duration, IInv, StateType, NumberType
<1>4. FlagType' BY <1>1, <1>2 DEF Saved, FlagType, IInv, StateType
<1>5. NumberType' BY <1>2, <1>3 DEF NumberType, IInv, StateType, times
<1>6. Marked' BY <1>1, <1>2 DEF Saved, Marked, IInv
<1>7. Noted' BY <1>1, <1>2 DEF Saved, Noted, IInv
<1>8. Counted' BY <1>1, <1>2 DEF Saved, Counted, IInv, StateType, NumberType
<1>9. Timed' BY <1>2, Zenon DEF Timed
<1> QED BY <1>1, <1>4, <1>5, <1>6, <1>7, <1>8, <1>9 DEF Saved, IInv, StateType

LEMMA StepKeeps == IInv /\ [Next]_vars => IInv'
<1> SUFFICES ASSUME IInv, [Next]_vars PROVE IInv'
  OBVIOUS
<1> USE DEF IInv, FileType, StateType, FlagType, NumberType
<1>1. CASE Launch BY <1>1, LaunchKeeps
<1>2. CASE InstallAgain
  BY <1>2 DEF InstallAgain, Idle, Marked, Noted, Counted, Timed, Since, BeforeIt, durations,
      counters, flags, position, history, times
<1>3. CASE BecomeActive
  BY <1>3 DEF BecomeActive, Idle, Marked, Noted, Counted, Timed, Since, BeforeIt, durations,
      counters, flags, save, history, times
<1>4. CASE ResignActive
  <2>1. observers * Duration \in Int BY <1>4 DEF Duration
  <2>2. observers = 1 => observers * Duration = now - transition BY DEF Duration
  <2> QED BY <1>4, <2>1, <2>2 DEF ResignActive, Idle, Marked, Noted, Counted, Timed, Since,
      BeforeIt, counters, flags, save, history, times
<1>5. CASE EnterBackground
  <2>1. Saved("keep", crashedThis) BY <1>5, SavedEffect DEF EnterBackground
  <2>2. alive /\ saving = "no" /\ lifecycle = "inactive" BY <1>5 DEF EnterBackground, Idle
  <2>3. /\ lifecycle' = "background" /\ transition' = now
        /\ UNCHANGED <<durations, counters, flags, alive, now, observers, history>>
    BY <1>5 DEF EnterBackground
  <2> QED BY <2>1, <2>2, <2>3 DEF Saved, Marked, Noted, Counted, Timed, Since, BeforeIt,
      durations, counters, flags, history, times
<1>6. CASE EnterForeground
  <2>1. observers * Duration \in Int BY <1>6 DEF Duration
  <2>2. observers = 1 => observers * Duration = now - transition BY DEF Duration
  <2>3. alive /\ lifecycle = "background" BY <1>6 DEF EnterForeground, Idle
  <2>4. /\ lifecycle' = "inactive"
        /\ backSinceLaunch' = backSinceLaunch + observers * Duration
        /\ sessionsSinceCrash' = sessionsSinceCrash + observers
        /\ hSessions' = hSessions + 1 /\ tainted' = (tainted \/ observers > 1)
    BY <1>6, Zenon DEF EnterForeground
  <2>5. UNCHANGED <<activeSinceLaunch, launchesSinceCrash, flags, transition, save, alive, now,
                    observers, lastEnd, reported, misled, hLaunches, times>>
    BY <1>6 DEF EnterForeground
  <2>6. Counted'
    <3>0. ~tainted' => ~tainted /\ ~(observers > 1) BY <2>4, Zenon
    <3>1. ~tainted' => ~tainted /\ observers = 1
      <4>1. ~(observers > 1) => observers = 1 BY <2>3 DEF Marked
      <4> QED BY <3>0, <4>1, Zenon
    <3>2. observers = 1 => sessionsSinceCrash' = sessionsSinceCrash + 1 BY <2>4
    <3> QED BY <2>3, <2>4, <2>5, <3>1, <3>2 DEF Counted, save
  <2>7. Timed' BY <2>1, <2>2, <2>3, <2>4, <2>5 DEF Timed, Since, BeforeIt, flags, times
  <2>8. FileType' /\ StateType' /\ Marked' /\ Noted'
    BY <2>1, <2>3, <2>4, <2>5 DEF Marked, Noted, flags, save, times
  <2> QED BY <2>6, <2>7, <2>8
<1>7. CASE Terminate
  <2>1. Saved("die", crashedThis) BY <1>7, SavedEffect DEF Terminate
  <2>2. alive BY <1>7 DEF Terminate, Idle
  <2>3. UNCHANGED <<activeSinceLaunch, backSinceLaunch, counters, flags, position, process,
      history>>
    BY <1>7 DEF Terminate
  <2> QED BY <2>1, <2>2, <2>3 DEF Saved, Marked, Noted, Counted, Timed, Since, BeforeIt,
      counters, flags, position, process, history, times
<1>8. CASE FatalCrash
  BY <1>8, NotedCrashKeeps, Zenon DEF FatalCrash, history
<1>9. CASE ReportUserException
  BY <1>9, NotedCrashKeeps, Zenon DEF ReportUserException, Idle
<1>10. ASSUME alive, AfterSave, FileGrows PROVE IInv'
  <2>1. CASE saving = "die" /\ Die BY <1>10, <2>1, DieKeeps
  <2>2. CASE saving = "keep" /\ saving' = "no" /\ writing' = FALSE /\ UNCHANGED <<durations,
      counters, flags, position, process, behind, mishaps, history>>
    <3>1. /\ FileType' /\ file'.n \in {file.n, file.n + 1} /\ file'.crashed = file.crashed
          /\ file'.launches = file.launches /\ file'.sessions = file.sessions
          /\ (~writing => file'.n = file.n)
      BY <1>10, FileKept, Zenon
    <3>2. Noted' BY <1>10, <2>2, <3>1 DEF Noted, flags, process, history
    <3>3. Marked' /\ Counted' BY <1>10, <2>2, <3>1 DEF Marked, Counted, counters, process, history
    <3>4. Timed' BY <2>2, <3>1 DEF Timed, Since, BeforeIt, durations, flags, position, process,
        history, times
    <3> QED BY <2>2, <3>1, <3>2, <3>3, <3>4 DEF durations, counters, flags, position, process,
        history, times
  <2> QED BY <1>10, <2>1, <2>2 DEF AfterSave
<1>11. CASE WritePiece
  <2> USE DEF FileGrows
  <2>1. CASE AfterSave BY <1>11, <2>1, <1>10 DEF WritePiece
  <2>2. CASE ~AfterSave
    BY <1>11, <2>2, FileKept DEF WritePiece, Marked, Noted, Counted, Timed, Since, BeforeIt,
        durations, counters, flags, position, process, history, times
  <2> QED BY <2>1, <2>2
<1>12. CASE SaveFails
  <2>1. alive /\ AfterSave /\ file' = file BY <1>12, Zenon DEF SaveFails
  <2>2. FileGrows BY <2>1, FileStays, Zenon
  <2> QED BY <1>10, <2>1, <2>2, Zenon
<1>13. CASE Reinstall BY <1>13, ReinstallKeeps
<1>14. CASE Kill
  <2>1. alive /\ Die /\ file' = file BY <1>14, Zenon DEF Kill
  <2>2. FileGrows BY <2>1, FileStays, Zenon
  <2> QED BY <2>1, <2>2, DieKeeps, Zenon
<1>15. CASE Tick
  BY <1>15 DEF Tick, Marked, Noted, Counted, Timed, Since, BeforeIt, durations, counters, flags,
      position, save
<1>16. CASE UNCHANGED vars
  BY <1>16 DEF vars, Marked, Noted, Counted, Timed, Since, BeforeIt, durations, counters, flags,
      position, save, process, history, times
<1> QED
  BY <1>1, <1>2, <1>3, <1>4, <1>5, <1>6, <1>7, <1>8, <1>9, <1>11, <1>12, <1>13, <1>14, <1>15,
      <1>16 DEF Next

LEMMA InvHolds == Spec => []IInv
BY InitIInv, StepKeeps, PTL DEF Spec

(* Whatever save was cut or could not open the file in this launch or the    *)
(* last one, crashedLast says how the last launch ended; unless an exception *)
(* was reported by hand, the file could not be read, or it still told of a   *)
(* crash before the last launch, which had never opened it to write          *)
(* (kscrashstate_init, kscrashstate_i_saveState).                            *)
THEOREM CrashIsRemembered == Spec => []CrashedLastMeansCrash
<1>1. IInv => CrashedLastMeansCrash BY DEF IInv, Noted, CrashedLastMeansCrash
<1> QED BY <1>1, InvHolds, PTL

(* Launches are counted exactly and no session is invented, however many     *)
(* there are and however many saves fail, as long as no process dies with a  *)
(* file cut or never opened (kscrashstate_i_loadState,                       *)
(* kscrashstate_i_saveState).                                                *)
THEOREM CountersKept == Spec => []CountersTrue
<1>1. IInv => CountersTrue BY DEF IInv, Counted, CountersTrue, FileType, StateType, NumberType
<1> QED BY <1>1, InvHolds, PTL

(* The durations are the time that was spent, on every clock, and where the  *)
(* recorder was installed in the middle of a period, the time before it back *)
(* to the clock's zero (kscrashstate_notifyAppActive,                        *)
(* kscrashstate_notifyAppInForeground).                                      *)
THEOREM TimesKept == Spec => []TimesTrue
<1>1. IInv => TimesTrue BY DEF IInv, Timed, TimesTrue, Since, StateType, NumberType
<1> QED BY <1>1, InvHolds, PTL
=============================================================================
