---------------------------- MODULE ScreensProofs ----------------------------
(***************************************************************************)
(* What stands behind the screens of MCScreens.                             *)
(*                                                                         *)
(* The notifier of Reachability keeps itself alive exactly as long as it is *)
(* watched, and after a stop at most one callback is still on its way: for  *)
(* every set of networks and every number of changes.  The screen of the    *)
(* network state leaves it stopped.                                         *)
(*                                                                         *)
(* The registry of URLs and the handler calls of GIFDownloader: for every   *)
(* set of requests and every assignment of URLs to them.                    *)
(***************************************************************************)
EXTENDS NetworkStateView, GIFDownloader, TLAPS

SerialType ==
    /\ serial \in [at : {"idle", "picked", "entered", "calling", "posting"}, flags : SUBSET Flag, kind : Kind]
    /\ net \in Net
    /\ late \in Nat

\* Started, watched and self-retained are one thing; nothing is delivered
\* unwatched.
OneMode ==
    /\ wanted <=> retained
    /\ callback <=> retained
    /\ attached <=> retained
    /\ notice => retained

\* The callback that comes in late was picked while the notifier was wanted,
\* and nothing came in late since.
PickedInTime ==
    /\ wanted => late = 0
    /\ serial.at = "picked" => late = 0
    /\ late <= 1

RInv == SerialType /\ OneMode /\ PickedInTime

LEMMA InitRInv == ReachInit => RInv
<1> SUFFICES ASSUME ReachInit PROVE RInv
  OBVIOUS
<1>1. SerialType
  BY NetsAssumption DEF ReachInit, SerialType, Kind
<1>2. OneMode
  BY DEF ReachInit, OneMode
<1>3. PickedInTime
  BY DEF ReachInit, PickedInTime
<1> QED  BY <1>1, <1>2, <1>3 DEF RInv

LEMMA TypeStep == RInv /\ [ReachNext]_reachVars => SerialType'
<1> SUFFICES ASSUME RInv, [ReachNext]_reachVars PROVE SerialType'
  OBVIOUS
<1> USE DEF RInv, SerialType
<1>1. CASE UNCHANGED <<net, serial, late>>
  BY <1>1
<1>2. CASE StartNotifier
  <2>1. net' = net /\ serial' = serial /\ late' = 0
    BY <1>2, Zenon DEF StartNotifier
  <2> QED  BY <2>1
<1>3. CASE NetChanges
  BY <1>3, NetsAssumption DEF NetChanges
<1>4. CASE Pick
  <2>1. net.flags \in SUBSET Flag
    BY DEF Net
  <2> QED  BY <1>4, <2>1 DEF Pick, history
<1>5. CASE Enter
  <2>1. serial' \in [at : {"idle", "picked", "entered", "calling", "posting"}, flags : SUBSET Flag, kind : Kind]
    BY <1>5 DEF Enter, At
  <2>2. net' = net /\ late' \in Nat
    BY <1>5 DEF Enter
  <2> QED  BY <2>1, <2>2
<1>6. CASE Decide
  <2> DEFINE kind == IF IsReachableWithFlags(serial.flags, OnWWAN) THEN "reachable" ELSE "unreachable"
  <2>1. kind \in Kind
    BY DEF Kind
  <2>2. serial' = [At(IF kind \in blocks THEN "calling" ELSE "posting") EXCEPT !.kind = kind]
    BY <1>6 DEF Decide
  <2> HIDE DEF kind
  <2>3. PICK where \in {"calling", "posting"} : serial' = [At(where) EXCEPT !.kind = kind]
    BY <2>2
  <2>4. serial' \in [at : {"idle", "picked", "entered", "calling", "posting"}, flags : SUBSET Flag, kind : Kind]
    BY <2>1, <2>3 DEF At
  <2>5. net' = net /\ late' = late
    BY <1>6 DEF Decide, history
  <2> QED  BY <2>4, <2>5
<1>7. CASE CallBlock(<< >>) \/ Post
  <2>1. serial' \in [at : {"idle", "picked", "entered", "calling", "posting"}, flags : SUBSET Flag, kind : Kind]
    BY <1>7 DEF CallBlock, Post, At
  <2>2. net' = net /\ late' = late
    BY <1>7 DEF CallBlock, Post, history
  <2> QED  BY <2>1, <2>2
<1>8. CASE SetBlocks \/ StopNotifier \/ ClearBlock \/ Release \/ Note \/ UNCHANGED reachVars
  BY <1>1, <1>8 DEF SetBlocks, StopNotifier, ClearBlock, Release, Note, reachVars, history
<1> QED  BY <1>2, <1>3, <1>4, <1>5, <1>6, <1>7, <1>8 DEF ReachNext, Serve

LEMMA ModeStep == RInv /\ [ReachNext]_reachVars => OneMode'
<1> SUFFICES ASSUME RInv, [ReachNext]_reachVars PROVE OneMode'
  OBVIOUS
<1> USE DEF RInv, OneMode
<1>1. CASE UNCHANGED <<notice, callback, attached, retained, wanted>>
  BY <1>1, Zenon
<1>2. ASSUME StartNotifier PROVE OneMode'
  <2>1. ~notice
    BY <1>2, Zenon DEF StartNotifier
  <2>2. PICK ok \in BOOLEAN : callback' = ok /\ attached' = ok /\ retained' = ok /\ wanted' = ok
    BY <1>2, Zenon DEF StartNotifier
  <2>3. notice' = notice
    BY <1>2, Zenon DEF StartNotifier
  <2> QED  BY <2>1, <2>2, <2>3
<1>3. CASE StopNotifier
  BY <1>3, Zenon DEF StopNotifier
<1>4. CASE NetChanges
  BY <1>4, Zenon DEF NetChanges
<1>5. CASE Pick
  BY <1>5, Zenon DEF Pick, history
<1>6. ASSUME \/ SetBlocks \/ ClearBlock \/ Release \/ Enter \/ Decide \/ CallBlock(<< >>) \/ Post \/ Note
             \/ UNCHANGED reachVars
      PROVE  UNCHANGED <<notice, callback, attached, retained, wanted>>
  BY <1>6 DEF SetBlocks, ClearBlock, Release, Enter, Decide, CallBlock, Post, Note, reachVars, notifier, history
<1> QED  BY <1>1, <1>2, <1>3, <1>4, <1>5, <1>6, Zenon DEF ReachNext, Serve

LEMMA InTimeStep == RInv /\ [ReachNext]_reachVars => PickedInTime'
<1> SUFFICES ASSUME RInv, [ReachNext]_reachVars PROVE PickedInTime'
  OBVIOUS
<1> USE DEF RInv, SerialType, PickedInTime
<1>1. CASE StartNotifier
  BY <1>1 DEF StartNotifier
<1>2. CASE StopNotifier
  BY <1>2 DEF StopNotifier
<1>3. CASE Pick
  <2>1. wanted
    BY <1>3, Zenon DEF Pick, OneMode
  <2>2. late' = 0
    BY <1>3, <2>1 DEF Pick, history
  <2> QED  BY <2>2
<1>4. CASE Enter
  <2>1. late = 0 /\ serial'.at = "entered"
    BY <1>4 DEF Enter, At
  <2>2. CASE wanted
    BY <1>4, <2>1, <2>2 DEF Enter
  <2>3. CASE ~wanted
    <3>1. late' = 1 /\ ~wanted'
      BY <1>4, <2>1, <2>3 DEF Enter
    <3> QED  BY <2>1, <3>1
  <2> QED  BY <2>2, <2>3
<1>5. ASSUME Decide \/ CallBlock(<< >>) \/ Post
      PROVE  serial'.at # "picked" /\ UNCHANGED <<late, wanted>>
  BY <1>5 DEF Decide, CallBlock, Post, At, history
<1>6. ASSUME SetBlocks \/ ClearBlock \/ Release \/ NetChanges \/ Note \/ UNCHANGED reachVars
      PROVE  UNCHANGED <<serial, late, wanted>>
  BY <1>6 DEF SetBlocks, ClearBlock, Release, NetChanges, Note, reachVars, history
<1>7. ASSUME UNCHANGED <<late, wanted>>, serial' = serial \/ serial'.at # "picked" PROVE PickedInTime'
  BY <1>7
<1> QED  BY <1>1, <1>2, <1>3, <1>4, <1>5, <1>6, <1>7 DEF ReachNext, Serve

THEOREM SpecRInv == ReachSpec => []RInv
<1>1. RInv /\ [ReachNext]_reachVars => RInv'
  BY TypeStep, ModeStep, InTimeStep DEF RInv
<1> QED  BY InitRInv, <1>1, PTL DEF ReachSpec

\* startNotifier's retain holds the object for as long as it is watched.
THEOREM NotifierStays == ReachSpec => []StaysWhileNotifying
<1>1. RInv => StaysWhileNotifying
  BY Zenon DEF RInv, OneMode, StaysWhileNotifying, Alive
<1> QED  BY <1>1, SpecRInv, PTL

\* Whoever let go of it last, the object is not watched when it is freed.
THEOREM NotifierDiesStopped == ReachSpec => []DiesStopped
<1>1. RInv => DiesStopped
  BY Zenon DEF RInv, OneMode, DiesStopped, Alive
<1> QED  BY <1>1, SpecRInv, PTL

\* A stop is followed by one more callback at most.
THEOREM LateCallbacksBounded == ReachSpec => []OneLateCallback
<1>1. RInv => OneLateCallback
  BY DEF RInv, PickedInTime, OneLateCallback
<1> QED  BY <1>1, SpecRInv, PTL

\* The notifier mode from its start to the last callback.
THEOREM NotifierModeCorrect == ReachSpec => []NotifierMode
<1>1. RInv => NotifierMode
  <2>1. RInv => StaysWhileNotifying /\ DiesStopped
    BY Zenon DEF RInv, OneMode, StaysWhileNotifying, DiesStopped, Alive
  <2>2. RInv => OneLateCallback
    BY DEF RInv, PickedInTime, OneLateCallback
  <2> QED BY <2>1, <2>2 DEF NotifierMode
<1> QED BY <1>1, SpecRInv, PTL

-----------------------------------------------------------------------------
(* The screen over the notifier: a controller that is gone has stopped it,   *)
(* and the main thread cannot start it anew, for it starts it only before    *)
(* the screen is shown.                                                      *)
LeftInv ==
    /\ mainThread = "starting" => view = "new"
    /\ view = "gone" => ~retained /\ ~callback

LEMMA InitLeftInv == ViewInit => LeftInv
BY Zenon DEF ViewInit, LeftInv

(* What the main thread does besides starting and stopping the notifier     *)
(* changes neither the notifier nor the serial queue.                       *)
LEMMA AnswersAside ==
    ASSUME PressButton \/ RunBlock \/ RunBlockAlone \/ RunNote \/ Read
    PROVE  UNCHANGED <<view, retained, callback, serial>> /\ mainThread' # "starting"
<1>1. ASSUME NEW question \in {"is3G", "not2G", "is4G", "not4G", "isWWAN", "isWiFi"}, Ask(question)
      PROVE  UNCHANGED <<view, retained, callback, serial>> /\ mainThread' # "starting"
  BY <1>1 DEF Ask, reachVars, notifier
<1>2. ASSUME NEW text, Answer(text)
      PROVE  UNCHANGED <<view, retained, callback, serial>> /\ mainThread' # "starting"
  BY <1>2 DEF Answer, notifier
<1>3. CASE PressButton \/ RunBlock \/ RunBlockAlone \/ RunNote
  BY <1>3 DEF PressButton, RunBlock, RunBlockAlone, RunNote, Note, reachVars, notifier, screen
<1>4. CASE Ask2G \/ Ask4G \/ AskWWAN \/ AskWiFi
  BY <1>1, <1>2, <1>4 DEF Ask2G, Ask4G, AskWWAN, AskWiFi
<1>5. CASE Ask3G \/ Ask3GNot2G \/ Ask3GNot4G
  BY <1>1, <1>2, <1>5 DEF Ask3G, Ask3GNot2G, Ask3GNot4G
<1> QED  BY <1>3, <1>4, <1>5 DEF Read

LEMMA LeftStep == LeftInv /\ [ViewNext]_viewVars => LeftInv'
<1> SUFFICES ASSUME LeftInv, [ViewNext]_viewVars PROVE LeftInv'
  OBVIOUS
<1> USE DEF LeftInv
<1>1. ASSUME UNCHANGED <<view, retained, callback>>, mainThread' \in {mainThread, "stopped", "cleared", "free"}
      PROVE  LeftInv'
  BY <1>1, Zenon
<1>2. CASE LoadBlocks
  BY <1>2, Zenon DEF LoadBlocks
<1>3. CASE LoadStarts
  BY <1>3 DEF LoadStarts
<1>4. CASE LeaveStops
  BY <1>4, Zenon DEF LeaveStops, StopNotifier
<1>5. CASE LeaveClears \/ LeaveReleases
  BY <1>1, <1>5 DEF LeaveClears, LeaveReleases, ClearBlock, Release, notifier
<1>6. CASE PressButton \/ RunBlock \/ RunBlockAlone \/ RunNote \/ Read
  <2>1. UNCHANGED <<view, retained, callback>>
    BY <1>6, AnswersAside
  <2>2. mainThread' # "starting"
    BY <1>6, AnswersAside
  <2> QED  BY <2>1, <2>2, Zenon
<1>7. CASE Moves \/ Called
  BY <1>1, <1>7 DEF Moves, Called, NetChanges, Serve, Pick, Enter, Decide, CallBlock, Post, notifier, screen
<1>8. CASE UNCHANGED viewVars
  BY <1>1, <1>8 DEF viewVars, screen, reachVars, notifier
<1> QED  BY <1>2, <1>3, <1>4, <1>5, <1>6, <1>7, <1>8 DEF ViewNext

LEMMA QuietStep ==
    LeftInv /\ [ViewNext]_viewVars => [view = "gone" /\ serial.at = "idle" => serial'.at = "idle"]_viewVars
<1> SUFFICES ASSUME LeftInv, ViewNext, view = "gone", serial.at = "idle"
             PROVE  serial' = serial
  BY Zenon
<1>1. ~callback
  BY Zenon DEF LeftInv
<1>2. CASE LoadBlocks \/ LoadStarts \/ LeaveStops
  BY <1>2 DEF LoadBlocks, LoadStarts, LeaveStops, LeftInv
<1>3. CASE LeaveClears \/ LeaveReleases
  BY <1>3 DEF LeaveClears, LeaveReleases, ClearBlock, Release
<1>4. CASE PressButton \/ RunBlock \/ RunBlockAlone \/ RunNote \/ Read
  BY <1>4, AnswersAside
<1>5. CASE Moves
  BY <1>5 DEF Moves, NetChanges
<1>6. CASE Called
  <2>1. ~Pick
    BY <1>1, Zenon DEF Pick
  <2> QED  BY <1>6, <2>1 DEF Called, Serve, Enter, Decide, CallBlock, Post
<1> QED  BY <1>2, <1>3, <1>4, <1>5, <1>6 DEF ViewNext

\* dealloc of the controller: its notifier is stopped, the object does not keep
\* itself alive any more, and SystemConfiguration does not enter it again.
THEOREM LeavesNothingBehind == ViewSpec => LeavesCleanly
<1>1. LeftInv => (view = "gone" /\ mainThread = "free" => ~retained /\ ~callback)
  BY Zenon DEF LeftInv
<1> QED
  BY InitLeftInv, LeftStep, QuietStep, <1>1, PTL DEF ViewSpec, LeavesCleanly, QuietAfterLeaving

-----------------------------------------------------------------------------
\* Whatever flags come with whatever radio, the answers fit together: the
\* questions are about seven flags and five radios.
LEMMA GenerationsDiffer ==
    ASSUME NEW n \in Net
    PROVE  OneGeneration(n)
BY DEF OneGeneration, IsReachableVia2G, IsReachableVia3G, IsReachableVia4G, Slow, Airplane

LEMMA StringIsStatus ==
    ASSUME NEW n \in Net
    PROVE  StatusAndStringAgree(n)
<1> SUFFICES ASSUME NEW onWWAN \in BOOLEAN, IsReachableWithFlags(n.flags, onWWAN),
                    IF "W" \in n.flags THEN n.radio # "none" ELSE "t" \notin n.flags
             PROVE  CurrentReachabilityStatus(n, onWWAN) = CurrentReachabilityString(n)
  BY DEF StatusAndStringAgree
<1>1. "R" \in n.flags /\ n.radio \in Radio /\ ~(Airplane \subseteq n.flags)
  BY DEF IsReachableWithFlags, Net
<1>2. CASE "W" \notin n.flags
  <2>1. /\ IsReachableViaWiFi(n.flags) /\ ~IsReachableViaWWAN(n.flags)
        /\ ~IsReachableVia2G(n) /\ ~IsReachableVia3G(n) /\ ~IsReachableVia4G(n)
    BY <1>1, <1>2
       DEF IsReachableViaWiFi, IsReachableViaWWAN, IsReachableVia2G, IsReachableVia3G, IsReachableVia4G
  <2> QED  BY <2>1 DEF CurrentReachabilityStatus, CurrentReachabilityString
<1>3. CASE "W" \in n.flags
  <2>1. /\ ~IsReachableViaWiFi(n.flags) /\ IsReachableViaWWAN(n.flags) /\ n.radio # "none"
        /\ IsReachableVia2G(n) <=> Slow(n.radio)
        /\ IsReachableVia4G(n) <=> n.radio = "lte"
        /\ IsReachableVia3G(n) <=> ~Slow(n.radio) /\ n.radio # "lte"
    BY <1>1, <1>3
       DEF IsReachableViaWiFi, IsReachableViaWWAN, IsReachableVia2G, IsReachableVia3G, IsReachableVia4G
  <2>2. CASE n.radio = "lte"
    BY <2>1, <2>2 DEF CurrentReachabilityStatus, CurrentReachabilityString, Slow
  <2>3. CASE Slow(n.radio)
    BY <2>1, <2>3 DEF CurrentReachabilityStatus, CurrentReachabilityString, Slow
  <2>4. CASE ~Slow(n.radio) /\ n.radio # "lte"
    BY <2>1, <2>4 DEF CurrentReachabilityStatus, CurrentReachabilityString
  <2> QED  BY <2>2, <2>3, <2>4
<1> QED  BY <1>2, <1>3

LEMMA RequiredIsDown ==
    ASSUME NEW n \in Net
    PROVE  RequiredStaysDown(n)
BY DEF RequiredStaysDown, IsConnectionOnDemand, IsInterventionRequired, ConnectionRequired,
       CurrentReachabilityStatus, IsReachableWithFlags, Airplane

\* Reachability.m answers the questions of a client, asked at one moment,
\* without contradicting itself, whatever the network does.
THEOREM AnswersAgree == ReachSpec => []QuestionsAgree
<1>1. ASSUME NEW r \in Radio PROVE r \in SoundRadio
  <2> SUFFICES ASSUME NEW f \in SUBSET Flag
               PROVE  LET n == [flags |-> f, radio |-> r]
                      IN  OneGeneration(n) /\ StatusAndStringAgree(n) /\ RequiredStaysDown(n)
    BY DEF SoundRadio
  <2>1. [flags |-> f, radio |-> r] \in Net
    BY DEF Net
  <2> QED  BY <2>1, GenerationsDiffer, StringIsStatus, RequiredIsDown
<1>2. RInv => net.radio \in Radio
  BY DEF RInv, SerialType, Net
<1>3. RInv => QuestionsAgree
  BY <1>1, <1>2 DEF QuestionsAgree
<1> QED  BY <1>3, SpecRInv, PTL

-----------------------------------------------------------------------------
(* The conversions.                                                        *)
USE DownloaderAssumption

Place == Working \cup {"new", "check", "refused", "abandoned", "post", "done"}

\* The main thread is inside the send of exactly the request that is at the
\* array on its behalf.
MainIsSending == \A r \in Request : at[r] \in {"check", "add"} <=> main = r

\* Only a conversion that went on knows of an old file in its way.
StayedIsLate ==
    \A r \in fileStayed : at[r] \in {"convert", "frames", "finish", "remove", "post", "done", "abandoned"}

\* The part of the type invariant the argument rests on.
TypeInv ==
    /\ at \in [Request -> Place]
    /\ main \in Request \cup {NoRequest}
    /\ requests \subseteq {Url[r] : r \in Request}
    /\ running \subseteq Request
    /\ calls \in [Request -> Nat]
    /\ fileStayed \subseteq Request
    /\ refusedIdle \subseteq Request

IInv ==
    /\ TypeInv
    /\ MainIsSending
    /\ OneConversionPerUrl
    /\ RegisteredWhileWorking
    /\ StayedIsLate
    /\ HandlerCalledOnce

LEMMA InitIInv == Init => IInv
<1> SUFFICES ASSUME Init PROVE IInv
  OBVIOUS
<1>1. TypeInv
  BY DEF Init, TypeInv, Place
<1>2. MainIsSending /\ OneConversionPerUrl /\ RegisteredWhileWorking /\ StayedIsLate
  BY DEF Init, MainIsSending, OneConversionPerUrl, RegisteredWhileWorking, StayedIsLate, Working
<1>3. HandlerCalledOnce
  BY DEF Init, HandlerCalledOnce
<1> QED  BY <1>1, <1>2, <1>3 DEF IInv

\* A move that leaves the array, the main thread and the handler alone.
LEMMA QuietMove ==
    ASSUME IInv, NEW r \in Request, NEW a, NEW b, Move(r, a, b),
           requests' = requests, main' = main, calls' = calls, fileStayed' = fileStayed,
           refusedIdle' = refusedIdle, running' \subseteq Request,
           \/ a \in Working \ {"add"} /\ b \in Working \ {"add"}
           \/ a \in Working \ {"add"} /\ b = "abandoned",
           \/ r \notin fileStayed
           \/ b \in {"convert", "frames", "finish", "remove", "abandoned"}
    PROVE  IInv'
<1>1. at' = [at EXCEPT ![r] = b] /\ at[r] = a /\ at \in [Request -> Place]
  BY DEF Move, IInv, TypeInv
<1>2. TypeInv'
  BY <1>1 DEF IInv, TypeInv, Place, Working
<1>3. MainIsSending'
  BY <1>1 DEF IInv, MainIsSending, Working
<1>4. OneConversionPerUrl'
  BY <1>1 DEF IInv, OneConversionPerUrl, Working
<1>5. RegisteredWhileWorking'
  BY <1>1 DEF IInv, RegisteredWhileWorking, Working
<1>6. StayedIsLate'
  BY <1>1 DEF IInv, StayedIsLate, TypeInv
<1>7. HandlerCalledOnce'
  BY <1>1 DEF IInv, HandlerCalledOnce, Working
<1> QED  BY <1>2, <1>3, <1>4, <1>5, <1>6, <1>7 DEF IInv

LEMMA NextIInv == IInv /\ [Next]_vars => IInv'
<1> SUFFICES ASSUME IInv, [Next]_vars PROVE IInv'
  OBVIOUS
<1> USE DEF IInv
<1>1. CASE UNCHANGED vars
  BY <1>1 DEF vars, TypeInv, MainIsSending, OneConversionPerUrl, RegisteredWhileWorking,
              StayedIsLate, HandlerCalledOnce
<1>2. ASSUME NEW r \in Request, Send(r) PROVE IInv'
  <2>1. TypeInv' /\ MainIsSending'
    BY <1>2 DEF Send, Move, TypeInv, Place, MainIsSending
  <2>2. (OneConversionPerUrl /\ RegisteredWhileWorking)'
    BY <1>2 DEF Send, Move, TypeInv, OneConversionPerUrl, RegisteredWhileWorking, Working
  <2>3. (StayedIsLate /\ HandlerCalledOnce)'
    BY <1>2 DEF Send, Move, TypeInv, StayedIsLate, HandlerCalledOnce
  <2> QED  BY <2>1, <2>2, <2>3
<1>3. ASSUME NEW r \in Request, SendRefused(r) PROVE IInv'
  <2>1. TypeInv' /\ MainIsSending'
    BY <1>3 DEF SendRefused, Move, CallHandler, TypeInv, Place, MainIsSending
  <2>2. (OneConversionPerUrl /\ RegisteredWhileWorking)'
    BY <1>3 DEF SendRefused, Move, TypeInv, OneConversionPerUrl, RegisteredWhileWorking, Working
  <2>3. (StayedIsLate /\ HandlerCalledOnce)'
    BY <1>3 DEF SendRefused, Move, CallHandler, TypeInv, StayedIsLate, HandlerCalledOnce
  <2> QED  BY <2>1, <2>2, <2>3
<1>4. ASSUME NEW r \in Request, SendAccepted(r) PROVE IInv'
  <2>1. TypeInv' /\ MainIsSending'
    BY <1>4 DEF SendAccepted, Move, TypeInv, Place, Working, MainIsSending
  <2>2. ASSUME NEW s \in Request, s # r, Url[s] = Url[r] PROVE at[s] \notin Working
    \* Past "add" the URL would be in the array; at "add" s would be the one
    \* the main thread is sending.
    BY <1>4, <2>2 DEF SendAccepted, Move, RegisteredWhileWorking, MainIsSending
  <2>3. (OneConversionPerUrl /\ RegisteredWhileWorking)'
    BY <1>4, <2>2 DEF SendAccepted, Move, TypeInv, OneConversionPerUrl, RegisteredWhileWorking, Working
  <2>4. (StayedIsLate /\ HandlerCalledOnce)'
    BY <1>4 DEF SendAccepted, Move, TypeInv, StayedIsLate, HandlerCalledOnce
  <2> QED  BY <2>1, <2>3, <2>4
<1>5. ASSUME NEW r \in Request, SendEnqueues(r) PROVE IInv'
  <2>1. TypeInv' /\ MainIsSending'
    BY <1>5 DEF SendEnqueues, Move, TypeInv, Place, Working, MainIsSending
  <2>2. (OneConversionPerUrl /\ RegisteredWhileWorking)'
    BY <1>5 DEF SendEnqueues, Move, TypeInv, OneConversionPerUrl, RegisteredWhileWorking, Working
  <2>3. (StayedIsLate /\ HandlerCalledOnce)'
    BY <1>5 DEF SendEnqueues, Move, TypeInv, StayedIsLate, HandlerCalledOnce
  <2> QED  BY <2>1, <2>2, <2>3
<1>6. ASSUME NEW r \in Request,
             \/ Start(r) \/ LoadFails(r) \/ LoadSucceeds(r) \/ FileCleared(r) \/ FileStays(r)
             \/ ConvertFails(r) \/ ConvertStarts(r) \/ AppendFails(r) \/ FramesEnd(r)
             \/ WriterFinishes(r)
      PROVE  IInv'
  <2>1. running' \subseteq Request
    BY <1>6 DEF Start, LoadFails, LoadSucceeds, FileCleared, FileStays, ConvertFails,
                ConvertStarts, AppendFails, FramesEnd, WriterFinishes, TypeInv
  <2>2. CASE Start(r) \/ LoadFails(r) \/ LoadSucceeds(r) \/ FileStays(r)
    <3>1. at[r] \in {"queued", "load", "file"} /\ r \notin fileStayed
      BY <2>2 DEF Start, LoadFails, LoadSucceeds, FileStays, Move, StayedIsLate
    <3> QED  BY <2>1, <2>2, <3>1, QuietMove
             DEF Start, LoadFails, LoadSucceeds, FileStays, Working
  <2>3. CASE FileCleared(r) \/ ConvertFails(r) \/ ConvertStarts(r)
    BY <2>1, <2>3, QuietMove DEF FileCleared, ConvertFails, ConvertStarts, Working
  <2>4. CASE AppendFails(r) \/ FramesEnd(r) \/ WriterFinishes(r)
    BY <2>1, <2>4, QuietMove DEF AppendFails, FramesEnd, WriterFinishes, Working
  <2> QED  BY <1>6, <2>2, <2>3, <2>4
<1>7. ASSUME NEW r \in Request, LoadFailureEnds(r) PROVE IInv'
  <2>1. TypeInv' /\ MainIsSending'
    BY <1>7 DEF LoadFailureEnds, Move, CallHandler, TypeInv, Place, Working, MainIsSending
  <2>2. (OneConversionPerUrl /\ RegisteredWhileWorking)'
    BY <1>7 DEF LoadFailureEnds, Move, TypeInv, OneConversionPerUrl, RegisteredWhileWorking, Working
  <2>3. (StayedIsLate /\ HandlerCalledOnce)'
    BY <1>7 DEF LoadFailureEnds, Move, CallHandler, TypeInv, StayedIsLate, HandlerCalledOnce
  <2> QED  BY <2>1, <2>2, <2>3
<1>8. ASSUME NEW r \in Request, FileFailureReported(r) PROVE IInv'
  <2>1. TypeInv' /\ MainIsSending'
    BY <1>8 DEF FileFailureReported, Move, CallHandler, TypeInv, Place, Working, MainIsSending
  <2>2. (OneConversionPerUrl /\ RegisteredWhileWorking)'
    BY <1>8 DEF FileFailureReported, Move, TypeInv, OneConversionPerUrl, RegisteredWhileWorking, Working
  <2>3. StayedIsLate'
    BY <1>8 DEF FileFailureReported, Move, TypeInv, StayedIsLate
  <2>4. r \notin fileStayed
    BY <1>8 DEF FileFailureReported, Move, StayedIsLate
  <2>5. HandlerCalledOnce'
    BY <1>8, <2>4 DEF FileFailureReported, Move, CallHandler, TypeInv, HandlerCalledOnce
  <2> QED  BY <2>1, <2>2, <2>3, <2>5
<1>9. ASSUME NEW r \in Request, Complete(r) PROVE IInv'
  <2>1. TypeInv' /\ MainIsSending'
    BY <1>9 DEF Complete, Move, TypeInv, Place, Working, MainIsSending
  <2>2. OneConversionPerUrl'
    BY <1>9 DEF Complete, Move, TypeInv, OneConversionPerUrl, Working
  <2>3. RegisteredWhileWorking'
    \* Whoever else works on something works on another URL.
    BY <1>9 DEF Complete, Move, TypeInv, OneConversionPerUrl, RegisteredWhileWorking, Working
  <2>4. (StayedIsLate /\ HandlerCalledOnce)'
    BY <1>9 DEF Complete, Move, TypeInv, StayedIsLate, HandlerCalledOnce
  <2> QED  BY <2>1, <2>2, <2>3, <2>4
<1>10. ASSUME NEW r \in Request, MainCallsHandler(r) PROVE IInv'
  <2>1. TypeInv' /\ MainIsSending'
    BY <1>10 DEF MainCallsHandler, Move, CallHandler, TypeInv, Place, Working, MainIsSending
  <2>2. (OneConversionPerUrl /\ RegisteredWhileWorking)'
    BY <1>10 DEF MainCallsHandler, Move, TypeInv, OneConversionPerUrl, RegisteredWhileWorking, Working
  <2>3. (StayedIsLate /\ HandlerCalledOnce)'
    BY <1>10 DEF MainCallsHandler, Move, CallHandler, TypeInv, StayedIsLate, HandlerCalledOnce
  <2> QED  BY <2>1, <2>2, <2>3
<1>11. CASE Next
  BY <1>2, <1>3, <1>4, <1>5, <1>6, <1>7, <1>8, <1>9, <1>10, <1>11 DEF Next, Progress
<1> QED  BY <1>1, <1>11

THEOREM SpecIInv == Spec => []IInv
BY InitIInv, NextIInv, PTL DEF Spec

\* Types; the bound 2 on the handler calls follows from their accounting.
THEOREM TypeCorrect == Spec => []TypeOK
<1>1. IInv => TypeOK
  BY DEF IInv, TypeInv, TypeOK, Place, HandlerCalledOnce
<1> QED  BY <1>1, SpecIInv, PTL

\* No URL is converted twice at the same time.
THEOREM ConversionsExclusive == Spec => []OneConversionPerUrl
BY SpecIInv, PTL DEF IInv

\* A URL that is worked on is in the array.
THEOREM WorkingIsRegistered == Spec => []RegisteredWhileWorking
BY SpecIInv, PTL DEF IInv

\* The handler is called once per request, and once more for an old output
\* file that could not be removed.
THEOREM HandlerCallsCounted == Spec => []HandlerCalledOnce
BY SpecIInv, PTL DEF IInv

\* The array of URLs guards the conversions.
THEOREM ArrayGuards == Spec => []UrlsGuarded
<1>1. IInv => UrlsGuarded
  BY DEF IInv, UrlsGuarded
<1> QED BY <1>1, SpecIInv, PTL
=============================================================================
