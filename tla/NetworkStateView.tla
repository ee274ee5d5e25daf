-------------------------- MODULE NetworkStateView --------------------------
(***************************************************************************)
(* WTNetworkStateViewController.m: a label that shows what                  *)
(* currentReachabilityString answers, refreshed on the main thread by the   *)
(* two blocks of Reachability and by a button.                              *)
(*                                                                         *)
(* The string is put together from several questions, each of which reads   *)
(* the flags or the radio anew, while they may change between them: a label *)
(* can be one that was never true.  A change of the flags brings another    *)
(* callback; one of the radio alone does not, and the label stays as it is  *)
(* until the flags change or the button is pressed.                         *)
(***************************************************************************)
EXTENDS Reachability

VARIABLES
    view,       \* the controller: before viewDidLoad, on screen, deallocated
    mainThread, \* where the main thread stands
    button,     \* the label is read for the button, not for a block
    label,      \* _descriptionLabel, "none" before the first answer
    \* history, for the properties
    radioMoved  \* the radio changed alone, with no change of the flags and no
                \*   beginning of an answer after it

screen == <<view, mainThread, button, label>>
viewVars == <<reachVars, screen, radioMoved>>

ViewInit ==
    /\ ReachInit
    /\ view = "new"
    /\ mainThread = "free"
    /\ button = FALSE
    /\ label = "none"
    /\ radioMoved = FALSE

-----------------------------------------------------------------------------
\* viewDidLoad sets both blocks, then starts the notifier; a failure to start
\* goes unnoticed.
LoadBlocks ==
    /\ view = "new" /\ mainThread = "free"
    /\ SetBlocks
    /\ mainThread' = "starting"
    /\ UNCHANGED <<view, button, label, radioMoved>>

LoadStarts ==
    /\ mainThread = "starting"
    /\ StartNotifier
    /\ view' = "shown"
    /\ mainThread' = "free"
    /\ UNCHANGED <<button, label, radioMoved>>

\* Mutant of LeaveStops: the controller relies on the dealloc of Reachability.
LeaveUnstopped ==
    /\ view = "shown" /\ mainThread = "free"
    /\ view' = "gone"
    /\ mainThread' = "stopped"
    /\ UNCHANGED <<net, changes, notifier, serial, held, blocks, mainQueue, stirred, late, lastCall,
                   broken, button, label, radioMoved>>
    /\ wanted' = FALSE

\* dealloc: stop, forget one of the blocks, let go.
LeaveStops ==
    /\ view = "shown" /\ mainThread = "free"
    /\ StopNotifier
    /\ view' = "gone"
    /\ mainThread' = "stopped"
    /\ UNCHANGED <<button, label, radioMoved>>

LeaveClears ==
    /\ mainThread = "stopped"
    /\ ClearBlock
    /\ mainThread' = "cleared"
    /\ UNCHANGED <<view, button, label, radioMoved>>

LeaveReleases ==
    /\ mainThread = "cleared"
    /\ Release
    /\ mainThread' = "free"
    /\ UNCHANGED <<view, button, label, radioMoved>>

\* The button "CurrentNetSatate".
PressButton ==
    /\ view = "shown" /\ mainThread = "free"
    /\ mainThread' = "is2G"
    /\ button' = TRUE
    /\ radioMoved' = FALSE
    /\ UNCHANGED <<reachVars, view, label>>

\* What a block of the controller dispatched: it refers to the controller
\* weakly and does nothing visible without it.
RunBlock ==
    /\ mainThread = "free" /\ view = "shown"
    /\ mainQueue # << >> /\ Head(mainQueue) = "label"
    /\ mainThread' = "is2G"
    /\ button' = FALSE
    /\ radioMoved' = FALSE
    /\ UNCHANGED <<reachVars, view, label>>

RunBlockAlone ==
    /\ mainThread = "free" /\ view = "gone"
    /\ mainQueue # << >> /\ Head(mainQueue) = "label"
    /\ mainQueue' = Tail(mainQueue)
    /\ UNCHANGED <<net, changes, notifier, serial, held, blocks, history, screen, radioMoved>>

RunNote == mainThread = "free" /\ Note /\ UNCHANGED <<screen, radioMoved>>

-----------------------------------------------------------------------------
(* currentReachabilityString, question by question. *)

Answer(text) ==
    /\ label' = text
    /\ mainThread' = "free"
    /\ mainQueue' = IF button THEN mainQueue ELSE Tail(mainQueue)
    /\ UNCHANGED <<net, changes, notifier, serial, held, blocks, history, view, button, radioMoved>>

Ask(question) ==
    /\ mainThread' = question
    /\ UNCHANGED <<reachVars, view, button, label, radioMoved>>

\* isReachableVia3G reads the flags, and for WWAN asks for 2G and 4G after it.
Ask2G == mainThread = "is2G" /\ IF IsReachableVia2G(net) THEN Answer("2G") ELSE Ask("is3G")
Ask3G ==
    /\ mainThread = "is3G"
    /\ IF "W" \in net.flags THEN Ask("not2G")
       ELSE IF IsReachableVia3G(net) THEN Answer("3G") ELSE Ask("is4G")
Ask3GNot2G == mainThread = "not2G" /\ Ask(IF IsReachableVia2G(net) THEN "is4G" ELSE "not4G")
Ask3GNot4G == mainThread = "not4G" /\ IF IsReachableVia4G(net) THEN Ask("is4G") ELSE Answer("3G")
Ask4G == mainThread = "is4G" /\ IF IsReachableVia4G(net) THEN Answer("4G") ELSE Ask("isWWAN")
AskWWAN == mainThread = "isWWAN" /\ IF IsReachableViaWWAN(net.flags) THEN Answer("Cellular") ELSE Ask("isWiFi")
AskWiFi == mainThread = "isWiFi" /\ Answer(IF IsReachableViaWiFi(net.flags) THEN "WiFi" ELSE "No Connection")

Read == Ask2G \/ Ask3G \/ Ask3GNot2G \/ Ask3GNot4G \/ Ask4G \/ AskWWAN \/ AskWiFi

Moves ==
    /\ NetChanges
    /\ radioMoved' = (view = "shown" /\ stirred /\ net'.flags = net.flags)
    /\ UNCHANGED screen

Called == Serve(<<"label">>) /\ UNCHANGED <<screen, radioMoved>>

ViewNext ==
    /\ ~broken
    /\ \/ LoadBlocks \/ LoadStarts
       \/ LeaveStops \/ LeaveClears \/ LeaveReleases
       \/ PressButton
       \/ RunBlock \/ RunBlockAlone \/ RunNote
       \/ Read
       \/ Moves \/ Called

\* The serial queue runs; the main thread goes on with what it began, and its
\* run loop serves the main queue between two presses of the button.
ViewFairness ==
    /\ WF_viewVars(~broken /\ Called)
    /\ WF_viewVars(~broken /\ (LoadStarts \/ LeaveClears \/ LeaveReleases \/ Read))
    /\ SF_viewVars(~broken /\ (RunBlock \/ RunBlockAlone \/ RunNote))

ViewSpec == ViewInit /\ [][ViewNext]_viewVars /\ ViewFairness

-----------------------------------------------------------------------------
\* Once the controller is gone and the callback that was under way is over,
\* SystemConfiguration never enters the object again, which may be free by
\* then.
QuietAfterLeaving ==
    [][view = "gone" /\ serial.at = "idle" => serial'.at = "idle"]_viewVars

\* A controller that is gone leaves nothing behind and nothing running: its
\* notifier was stopped, so that the object does not outlive the controller by
\* retaining itself.
LeavesCleanly ==
    /\ [](view = "gone" /\ mainThread = "free" => ~retained /\ ~callback)
    /\ QuietAfterLeaving

\* However the questions of one answer fell between the changes of flags and
\* radio, the label ends on what the network settled in; but for a change of
\* the radio alone, which no callback follows, behind the last answer.
LabelSettles ==
    <>[](view = "shown" /\ stirred /\ ~radioMoved => label = CurrentReachabilityString(net))
=============================================================================
